----------------------------- MODULE SqlValues -----------------------------
(* What a cell of a table may hold, for the rules of the antipattern       *)
(* detector that reason about rows.                                        *)
CONSTANTS
  Values,  \* what it holds when it holds something
  None     \* SQL's NULL; also whatever is not known

ASSUME SqlAssumption == None \notin Values
============================================================================
