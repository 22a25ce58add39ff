--------------------------- MODULE MCAntipatterns ---------------------------
(* The antipattern detector at one condition, or at one of the SELECTs of  *)
(* MCCartesianProducts. What a condition guarantees is part of how these   *)
(* are written down (Clause), so the two walks share no step: while one    *)
(* goes on the variables of the other say None. The conditions have up to  *)
(* four parts, of which at most two are predicates and the others logical  *)
(* operators or parentheses, on a row of two columns.                      *)
EXTENDS MCCartesianProducts, Conditions

CONSTANTS c, d

MCColumns == {c, d}

(* No operator of Conditions tells one column from another, and the        *)
(* SELECTs have columns of their own. It does not tell the values apart    *)
(* either, but their SELECTs do: so only rows that begin with one of them. *)
Perms == Permutations(MCColumns)
FirstValue == \A y \in MCColumns : row[y] = upper => \E z \in MCColumns : row[z] = lower

NoCondition == row = None /\ read = {}
NoSelect ==
  /\ query = None /\ db = None /\ words = None /\ meaning = None
  /\ at = 0 /\ rows = {} /\ filtered = FALSE /\ todo = {} /\ equated = <<>>
  /\ grain = FALSE /\ active = {} /\ irrelevant = {} /\ empty = FALSE
  /\ attached = {} /\ once = FALSE

DetectorInit == (ProductInit /\ NoCondition) \/ (CondInit /\ FirstValue /\ NoSelect)
AtSelect == row = None /\ UNCHANGED condVars
AtCondition == row # None /\ UNCHANGED allVars

(* The guards of VisitLeaf and of the operators, tested before the choices.*)
AtLeaf == AtCondition /\ LeavesRead < MaxLeaves
AtNode == AtCondition /\ Room

DetectorNext ==
  \/ AtSelect /\ CountedJoin
  \/ AtSelect /\ CountedFilter
  \/ AtSelect /\ CountedUnite
  \/ AtLeaf /\ EqualColumns
  \/ AtLeaf /\ Compare
  \/ AtLeaf /\ Quantified
  \/ AtLeaf /\ Tuples
  \/ AtLeaf /\ NullSafe
  \/ AtLeaf /\ NullTest
  \/ AtLeaf /\ Between
  \/ AtLeaf /\ In
  \/ AtLeaf /\ Other
  \/ AtNode /\ VisitAnd
  \/ AtNode /\ VisitOr
  \/ AtNode /\ VisitNot
  \/ AtNode /\ VisitParen

DetectorSpec == DetectorInit /\ [][DetectorNext]_<<condVars, allVars>>
==============================================================================
