------------------------------ MODULE ResultCanon ------------------------------
(***************************************************************************)
(* result_canon.py: how reproducible the rows of a query are.  The rows a  *)
(* query has without LIMIT and OFFSET are given in ORDER BY order; those   *)
(* of one rank may come in any order.  The analyzer does not see ranks: it *)
(* compares sort keys in a canonical form (canonical_row), which folds     *)
(* numbers at 12 digits and knows no collation, so that rows of different  *)
(* ranks may look tied and tied rows may not.                              *)
(***************************************************************************)
EXTENDS Integers, Sequences, FiniteSets

CONSTANTS
    Tables,     \* what queries select from
    Canons,     \* canonical forms of sort keys
    Payloads,   \* what a row of the result shows
    None        \* no LIMIT, no cap, not decided

ASSUME CanonAssumption == None \notin Int \union BOOLEAN

\* A row before LIMIT and OFFSET, and the rows in order.
Row == [rank : Int, canon : Canons, payload : Payloads]
Sorted(rows) == \A i, j \in DOMAIN rows : i < j => rows[i].rank <= rows[j].rank

\* A query: its LIMIT and OFFSET, whether extract_limit can read the LIMIT as
\* an integer, whether it has an ORDER BY or calls a function like random(),
\* and whether build_tie_probe can rewrite it (no set operation or DISTINCT).
\* One that is an aggregate has no GROUP BY and orders its one row by a column.
Query ==
    [table : Tables, limit : Nat \union {None}, readable : BOOLEAN, offset : Nat,
     ordered : BOOLEAN, random : BOOLEAN, rewritable : BOOLEAN, aggregate : BOOLEAN]

Labels == {"DETERMINISTIC", "SET_UNDEFINED", "SET_AMBIGUOUS", "UNRESOLVED",
           "NONDETERMINISTIC_FN", "TRUNCATED"}

Least(m, n) == IF m <= n THEN m ELSE n

\* How many rows the query returns of a table of n, under a LIMIT.
RowCount(q, limit, n) ==
    LET made == IF q.aggregate THEN 1 ELSE n
        after == IF q.offset < made THEN made - q.offset ELSE 0
    IN  IF limit = None THEN after ELSE Least(limit, after)

------------------------------------------------------------------------------
\* extract_limit, with the zero _execute_query_safe puts for a LIMIT it cannot
\* read, and the injected LIMIT for a query without one.
EffectiveLimit(q, safety) ==
    IF q.limit = None THEN safety ELSE IF q.readable THEN q.limit ELSE 0

\* The LIMIT cut the result, or may have: a result of just its length counts.
LimitBinds(count, limit) == limit # None /\ count >= limit

\* The rank of the last row the LIMIT lets through.
CutPosition(q, limit) == q.offset + limit

\* build_tie_probe returns a probe: the sort keys of all rows in their order.
\* Those of an aggregate are the rows it is made of.
Probeable(q) == q.rewritable /\ q.ordered

\* _should_probe_tie and the two early returns of _probe_tie.
Probes(q, count, truncated, limit) ==
    /\ ~truncated
    /\ q.ordered
    /\ ~q.random
    /\ LimitBinds(count, limit)
    /\ Probeable(q)
    /\ CutPosition(q, limit) >= 1

\* Whether two rows that may come either side of the cut look tied: the probe
\* is a query of its own, and puts tied rows where it likes.
Verdicts(rows, cut) ==
    LET Sides == {p \in (DOMAIN rows) \X (DOMAIN rows) :
            /\ p[1] # p[2]
            /\ rows[p[1]].rank = rows[cut].rank /\ rows[p[2]].rank = rows[cut + 1].rank}
    IN  {rows[p[1]].canon = rows[p[2]].canon : p \in Sides}

\* Mutant: the probe looks one rank too high.
TieAt_Before(rows, cut) ==
    IF cut > 1 /\ cut <= Len(rows) THEN Verdicts(rows, cut - 1) ELSE {FALSE}

\* The end of _probe_tie: the keys either side of the cut, if there are two.
TieAt(rows, cut) == IF cut < Len(rows) THEN Verdicts(rows, cut) ELSE {FALSE}

\* classify_determinism.
Classify(q, count, truncated, limit, tie) ==
    IF truncated THEN "TRUNCATED"
    ELSE IF q.random THEN "NONDETERMINISTIC_FN"
    ELSE IF ~LimitBinds(count, limit) THEN "DETERMINISTIC"
    ELSE IF ~q.ordered THEN "SET_UNDEFINED"
    ELSE IF tie = None THEN "UNRESOLVED"
    ELSE IF tie THEN "SET_AMBIGUOUS" ELSE "DETERMINISTIC"

------------------------------------------------------------------------------
\* What the labels promise: the rows any database could return for the query.
\* It puts the rows in an order the ORDER BY allows and cuts OFFSET and LIMIT
\* out of it; what is selected of the rows shows as a multiset of values.
Arrangements(q, rows) ==
    LET places == DOMAIN rows
    IN  {p \in [places -> places] :
            /\ \A i, j \in places : p[i] = p[j] => i = j
            /\ q.ordered => \A i, j \in places : i < j => rows[p[i]].rank <= rows[p[j]].rank}

Selections(q, limit, rows) ==
    {{p[i] : i \in (q.offset + 1)..(q.offset + RowCount(q, limit, Len(rows)))} :
        p \in Arrangements(q, rows)}

Multiset(rows, selection) ==
    [v \in Payloads |-> Cardinality({i \in selection : rows[i].payload = v})]

\* "The multiset of rows is fully determined by the query and the data" (59).
Determined(q, limit, rows) ==
    /\ ~q.random
    /\ ~q.aggregate =>
        \A a, b \in Selections(q, limit, rows) : Multiset(rows, a) = Multiset(rows, b)

\* "The query admits several equally ranked answers" (65-67).
SeveralAnswers(q, limit, rows) ==
    ~q.aggregate /\ \E a, b \in Selections(q, limit, rows) : a # b

\* Rows that tie look tied, and rows that look tied tie.
TiesShow(rows) == \A i, j \in DOMAIN rows :
    rows[i].rank = rows[j].rank => rows[i].canon = rows[j].canon
TiesTrue(rows) == \A i, j \in DOMAIN rows :
    rows[i].canon = rows[j].canon => rows[i].rank = rows[j].rank

\* The analyzer knows where the LIMIT cuts.
CutKnown(q) == q.offset = 0 \/ (q.readable /\ q.limit # 0)

\* What OFFSET skips is no choice among equals: this cut no probe looks at.
SkipsCleanly(q, rows) ==
    q.offset = 0 \/ (q.ordered /\ (q.offset < Len(rows) => rows[q.offset].rank # rows[q.offset + 1].rank))
===============================================================================
