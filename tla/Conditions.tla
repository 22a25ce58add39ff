---------------------------- MODULE Conditions ----------------------------
(***************************************************************************)
(* What the antipattern detector reads from a condition (an ON, WHERE or   *)
(* HAVING clause) without looking at a row: the equalities between columns *)
(* and the columns rejected when NULL that it takes as guaranteed wherever *)
(* the condition is true, and whether an IN stands under a negation        *)
(* (antipattern_detector.py, _guaranteed_column_equalities,                *)
(* _guaranteed_non_null_columns, _in_is_logically_negated).                *)
(*                                                                         *)
(* The walks are recursive; here every return of a call is a step that     *)
(* adds the subcondition to read, together with its truth for one row in   *)
(* SQL's logic of three values. What the detector cannot look into         *)
(* (literals, functions, subqueries) has any value at all.                 *)
(***************************************************************************)
EXTENDS SqlValues, Naturals, FiniteSets

CONSTANTS
  Columns,    \* the columns of the row
  Opaque,     \* an operand that is not a column
  MaxLeaves,  \* bound: predicates without a logical operator per condition
  MaxRead     \* bound: subconditions per condition

ASSUME ConditionsAssumption == Opaque \notin Columns

VARIABLES
  row,   \* the row the condition is evaluated on
  read   \* the subconditions visited so far

condVars == <<row, read>>

Truth == {"true", "false", "unknown"}
Leaves == {"compare", "between", "in", "isnull", "other"}
Parity == {"none", "even", "odd"}

Operand == Columns \cup {Opaque}

(* A visited subcondition: its form, its value on the row, the value it    *)
(* would have if the subquery of one IN in it returned no NULL (bare), the *)
(* number of NOTs above that IN, and the three readings.                   *)
Reading ==
  [shape : Leaves \cup {"and", "or", "not", "paren"},
   truth : Truth, bare : Truth, parity : Parity,
   direct : SUBSET Columns,
   equal : SUBSET (Columns \X Columns), rejects : SUBSET Columns]

CondTypeOK ==
  /\ row \in [Columns -> Values \cup {None}]
  /\ read \subseteq Reading

(* The logic of three values.                                              *)
And3(a, b) == IF "false" \in {a, b} THEN "false"
              ELSE IF "unknown" \in {a, b} THEN "unknown" ELSE "true"
Not3(a) == CASE a = "true" -> "false" [] a = "false" -> "true"
             [] a = "unknown" -> "unknown"
Or3(a, b) == Not3(And3(Not3(a), Not3(b)))
TruthOf(p) == IF p THEN "true" ELSE "false"

(* _resolved_direct_columns: the operands that are columns themselves.     *)
Direct(operands) == operands \cap Columns

IsNull(operands) == \E c \in Direct(operands) : row[c] = None

Leaf(shape, truth, direct, equal, rejects) ==
  [shape |-> shape, truth |-> truth, bare |-> truth, parity |-> "none",
   direct |-> direct, equal |-> equal, rejects |-> rejects]

LeavesRead == Cardinality({n \in read : n.shape \in Leaves})
Visit(node) == read' = read \cup {node} /\ UNCHANGED row
VisitLeaf(node) == LeavesRead < MaxLeaves /\ Visit(node)

CondInit == row \in [Columns -> Values \cup {None}] /\ read = {}

(* EQ between two columns: unknown as soon as one is NULL.                 *)
EqualTruth(l, r) == IF IsNull({l, r}) THEN "unknown" ELSE TruthOf(row[l] = row[r])

EqualColumns == \E l, r \in Columns :
  VisitLeaf(Leaf("compare", EqualTruth(l, r), {l, r}, {<<l, r>>}, {l, r}))

(* Every other comparison and LIKE, and EQ with an operand that is no      *)
(* column: nothing is known of it but that a NULL operand makes it unknown.*)
Compare == \E l, r \in Operand : \E truth \in Truth :
  /\ IsNull({l, r}) => truth = "unknown"
  /\ VisitLeaf(Leaf("compare", truth, Direct({l, r}), {}, Direct({l, r})))

(* A comparison with ALL, ANY or a subquery: true for a NULL operand too   *)
(* when the subquery is empty, so nothing is read from it.                 *)
Quantified == \E l \in Operand : \E truth \in Truth :
  VisitLeaf(Leaf("compare", truth, Direct({l}), {}, {}))

(* (a, b) = (c, d): decomposed by position when all are columns.           *)
Tuples == \E pairs \in SUBSET (Columns \X Columns) : \E truth \in Truth :
  /\ truth = "true" => \A p \in pairs : EqualTruth(p[1], p[2]) = "true"
  /\ pairs # {}
  /\ VisitLeaf(Leaf("compare", truth, {}, pairs, {}))

(* IS NOT DISTINCT FROM: two NULLs are equal.                              *)
NullSafe == \E l, r \in Columns :
  VisitLeaf(Leaf("other", TruthOf(row[l] = row[r]), {l, r}, {<<l, r>>}, {}))

NullTest == \E c \in Columns :
  VisitLeaf(Leaf("isnull", TruthOf(row[c] = None), {c}, {}, {}))

Between == \E c \in Operand : \E truth \in Truth :
  /\ IsNull({c}) => truth = "unknown"
  /\ VisitLeaf(Leaf("between", truth, Direct({c}), {}, Direct({c})))

(* c IN (SELECT ...): with a NULL among the rows what would be false is    *)
(* unknown. For a NULL operand it is false when there are no rows.         *)
In == \E c \in Operand : \E truth, bare \in Truth :
  /\ IsNull({c}) => truth # "true"
  /\ bare # truth => bare = "false" /\ truth = "unknown"
  /\ VisitLeaf([shape |-> "in", truth |-> truth, bare |-> bare, parity |-> "even",
                direct |-> Direct({c}), equal |-> {}, rejects |-> Direct({c})])

(* CASE, functions, EXISTS, boolean columns: any value, nothing read.      *)
Other == \E truth \in Truth : VisitLeaf(Leaf("other", truth, {}, {}, {}))

(* At most one IN of a condition is followed, any one.                     *)
Followed(a, b) == IF a.parity = "none" THEN b.parity ELSE a.parity
OneFollowed(a, b) == "none" \in {a.parity, b.parity}

AndNode(a, b) ==
  [shape |-> "and", truth |-> And3(a.truth, b.truth), bare |-> And3(a.bare, b.bare),
   parity |-> Followed(a, b), direct |-> {},
   equal |-> a.equal \cup b.equal, rejects |-> a.rejects \cup b.rejects]

\* Mutant: an OR guarantees the equalities of both sides.
OrNode_Both(a, b) ==
  [shape |-> "or", truth |-> Or3(a.truth, b.truth), bare |-> Or3(a.bare, b.bare),
   parity |-> Followed(a, b), direct |-> {},
   equal |-> a.equal \cup b.equal, rejects |-> a.rejects \cap b.rejects]

OrNode(a, b) ==
  [shape |-> "or", truth |-> Or3(a.truth, b.truth), bare |-> Or3(a.bare, b.bare),
   parity |-> Followed(a, b), direct |-> {},
   equal |-> {}, rejects |-> a.rejects \cap b.rejects]

\* Mutant: NOT keeps what an IN rejects, as it does of a comparison.
NotRejects_OfIn(a) ==
  CASE a.shape = "isnull" -> a.direct
    [] a.shape \in {"compare", "between", "in"} -> a.rejects
    [] OTHER -> {}

(* NOT keeps what a comparison or BETWEEN rejects, and turns IS NULL round;*)
(* it keeps nothing of an IN, which is false for NULL and an empty list.   *)
NotRejects(a) ==
  CASE a.shape = "isnull" -> a.direct
    [] a.shape \in {"compare", "between"} -> a.rejects
    [] OTHER -> {}

Flip(parity) == CASE parity = "even" -> "odd" [] parity = "odd" -> "even"
                  [] parity = "none" -> "none"

\* Mutant: a NOT is not counted.
NotNode_KeepsParity(a) ==
  [shape |-> "not", truth |-> Not3(a.truth), bare |-> Not3(a.bare),
   parity |-> a.parity, direct |-> {}, equal |-> {}, rejects |-> NotRejects(a)]

NotNode(a) ==
  [shape |-> "not", truth |-> Not3(a.truth), bare |-> Not3(a.bare),
   parity |-> Flip(a.parity), direct |-> {}, equal |-> {}, rejects |-> NotRejects(a)]

ParenNode(a) == [a EXCEPT !.shape = "paren"]

Room == Cardinality(read) < MaxRead

VisitAnd == Room /\ \E a, b \in read : OneFollowed(a, b) /\ Visit(AndNode(a, b))
VisitOr == Room /\ \E a, b \in read : OneFollowed(a, b) /\ Visit(OrNode(a, b))
VisitNot == Room /\ \E a \in read : Visit(NotNode(a))
VisitParen == Room /\ \E a \in read : Visit(ParenNode(a))

CondNext ==
  \/ EqualColumns \/ Compare \/ Quantified \/ Tuples \/ NullSafe
  \/ NullTest \/ Between \/ In \/ Other
  \/ VisitAnd \/ VisitOr \/ VisitNot \/ VisitParen

CondSpec == CondInit /\ [][CondNext]_condVars

---------------------------------------------------------------------------
(* Where a condition is true, every equality read from it holds, two NULLs *)
(* counting as equal: the detector unites the columns of                   *)
(* _guaranteed_column_equalities without seeing a row.                     *)
EqualitiesHold == \A n \in read : n.truth = "true" =>
  \A e \in n.equal : row[e[1]] = row[e[2]]

(* Where a condition is true, no column read as NULL-rejecting is NULL:    *)
(* the detector drops its NOT IN warning on the word of                    *)
(* _guaranteed_non_null_columns.                                           *)
NullsRejected == \A n \in read : n.truth = "true" =>
  \A c \in n.rejects : row[c] # None

(* A NULL from the subquery of an IN under an even number of NOTs never    *)
(* changes whether the condition is true, so the detector may ignore it    *)
(* there: _in_is_logically_negated counts the NOTs above.                  *)
ParitySound == \A n \in read : n.parity = "even" =>
  (n.truth = "true" <=> n.bare = "true")

(* What the walk maintains, node by node. A comparison that is false       *)
(* rejects NULLs as one that is true does, or NOT could not keep it.       *)
NodeSound(n) ==
  /\ n.truth = "true" => \A e \in n.equal : row[e[1]] = row[e[2]]
  /\ n.truth = "true" => \A c \in n.rejects : row[c] # None
  /\ n.shape \in {"compare", "between"} /\ n.truth # "unknown" =>
       \A c \in n.rejects : row[c] # None
  /\ n.shape = "isnull" /\ n.truth = "false" => \A c \in n.direct : row[c] # None
  /\ n.parity = "none" => n.truth = n.bare
  /\ n.parity = "even" /\ n.truth # n.bare => n.bare = "false" /\ n.truth = "unknown"
  /\ n.parity = "odd" /\ n.truth # n.bare => n.bare = "true" /\ n.truth = "unknown"

ReadSound == \A n \in read : NodeSound(n)

============================================================================
