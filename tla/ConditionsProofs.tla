------------------------- MODULE ConditionsProofs -------------------------
(* Proofs about Conditions, for any columns, values and bounds.            *)
EXTENDS Conditions, TLAPS

(* The logic of three values, case by case.                                *)
LEMMA Logic ==
  ASSUME NEW a \in Truth, NEW b \in Truth
  PROVE  /\ And3(a, b) \in Truth /\ Or3(a, b) \in Truth /\ Not3(a) \in Truth
         /\ And3(a, b) = "true" <=> (a = "true" /\ b = "true")
         /\ Or3(a, b) = "true" <=> (a = "true" \/ b = "true")
         /\ Not3(a) = "true" <=> a = "false"
         /\ Not3(a) = "false" <=> a = "true"
BY DEF And3, Or3, Not3, Truth

(* What one changed operand does to the value of an AND, OR or NOT.        *)
LEMMA Step ==
  ASSUME NEW x \in Truth
  PROVE  /\ And3("unknown", x) # And3("false", x) =>
              And3("unknown", x) = "unknown" /\ And3("false", x) = "false"
         /\ And3(x, "unknown") # And3(x, "false") =>
              And3(x, "unknown") = "unknown" /\ And3(x, "false") = "false"
         /\ And3("unknown", x) # And3("true", x) =>
              And3("unknown", x) = "unknown" /\ And3("true", x) = "true"
         /\ And3(x, "unknown") # And3(x, "true") =>
              And3(x, "unknown") = "unknown" /\ And3(x, "true") = "true"
         /\ Or3("unknown", x) # Or3("false", x) =>
              Or3("unknown", x) = "unknown" /\ Or3("false", x) = "false"
         /\ Or3(x, "unknown") # Or3(x, "false") =>
              Or3(x, "unknown") = "unknown" /\ Or3(x, "false") = "false"
         /\ Or3("unknown", x) # Or3("true", x) =>
              Or3("unknown", x) = "unknown" /\ Or3("true", x) = "true"
         /\ Or3(x, "unknown") # Or3(x, "true") =>
              Or3(x, "unknown") = "unknown" /\ Or3(x, "true") = "true"
BY DEF And3, Or3, Not3, Truth
(* A leaf's fields, and why it is sound.                                   *)
LEMMA LeafSound ==
  ASSUME NEW shape \in Leaves \ {"in"}, NEW truth \in Truth,
         NEW direct \in SUBSET Columns,
         NEW equal \in SUBSET (Columns \X Columns), NEW rejects \in SUBSET Columns,
         truth = "true" => \A e \in equal : row[e[1]] = row[e[2]],
         truth # "unknown" => \A k \in rejects : row[k] # None,
         shape = "isnull" /\ truth = "false" => \A k \in direct : row[k] # None
  PROVE  LET n == Leaf(shape, truth, direct, equal, rejects)
         IN  n \in Reading /\ NodeSound(n)
<1>1. Leaf(shape, truth, direct, equal, rejects) \in Reading
  BY DEF Leaf, Reading, Leaves, Parity
<1>2. NodeSound(Leaf(shape, truth, direct, equal, rejects))
  BY DEF Leaf, NodeSound, Leaves, Truth
<1> QED BY <1>1, <1>2

(* AND keeps every reading of both sides.                                  *)
LEMMA AndSound ==
  ASSUME NEW a \in Reading, NEW b \in Reading, OneFollowed(a, b),
         NodeSound(a), NodeSound(b)
  PROVE  AndNode(a, b) \in Reading /\ NodeSound(AndNode(a, b))
<1> DEFINE n == AndNode(a, b)
<1>0. /\ a.truth \in Truth /\ b.truth \in Truth /\ a.bare \in Truth /\ b.bare \in Truth
      /\ a.parity \in Parity /\ b.parity \in Parity
      /\ a.equal \subseteq Columns \X Columns /\ b.equal \subseteq Columns \X Columns
      /\ a.rejects \subseteq Columns /\ b.rejects \subseteq Columns
  BY DEF Reading
<1>1. /\ n.shape = "and" /\ n.truth = And3(a.truth, b.truth)
      /\ n.bare = And3(a.bare, b.bare) /\ n.parity = Followed(a, b) /\ n.direct = {}
      /\ n.equal = a.equal \cup b.equal /\ n.rejects = a.rejects \cup b.rejects
  BY DEF AndNode
<1>2. n \in Reading
  <2>1. And3(a.truth, b.truth) \in Truth /\ And3(a.bare, b.bare) \in Truth
    BY <1>0, Logic
  <2>2. Followed(a, b) \in Parity  BY <1>0 DEF Followed
  <2> QED BY <1>0, <2>1, <2>2 DEF AndNode, Reading
<1>3. n.truth = "true" => a.truth = "true" /\ b.truth = "true"
  <2>1. And3(a.truth, b.truth) = "true" <=> (a.truth = "true" /\ b.truth = "true")
    BY <1>0, Logic
  <2> QED BY <1>1, <2>1
<1>4. /\ n.truth = "true" => \A e \in n.equal : row[e[1]] = row[e[2]]
      /\ n.truth = "true" => \A k \in n.rejects : row[k] # None
  BY <1>1, <1>3 DEF NodeSound
<1>5. n.parity = "none" => n.truth = n.bare
  BY <1>0, <1>1 DEF NodeSound, Followed, Parity
<1>6. n.parity = "even" /\ n.truth # n.bare => n.bare = "false" /\ n.truth = "unknown"
  <2>1. CASE a.parity = "none"
    BY <2>1, <1>0, <1>1, Step DEF NodeSound, Followed
  <2>2. CASE b.parity = "none"
    BY <2>2, <1>0, <1>1, Step DEF NodeSound, Followed
  <2> QED BY <2>1, <2>2 DEF OneFollowed
<1>7. n.parity = "odd" /\ n.truth # n.bare => n.bare = "true" /\ n.truth = "unknown"
  <2>1. CASE a.parity = "none"
    BY <2>1, <1>0, <1>1, Step DEF NodeSound, Followed
  <2>2. CASE b.parity = "none"
    BY <2>2, <1>0, <1>1, Step DEF NodeSound, Followed
  <2> QED BY <2>1, <2>2 DEF OneFollowed
<1>8. NodeSound(n)
  BY <1>1, <1>4, <1>5, <1>6, <1>7 DEF NodeSound
<1> QED BY <1>2, <1>8

(* OR keeps no equality, and only what both sides reject.                  *)
LEMMA OrSound ==
  ASSUME NEW a \in Reading, NEW b \in Reading, OneFollowed(a, b),
         NodeSound(a), NodeSound(b)
  PROVE  OrNode(a, b) \in Reading /\ NodeSound(OrNode(a, b))
<1> DEFINE n == OrNode(a, b)
<1>0. /\ a.truth \in Truth /\ b.truth \in Truth /\ a.bare \in Truth /\ b.bare \in Truth
      /\ a.parity \in Parity /\ b.parity \in Parity
      /\ a.rejects \subseteq Columns /\ b.rejects \subseteq Columns
  BY DEF Reading
<1>1. /\ n.shape = "or" /\ n.truth = Or3(a.truth, b.truth)
      /\ n.bare = Or3(a.bare, b.bare) /\ n.parity = Followed(a, b) /\ n.direct = {}
      /\ n.equal = {} /\ n.rejects = a.rejects \cap b.rejects
  BY DEF OrNode
<1>2. n \in Reading
  <2>1. Or3(a.truth, b.truth) \in Truth /\ Or3(a.bare, b.bare) \in Truth
    BY <1>0, Logic
  <2>2. Followed(a, b) \in Parity  BY <1>0 DEF Followed
  <2> QED BY <1>0, <2>1, <2>2 DEF OrNode, Reading
<1>3. n.truth = "true" => a.truth = "true" \/ b.truth = "true"
  BY <1>0, <1>1, Logic
<1>4. n.truth = "true" => \A k \in n.rejects : row[k] # None
  BY <1>1, <1>3 DEF NodeSound
<1>5. n.parity = "none" => n.truth = n.bare
  BY <1>0, <1>1 DEF NodeSound, Followed, Parity
<1>6. n.parity = "even" /\ n.truth # n.bare => n.bare = "false" /\ n.truth = "unknown"
  <2>1. CASE a.parity = "none"
    BY <2>1, <1>0, <1>1, Step DEF NodeSound, Followed
  <2>2. CASE b.parity = "none"
    BY <2>2, <1>0, <1>1, Step DEF NodeSound, Followed
  <2> QED BY <2>1, <2>2 DEF OneFollowed
<1>7. n.parity = "odd" /\ n.truth # n.bare => n.bare = "true" /\ n.truth = "unknown"
  <2>1. CASE a.parity = "none"
    BY <2>1, <1>0, <1>1, Step DEF NodeSound, Followed
  <2>2. CASE b.parity = "none"
    BY <2>2, <1>0, <1>1, Step DEF NodeSound, Followed
  <2> QED BY <2>1, <2>2 DEF OneFollowed
<1>8. NodeSound(n)
  BY <1>1, <1>4, <1>5, <1>6, <1>7 DEF NodeSound
<1> QED BY <1>2, <1>8

(* NOT and parentheses.                                                    *)
LEMMA NotSound ==
  ASSUME NEW a \in Reading, NodeSound(a)
  PROVE  /\ NotNode(a) \in Reading /\ NodeSound(NotNode(a))
         /\ ParenNode(a) \in Reading /\ NodeSound(ParenNode(a))
<1>0. /\ a.truth \in Truth /\ a.bare \in Truth /\ a.parity \in Parity
      /\ a.direct \subseteq Columns /\ a.rejects \subseteq Columns
  BY DEF Reading
<1>1. NotRejects(a) \subseteq Columns
  BY <1>0 DEF NotRejects
<1>2. NotNode(a) \in Reading
  <2>1. Not3(a.truth) \in Truth /\ Not3(a.bare) \in Truth  BY <1>0, Logic
  <2>2. Flip(a.parity) \in Parity  BY <1>0 DEF Flip, Parity
  <2> QED BY <1>1, <2>1, <2>2 DEF NotNode, Reading
<1>3. NodeSound(NotNode(a))
  <2> DEFINE n == NotNode(a)
  <2>1. /\ n.shape = "not" /\ n.truth = Not3(a.truth) /\ n.bare = Not3(a.bare)
        /\ n.parity = Flip(a.parity) /\ n.equal = {} /\ n.rejects = NotRejects(a)
    BY DEF NotNode
  <2>2. n.truth = "true" => a.truth = "false"  BY <1>0, <2>1 DEF Not3, Truth
  <2>3. n.truth = "true" => \A k \in n.rejects : row[k] # None
    BY <2>1, <2>2 DEF NodeSound, NotRejects
  <2>4. n.parity = "none" => n.truth = n.bare
    BY <1>0, <2>1 DEF NodeSound, Flip, Parity
  <2>5. n.parity = "even" /\ n.truth # n.bare => n.bare = "false" /\ n.truth = "unknown"
    BY <1>0, <2>1 DEF NodeSound, Flip, Parity, Not3
  <2>6. n.parity = "odd" /\ n.truth # n.bare => n.bare = "true" /\ n.truth = "unknown"
    BY <1>0, <2>1 DEF NodeSound, Flip, Parity, Not3
  <2> QED BY <2>1, <2>3, <2>4, <2>5, <2>6 DEF NodeSound
<1>4. ParenNode(a) \in Reading /\ NodeSound(ParenNode(a))
  BY DEF ParenNode, Reading, NodeSound
<1> QED BY <1>2, <1>3, <1>4

---------------------------------------------------------------------------
CondInv == CondTypeOK /\ ReadSound

(* A step that adds a sound subcondition keeps what was sound.             *)
LEMMA VisitKeeps ==
  ASSUME CondInv, NEW n, n \in Reading /\ NodeSound(n), Visit(n)
  PROVE  CondInv'
BY DEF CondInv, CondTypeOK, ReadSound, NodeSound, Visit

LEMMA LeafKeeps ==
  ASSUME CondInv,
         NEW shape \in Leaves \ {"in"}, NEW truth \in Truth,
         NEW direct \in SUBSET Columns,
         NEW equal \in SUBSET (Columns \X Columns), NEW rejects \in SUBSET Columns,
         truth = "true" => \A e \in equal : row[e[1]] = row[e[2]],
         truth # "unknown" => \A k \in rejects : row[k] # None,
         shape = "isnull" /\ truth = "false" => \A k \in direct : row[k] # None,
         VisitLeaf(Leaf(shape, truth, direct, equal, rejects))
  PROVE  CondInv'
<1>1. /\ Leaf(shape, truth, direct, equal, rejects) \in Reading
      /\ NodeSound(Leaf(shape, truth, direct, equal, rejects))
  BY LeafSound
<1> QED BY <1>1, VisitKeeps DEF VisitLeaf

(* The leaves from which no equality is read, IS NULL apart.               *)
LEMMA PlainLeafKeeps ==
  ASSUME CondInv,
         NEW shape \in Leaves \ {"in", "isnull"}, NEW truth \in Truth,
         NEW direct \in SUBSET Columns, NEW rejects \in SUBSET Columns,
         truth # "unknown" => \A k \in rejects : row[k] # None,
         VisitLeaf(Leaf(shape, truth, direct, {}, rejects))
  PROVE  CondInv'
<1>1. /\ {} \in SUBSET (Columns \X Columns)
      /\ \A e \in {} : row[e[1]] = row[e[2]]
      /\ shape \in Leaves \ {"in"} /\ shape # "isnull"
  OBVIOUS
<1> QED BY <1>1, LeafKeeps

LEMMA InitSound == CondInit => CondInv
BY DEF CondInit, CondInv, CondTypeOK, ReadSound

(* Every step of the walk keeps the readings sound.                        *)
LEMMA NextSound == CondInv /\ [CondNext]_condVars => CondInv'
<1> SUFFICES ASSUME CondInv, [CondNext]_condVars PROVE CondInv'
  OBVIOUS
<1>0. /\ "compare" \in Leaves \ {"in"} /\ "isnull" \in Leaves \ {"in"}
      /\ "other" \in Leaves \ {"in"} /\ "compare" \in Leaves \ {"in", "isnull"}
      /\ "between" \in Leaves \ {"in", "isnull"} /\ "other" \in Leaves \ {"in", "isnull"}
      /\ "true" \in Truth /\ "false" \in Truth /\ "unknown" \in Truth
  BY DEF Leaves, Truth
<1>1. CASE EqualColumns
  <2>1. PICK l, r \in Columns :
          VisitLeaf(Leaf("compare", EqualTruth(l, r), {l, r}, {<<l, r>>}, {l, r}))
    BY <1>1 DEF EqualColumns
  <2>2. EqualTruth(l, r) \in Truth
    BY DEF EqualTruth, TruthOf, Truth
  <2>3. EqualTruth(l, r) # "unknown" => row[l] # None /\ row[r] # None
    BY DEF EqualTruth, IsNull, Direct
  <2>4. EqualTruth(l, r) = "true" => row[l] = row[r]
    BY DEF EqualTruth, TruthOf
  <2>5. /\ {l, r} \in SUBSET Columns /\ {<<l, r>>} \in SUBSET (Columns \X Columns)
        /\ \A k \in {l, r} : k = l \/ k = r
        /\ \A e \in {<<l, r>>} : e[1] = l /\ e[2] = r
    OBVIOUS
  <2> QED BY <1>0, <2>1, <2>2, <2>3, <2>4, <2>5, LeafKeeps
<1>2. CASE Compare
  <2>1. PICK l, r \in Operand : \E truth \in Truth :
          /\ IsNull({l, r}) => truth = "unknown"
          /\ VisitLeaf(Leaf("compare", truth, Direct({l, r}), {}, Direct({l, r})))
    BY <1>2 DEF Compare
  <2>2. PICK truth \in Truth :
          /\ IsNull({l, r}) => truth = "unknown"
          /\ VisitLeaf(Leaf("compare", truth, Direct({l, r}), {}, Direct({l, r})))
    BY <2>1
  <2>3. /\ Direct({l, r}) \in SUBSET Columns
        /\ truth # "unknown" => \A k \in Direct({l, r}) : row[k] # None
    BY <2>2 DEF Direct, IsNull
  <2> QED BY <1>0, <2>2, <2>3, PlainLeafKeeps
<1>3. CASE Quantified
  <2>1. PICK l \in Operand, truth \in Truth :
          VisitLeaf(Leaf("compare", truth, Direct({l}), {}, {}))
    BY <1>3 DEF Quantified
  <2>2. Direct({l}) \in SUBSET Columns  BY DEF Direct
  <2>3. {} \in SUBSET Columns /\ \A k \in {} : row[k] # None  OBVIOUS
  <2> QED BY <1>0, <2>1, <2>2, <2>3, PlainLeafKeeps
<1>4. CASE Tuples
  <2>1. PICK pairs \in SUBSET (Columns \X Columns), truth \in Truth :
          /\ truth = "true" => \A p \in pairs : EqualTruth(p[1], p[2]) = "true"
          /\ VisitLeaf(Leaf("compare", truth, {}, pairs, {}))
    BY <1>4 DEF Tuples
  <2>2. truth = "true" => \A p \in pairs : row[p[1]] = row[p[2]]
    BY <2>1 DEF EqualTruth, TruthOf
  <2> QED BY <1>0, <2>1, <2>2, LeafKeeps
<1>5. CASE NullSafe
  <2>1. PICK l, r \in Columns :
          VisitLeaf(Leaf("other", TruthOf(row[l] = row[r]), {l, r}, {<<l, r>>}, {}))
    BY <1>5 DEF NullSafe
  <2>2. TruthOf(row[l] = row[r]) \in Truth  BY Zenon DEF TruthOf, Truth
  <2>3. TruthOf(row[l] = row[r]) = "true" => row[l] = row[r]
    BY DEF TruthOf
  <2>4. /\ {l, r} \in SUBSET Columns /\ {<<l, r>>} \in SUBSET (Columns \X Columns)
        /\ \A e \in {<<l, r>>} : e[1] = l /\ e[2] = r
    OBVIOUS
  <2> QED BY <1>0, <2>1, <2>2, <2>3, <2>4, LeafKeeps
<1>6. CASE NullTest
  <2>1. PICK k \in Columns :
          VisitLeaf(Leaf("isnull", TruthOf(row[k] = None), {k}, {}, {}))
    BY <1>6 DEF NullTest
  <2>2. TruthOf(row[k] = None) \in Truth  BY DEF TruthOf, Truth
  <2>3. TruthOf(row[k] = None) = "false" => \A m \in {k} : row[m] # None
    BY DEF TruthOf
  <2>4. {k} \in SUBSET Columns  OBVIOUS
  <2> QED BY <1>0, <2>1, <2>2, <2>3, <2>4, LeafKeeps
<1>7. CASE Between
  <2>1. PICK k \in Operand, truth \in Truth :
          /\ IsNull({k}) => truth = "unknown"
          /\ VisitLeaf(Leaf("between", truth, Direct({k}), {}, Direct({k})))
    BY <1>7 DEF Between
  <2>2. /\ Direct({k}) \in SUBSET Columns
        /\ truth # "unknown" => \A m \in Direct({k}) : row[m] # None
    BY <2>1 DEF Direct, IsNull
  <2> QED BY <1>0, <2>1, <2>2, PlainLeafKeeps
<1>8. CASE In
  <2>1. PICK k \in Operand, truth \in Truth : \E bare \in Truth :
          /\ IsNull({k}) => truth # "true"
          /\ bare # truth => bare = "false" /\ truth = "unknown"
          /\ VisitLeaf([shape |-> "in", truth |-> truth, bare |-> bare, parity |-> "even",
                direct |-> Direct({k}), equal |-> {}, rejects |-> Direct({k})])
    BY <1>8 DEF In
  <2>2. PICK bare \in Truth :
          /\ IsNull({k}) => truth # "true"
          /\ bare # truth => bare = "false" /\ truth = "unknown"
          /\ VisitLeaf([shape |-> "in", truth |-> truth, bare |-> bare, parity |-> "even",
                direct |-> Direct({k}), equal |-> {}, rejects |-> Direct({k})])
    BY <2>1
  <2> DEFINE n == [shape |-> "in", truth |-> truth, bare |-> bare, parity |-> "even",
                   direct |-> Direct({k}), equal |-> {}, rejects |-> Direct({k})]
  <2>3. n \in Reading
    BY DEF Reading, Leaves, Parity, Direct
  <2>4. truth = "true" => \A m \in Direct({k}) : row[m] # None
    BY <2>2 DEF IsNull
  <2>5. NodeSound(n)
    BY <2>2, <2>4 DEF NodeSound
  <2>6. Visit(n)  BY <2>2 DEF VisitLeaf
  <2> HIDE DEF n
  <2> QED BY <2>3, <2>5, <2>6, VisitKeeps
<1>9. CASE Other
  <2>1. PICK truth \in Truth : VisitLeaf(Leaf("other", truth, {}, {}, {}))
    BY <1>9 DEF Other
  <2> QED BY <1>0, <2>1, LeafKeeps
<1>10. CASE VisitAnd
  <2>1. PICK a, b \in read : OneFollowed(a, b) /\ Visit(AndNode(a, b))
    BY <1>10 DEF VisitAnd
  <2>2. a \in Reading /\ b \in Reading /\ NodeSound(a) /\ NodeSound(b)
    BY DEF CondInv, CondTypeOK, ReadSound
  <2>3. AndNode(a, b) \in Reading /\ NodeSound(AndNode(a, b))
    BY <2>1, <2>2, AndSound
  <2> QED BY <2>1, <2>3, VisitKeeps
<1>11. CASE VisitOr
  <2>1. PICK a, b \in read : OneFollowed(a, b) /\ Visit(OrNode(a, b))
    BY <1>11 DEF VisitOr
  <2>2. a \in Reading /\ b \in Reading /\ NodeSound(a) /\ NodeSound(b)
    BY DEF CondInv, CondTypeOK, ReadSound
  <2>3. OrNode(a, b) \in Reading /\ NodeSound(OrNode(a, b))
    BY <2>1, <2>2, OrSound
  <2> QED BY <2>1, <2>3, VisitKeeps
<1>12. CASE VisitNot
  <2>1. PICK a \in read : Visit(NotNode(a))  BY <1>12 DEF VisitNot
  <2>2. a \in Reading /\ NodeSound(a)  BY DEF CondInv, CondTypeOK, ReadSound
  <2> QED BY <2>1, <2>2, NotSound, VisitKeeps
<1>13. CASE VisitParen
  <2>1. PICK a \in read : Visit(ParenNode(a))  BY <1>13 DEF VisitParen
  <2>2. a \in Reading /\ NodeSound(a)  BY DEF CondInv, CondTypeOK, ReadSound
  <2> QED BY <2>1, <2>2, NotSound, VisitKeeps
<1>14. CASE UNCHANGED condVars
  BY <1>14 DEF condVars, CondInv, CondTypeOK, ReadSound, NodeSound
<1> QED
  BY <1>1, <1>2, <1>3, <1>4, <1>5, <1>6, <1>7, <1>8, <1>9, <1>10, <1>11, <1>12,
     <1>13, <1>14 DEF CondNext

LEMMA CondInvHolds == CondSpec => []CondInv
BY InitSound, NextSound, PTL DEF CondSpec

(* Of any condition over any columns, wherever it is true the equalities   *)
(* read from it hold: _guaranteed_column_equalities.                       *)
THEOREM ReadingTheorem == CondSpec => []EqualitiesHold
<1>1. CondInv => EqualitiesHold
  BY DEF CondInv, ReadSound, NodeSound, EqualitiesHold
<1> QED BY <1>1, CondInvHolds, PTL

(* Wherever it is true the columns read as NULL-rejecting are not NULL,    *)
(* through any nesting of NOT, AND and OR: _guaranteed_non_null_columns.   *)
THEOREM RejectionTheorem == CondSpec => []NullsRejected
<1>1. CondInv => NullsRejected
  BY DEF CondInv, ReadSound, NodeSound, NullsRejected
<1> QED BY <1>1, CondInvHolds, PTL

(* A NULL in the subquery of an IN that _in_is_logically_negated calls not *)
(* negated changes no decision, however deep the IN stands.                *)
THEOREM ParityTheorem == CondSpec => []ParitySound
<1>1. CondInv => ParitySound
  BY DEF CondInv, ReadSound, NodeSound, ParitySound
<1> QED BY <1>1, CondInvHolds, PTL
============================================================================
