------------------------ MODULE ConsistencyProofs ------------------------
(* Proofs about Consistency, for any items, numbers, texts and tables.     *)
EXTENDS Consistency, FiniteSetTheorems, TLAPS

---------------------------------------------------------------------------
(* What a finding of each rule can be. Of the literal rule it is always    *)
(* about one obligation.                                                   *)
OfLiteral(f) == \E o, status, reason, target : f = LiteralFinding(o, status, reason, target)

(* Whichever way the literal rule came to it.                              *)
LEMMA LiteralCases ==
  ASSUME NEW q, NEW marks, NEW where, NEW select, NEW context,
         NEW f \in LiteralFindings(q, marks, where, select, context)
  PROVE  OfLiteral(f)
<1> USE DEF OfLiteral
<1>1. ASSUME NEW os, NEW g \in Conflicts(q, marks, where, select, os, context) PROVE OfLiteral(g)
  BY <1>1, Zenon DEF Conflicts, QuotedConflicts, NearConflicts
<1>2. ASSUME NEW o, NEW g \in Substitutions(o, select, context) PROVE OfLiteral(g)
  BY <1>2, Zenon DEF Substitutions
<1>3. ASSUME NEW o, NEW os, NEW g \in Mismatches(q, o, os, select, context) PROVE OfLiteral(g)
  BY <1>3, Zenon DEF Mismatches
<1>4. ASSUME NEW o, NEW g \in Flags(q, o, context) PROVE OfLiteral(g)
  BY <1>4, Zenon DEF Flags
<1>5. ASSUME NEW o, NEW g \in Unlicensed(q, o, context) PROVE OfLiteral(g)
  <2>1. \/ g \in Flags(q, o, context)
        \/ g = LiteralFinding(o, "unresolved", "threshold", "context")
        \/ g = LiteralFinding(o, "unresolved", "filter", "sql")
        \/ g = LiteralFinding(o, "unresolved", "unlicensed", "mapping")
    BY <1>5, Zenon DEF Unlicensed
  <2> QED BY <1>4, <2>1, Zenon
<1> HIDE DEF OfLiteral
<1>6. \/ f \in Conflicts(q, marks, where, select, Obligations(where), context)
      \/ \E o : \/ f \in Substitutions(o, select, context)
               \/ f \in Mismatches(q, o, Obligations(where), select, context)
               \/ f = LiteralFinding(o, "supported", "licensed", "mapping")
               \/ f \in Unlicensed(q, o, context)
  BY Zenon DEF LiteralFindings
<1>7. ASSUME NEW o PROVE OfLiteral(LiteralFinding(o, "supported", "licensed", "mapping"))
  BY Zenon DEF OfLiteral
<1> QED BY <1>1, <1>2, <1>3, <1>5, <1>6, <1>7, Zenon

(* A finding about the words of a cue, and one that decides nothing.       *)
OfCue(f) == \E cue, status, reason, target, mentions, op, value :
              f = AboutCue(cue, status, reason, target, mentions, op, value)
Undecided(f) == f.status \in {"unresolved", "not_assessed"}

(* A finding that abstains keeps its rule.                                 *)
LEMMA UndecidedFields ==
  ASSUME NEW rule, NEW reason, NEW target, NEW at, NEW locs, NEW f,
         \/ f = Finding(rule, "unresolved", reason, target, at, locs)
         \/ f = Finding(rule, "not_assessed", reason, target, at, locs)
  PROVE  f.rule = rule /\ Undecided(f)
BY DEF Finding, Undecided

(* A verdict on one predicate; only the last two of its cases decide.      *)
Decides(cue, m, evidence, f) ==
  LET o == m.obligation
  IN  /\ ~o.disjunctive /\ ~o.negated /\ ~OrdinalPolarity(cue, o)
      /\ o.op # "IN" /\ (cue.op = "EQ" \/ o.op # "EQ")
      /\ \/ /\ EvidenceContradicts(evidence, cue, o)
            /\ f = AboutCue(cue, "contradicted", "evidence against question", "mapping",
                            {m}, cue.op, o.value)
         \/ /\ o.op \in Compatible[cue.op]
            /\ f = AboutCue(cue, "supported", "boundary", "sql", {m}, cue.op, o.value)
         \/ /\ o.op \notin Compatible[cue.op]
            /\ f = AboutCue(cue, "contradicted", "boundary", "sql", {m}, cue.op, o.value)

(* What a finding about a cue says, field by field.                        *)
LEMMA AboutCueFields ==
  ASSUME NEW cue, NEW status, NEW reason, NEW target, NEW mentions, NEW op, NEW value
  PROVE  LET f == AboutCue(cue, status, reason, target, mentions, op, value)
         IN  /\ f.rule = BoundaryRule /\ f.status = status /\ f.reason = reason
             /\ f.target = target /\ f.at = cue.span.from /\ f.locs = Locations(mentions)
             /\ f.op = op /\ f.value = value
             /\ OfCue(f)
<1>1. OfCue(AboutCue(cue, status, reason, target, mentions, op, value))
  BY Zenon DEF OfCue
<1> QED BY <1>1 DEF AboutCue

(* What is said of a cue and its one predicate: nothing, or a decision.    *)
LEMMA BoundCases ==
  ASSUME NEW cue, NEW m, NEW evidence, NEW f, f = BoundVerdict(cue, m, evidence)
  PROVE  OfCue(f) /\ (Undecided(f) \/ Decides(cue, m, evidence, f))
<1> DEFINE o == m.obligation
           Realizable == ~(o.op = "IN" \/ (cue.op # "EQ" /\ o.op = "EQ"))
<1>1. ASSUME NEW status \in {"unresolved", "not_assessed"}, NEW reason, NEW target, NEW op, NEW value,
             f = AboutCue(cue, status, reason, target, {m}, op, value)
      PROVE  OfCue(f) /\ Undecided(f)
  BY <1>1, AboutCueFields DEF Undecided
<1>2. CASE o.disjunctive \/ OrdinalPolarity(cue, o) \/ o.negated \/ ~Realizable
  <2>1. \/ f = AboutCue(cue, "not_assessed", "boolean context", "sql", {m}, "", o.value)
        \/ f = AboutCue(cue, "unresolved", "ordinal polarity", "context", {m}, "", o.value)
        \/ f = AboutCue(cue, "not_assessed", "sql negation", "sql", {m}, "", "")
        \/ f = AboutCue(cue, "unresolved", "realization", "sql", {m}, cue.op, o.value)
    BY <1>2, Zenon DEF BoundVerdict
  <2> QED BY <2>1, <1>1
<1>3. CASE /\ ~(o.disjunctive \/ OrdinalPolarity(cue, o) \/ o.negated \/ ~Realizable)
           /\ EvidenceContradicts(evidence, cue, o)
  <2>1. \/ f = AboutCue(cue, "unresolved", "evidence convention", "mapping", {m}, cue.op, o.value)
        \/ f = AboutCue(cue, "contradicted", "evidence against question", "mapping", {m}, cue.op, o.value)
    BY <1>3, Zenon DEF BoundVerdict
  <2>2. f = AboutCue(cue, "contradicted", "evidence against question", "mapping", {m}, cue.op, o.value)
          => Decides(cue, m, evidence, f) /\ OfCue(f)
    BY <1>3, Zenon DEF Decides, OfCue
  <2> QED BY <2>1, <2>2, <1>1
<1>4. CASE /\ ~(o.disjunctive \/ OrdinalPolarity(cue, o) \/ o.negated \/ ~Realizable)
           /\ ~EvidenceContradicts(evidence, cue, o)
  <2>1. /\ o.op \in Compatible[cue.op] =>
             f = AboutCue(cue, "supported", "boundary", "sql", {m}, cue.op, o.value)
        /\ o.op \notin Compatible[cue.op] =>
             f = AboutCue(cue, "contradicted", "boundary", "sql", {m}, cue.op, o.value)
    BY <1>4, Zenon DEF BoundVerdict
  <2> QED BY <1>4, <2>1, Zenon DEF Decides, OfCue
<1> QED BY <1>2, <1>3, <1>4

(* A cue is decided only on a predicate that it is bound to.               *)
LEMMA SingleCases ==
  ASSUME NEW q, NEW cue, NEW mentions, NEW evidence,
         NEW f \in SingleFindings(q, cue, mentions, evidence)
  PROVE  /\ OfCue(f)
         /\ \/ Undecided(f)
            \/ \E m \in BoundTo(q, cue, mentions) : Decides(cue, m, evidence, f)
<1> DEFINE nearest == Nearest(cue, mentions)
           plain == {m \in nearest : ~CountsEvents(q, cue, m)}
           counting == {m \in nearest : CountsEvents(q, cue, m)}
<1>1. nearest \ counting = plain
  OBVIOUS
<1>2. \/ f = AboutCue(cue, "not_assessed", "negation", "mapping", nearest, "", "")
      \/ f = AboutCue(cue, "unresolved", "role", "mapping", plain, cue.op, OnlyValue(plain))
      \/ \E m \in BoundTo(q, cue, mentions) : f = BoundVerdict(cue, m, evidence)
  BY <1>1, Zenon DEF SingleFindings, BoundTo
<1>3. ASSUME NEW m, f = BoundVerdict(cue, m, evidence)
      PROVE  OfCue(f) /\ (Undecided(f) \/ Decides(cue, m, evidence, f))
  BY <1>3, BoundCases, Zenon
<1> HIDE DEF nearest, plain
<1>4. ASSUME NEW status \in {"unresolved", "not_assessed"}, NEW reason, NEW target, NEW found, NEW op, NEW value,
             f = AboutCue(cue, status, reason, target, found, op, value)
      PROVE  OfCue(f) /\ Undecided(f)
  BY <1>4, AboutCueFields DEF Undecided
<1> QED BY <1>2, <1>3, <1>4

(* A range is decided on one pair of predicates only.                      *)
RangeDecides(q, mentions, spec, s, e, p, f) ==
  /\ ~NegatedBefore(q, s.from) /\ EndpointsPlain(q, spec, s.from)
  /\ Cardinality(RangePairs(q, s.from, e[1], e[2], mentions)) = 1
  /\ p \in RangePairs(q, s.from, e[1], e[2], mentions)
  /\ ~p[1].disjunctive /\ ~p[1].negated /\ ~p[2].disjunctive /\ ~p[2].negated
  /\ {p[1].op, p[2].op} \cap {"EQ", "IN"} = {}
  /\ f.rule = BoundaryRule /\ f.target = "sql" /\ f.at = s.from /\ f.locs = {p[1].loc, p[2].loc}
  /\ f.status = IF RangeFits(p[1], p[2]) THEN "supported" ELSE "contradicted"

(* So is a range, on its one pair.                                         *)
LEMMA RangeCases ==
  ASSUME NEW q, NEW mentions, NEW f \in RangeFindings(q, mentions)
  PROVE  /\ f.rule = BoundaryRule
         /\ \/ Undecided(f)
            \/ \E spec \in RangeSpecs : \E s \in RangeOpeners(q, spec) :
               \E e \in Ends(q, spec, s.from, mentions) : \E p :
                 RangeDecides(q, mentions, spec, s, e, p, f)
<1> DEFINE Of(spec, s) == {RangeFinding(q, spec, s.from, e, mentions) : e \in Ends(q, spec, s.from, mentions)}
<1>0. f \in UNION {UNION {Of(spec, s) : s \in RangeOpeners(q, spec)} : spec \in RangeSpecs}
  BY Zenon DEF RangeFindings, RangeOpeners
<1>1. PICK spec \in RangeSpecs : \E s \in RangeOpeners(q, spec) : f \in Of(spec, s)
  <2> HIDE DEF Of
  <2>1. PICK spec \in RangeSpecs : f \in UNION {Of(spec, s) : s \in RangeOpeners(q, spec)}
    BY <1>0
  <2> QED BY <2>1
<1>2. PICK s \in RangeOpeners(q, spec) : f \in Of(spec, s)
  BY <1>1, Zenon
<1>3. PICK e \in Ends(q, spec, s.from, mentions) : f = RangeFinding(q, spec, s.from, e, mentions)
  BY <1>2, Zenon
<1> DEFINE at == s.from
           pairs == RangePairs(q, at, e[1], e[2], mentions)
           p == CHOOSE p \in pairs : TRUE
<1>4. CASE NegatedBefore(q, at) \/ ~EndpointsPlain(q, spec, at) \/ Cardinality(pairs) # 1
  <2> DEFINE locs == Locations({m \in mentions : m.span \in {e[1], e[2]}})
  <2>1. \/ f = Finding(BoundaryRule, "not_assessed", "range negation", "mapping", at, locs)
        \/ f = Finding(BoundaryRule, "not_assessed", "range modifier", "mapping", at, locs)
        \/ f = Finding(BoundaryRule, "unresolved", "range role", "mapping", at, locs)
    BY <1>3, <1>4, Zenon DEF RangeFinding
  <2>2. f.rule = BoundaryRule /\ Undecided(f)
    BY <2>1, UndecidedFields, Zenon
  <2> QED BY <2>2, Zenon
<1>5. CASE ~NegatedBefore(q, at) /\ EndpointsPlain(q, spec, at) /\ Cardinality(pairs) = 1
  <2>1. f = RangeVerdict(at, p[1], p[2])
    BY <1>3, <1>5, Zenon DEF RangeFinding
  <2>2. p \in pairs
    <3>1. pairs # {}
      BY <1>5, FS_EmptySet
    <3> QED BY <3>1, Zenon
  <2> HIDE DEF p, pairs
  <2> DEFINE Says(status, reason, target) ==
               Finding(BoundaryRule, status, reason, target, at, {p[1].loc, p[2].loc})
             Legible == /\ ~p[1].disjunctive /\ ~p[1].negated /\ ~p[2].disjunctive /\ ~p[2].negated
                        /\ {p[1].op, p[2].op} \cap {"EQ", "IN"} = {}
  <2>3. CASE ~Legible
    <3>1. \/ f = Says("not_assessed", "range boolean", "sql")
          \/ f = Says("not_assessed", "sql negation", "sql")
          \/ f = Says("unresolved", "range realization", "mapping")
      BY <2>1, <2>3, Zenon DEF RangeVerdict
    <3>2. ASSUME NEW status \in {"unresolved", "not_assessed"}, NEW reason, NEW target,
                 f = Says(status, reason, target)
          PROVE  f.rule = BoundaryRule /\ Undecided(f)
      BY <3>2 DEF Finding, Undecided
    <3> QED BY <3>1, <3>2
  <2>4. CASE Legible
    <3>1. \/ RangeFits(p[1], p[2]) /\ f = Says("supported", "range", "sql")
          \/ ~RangeFits(p[1], p[2]) /\ f = Says("contradicted", "range", "sql")
      BY <2>1, <2>4, Zenon DEF RangeVerdict
    <3>2. /\ f.rule = BoundaryRule /\ f.target = "sql" /\ f.at = at /\ f.locs = {p[1].loc, p[2].loc}
          /\ f.status = IF RangeFits(p[1], p[2]) THEN "supported" ELSE "contradicted"
      BY <3>1 DEF Finding
    <3>3. RangeDecides(q, mentions, spec, s, e, p, f)
      BY <3>2, <2>2, <2>4, <1>5, Zenon DEF RangeDecides, pairs
    <3> QED BY <3>2, <3>3, Zenon
  <2> QED BY <2>3, <2>4, Zenon
<1> QED BY <1>4, <1>5, Zenon

(* Competition only takes verdicts back.                                   *)
LEMMA DemotedCases ==
  ASSUME NEW F, NEW f \in Demoted(F), \A g \in F : OfCue(g)
  PROVE  /\ f.rule = BoundaryRule
         /\ Undecided(f) \/ (f \in F /\ ~\E g \in F : Compete(f, g))
<1>1. PICK g \in F : f = IF \E h \in F : Compete(g, h)
                         THEN [g EXCEPT !.status = "unresolved", !.reason = "role", !.target = "mapping"]
                         ELSE g
  BY Zenon DEF Demoted
<1>2. PICK cue, status, reason, target, mentions, op, value :
        g = AboutCue(cue, status, reason, target, mentions, op, value)
  BY Zenon DEF OfCue
<1>3. /\ g.rule = BoundaryRule
      /\ [g EXCEPT !.status = "unresolved", !.reason = "role", !.target = "mapping"].status = "unresolved"
      /\ [g EXCEPT !.status = "unresolved", !.reason = "role", !.target = "mapping"].rule = BoundaryRule
  BY <1>2, Zenon DEF AboutCue
<1>4. CASE \E h \in F : Compete(g, h)
  <2>1. f.status = "unresolved" /\ f.rule = BoundaryRule
    BY <1>1, <1>3, <1>4, Zenon
  <2> QED BY <2>1 DEF Undecided
<1>5. CASE ~\E h \in F : Compete(g, h)
  BY <1>1, <1>3, <1>5, Zenon
<1> QED BY <1>4, <1>5, Zenon

(* What the phrases of the question say before they compete.               *)
Singles(q, mentions, evidence) ==
  UNION {SingleFindings(q, c, mentions, evidence) : c \in BoundaryCues(q)}

(* A finding on a boundary is of a range, or of a phrase that no other     *)
(* phrase competes with, or undecided.                                     *)
LEMMA BoundaryCases ==
  ASSUME NEW q, NEW where, NEW evidence, NEW f \in BoundaryFindings(q, where, evidence)
  PROVE  LET mentions == ValueMentions(q, BoundaryCandidates(where))
         IN  /\ f.rule = BoundaryRule
             /\ \/ f \in RangeFindings(q, mentions)
                \/ Undecided(f)
                \/ /\ f \in Singles(q, mentions, evidence)
                   /\ ~\E g \in Singles(q, mentions, evidence) : Compete(f, g)
<1> DEFINE mentions == ValueMentions(q, BoundaryCandidates(where))
           singles == Singles(q, mentions, evidence)
<1>1. CASE f \in RangeFindings(q, mentions)
  BY <1>1, RangeCases, Zenon
<1>2. CASE f \in Demoted(singles)
  <2>1. ASSUME NEW g \in singles PROVE OfCue(g)
    <3>1. PICK cue \in BoundaryCues(q) : g \in SingleFindings(q, cue, mentions, evidence)
      BY DEF Singles
    <3> QED BY <3>1, SingleCases, Zenon
  <2> HIDE DEF singles
  <2>2. f.rule = BoundaryRule /\ (Undecided(f) \/ (f \in singles /\ ~\E g \in singles : Compete(f, g)))
    BY <1>2, <2>1, DemotedCases, Zenon
  <2> QED BY <2>2, Zenon DEF singles
<1>3. f \in RangeFindings(q, mentions) \/ f \in Demoted(singles)
  <2> HIDE DEF singles, mentions
  <2>1. f \in IF BoundaryCandidates(where) = {} THEN {} ELSE RangeFindings(q, mentions) \cup Demoted(singles)
    BY Zenon DEF BoundaryFindings, singles, mentions, Singles
  <2> QED BY <2>1
<1> QED BY <1>1, <1>2, <1>3, Zenon

(* A LIKE that is read, and the words with it.                             *)
Readable(q, cue, b) ==
  /\ b.obligation.relevant /\ b.obligation.clause \in {"WHERE", "HAVING"}
  /\ b.obligation.issue = "" /\ ~b.obligation.disjunctive /\ ~b.obligation.tangled
  /\ ~cue.denied /\ ~WantsWord(q, cue, b.span) /\ ~Coordinated(q, b.span)

(* A LIKE decided on: the kind of match and its polarity are compared.     *)
MatchDecides(q, cue, b, f) ==
  /\ Readable(q, cue, b)
  /\ f.at = cue.span.from /\ f.locs = {b.obligation.loc}
  /\ f.status = IF cue.positive = b.obligation.positive /\ cue.mode = b.obligation.mode
                THEN "supported" ELSE "contradicted"

(* A LIKE that cannot be read is left undecided.                           *)
LEMMA UnreadableFields ==
  ASSUME NEW cue, NEW o, NEW reason, NEW f, f = UnreadableFinding(cue, o, reason)
  PROVE  f.rule = StringRule /\ Undecided(f)
BY DEF UnreadableFinding, Finding, Undecided

(* So a bound LIKE is either undecided or decided on.                      *)
LEMMA MatchCases ==
  ASSUME NEW q, NEW cue, NEW b, NEW f, f = MatchVerdict(q, cue, b)
  PROVE  f.rule = StringRule /\ (Undecided(f) \/ MatchDecides(q, cue, b, f))
<1> DEFINE o == b.obligation
<1>1. CASE Readable(q, cue, b)
  <2>1. \/ /\ cue.positive = o.positive /\ cue.mode = o.mode
           /\ f = MatchFinding(cue, o, "supported", "match")
        \/ /\ ~(cue.positive = o.positive /\ cue.mode = o.mode)
           /\ \/ f = MatchFinding(cue, o, "contradicted", "mode")
              \/ f = MatchFinding(cue, o, "contradicted", "polarity")
    BY <1>1, Zenon DEF Readable, MatchVerdict
  <2>2. /\ f.rule = StringRule /\ f.at = cue.span.from /\ f.locs = {o.loc}
        /\ f.status = IF cue.positive = o.positive /\ cue.mode = o.mode
                      THEN "supported" ELSE "contradicted"
    BY <2>1 DEF MatchFinding, Finding
  <2> QED BY <1>1, <2>2, Zenon DEF MatchDecides
<1>2. CASE ~Readable(q, cue, b)
  <2>1. \/ f = UnreadableFinding(cue, o, "scope") \/ f = UnreadableFinding(cue, o, o.issue)
        \/ f = UnreadableFinding(cue, o, "boolean") \/ f = UnreadableFinding(cue, o, "sql negation")
        \/ f = UnreadableFinding(cue, o, "question negation") \/ f = UnreadableFinding(cue, o, "word boundary")
        \/ f = UnreadableFinding(cue, o, "question boolean")
    BY <1>2, Zenon DEF Readable, MatchVerdict
  <2> QED BY <2>1, UnreadableFields, Zenon
<1> QED BY <1>1, <1>2

(* Only a LIKE that the words of a cue are bound to best is decided on.    *)
LEMMA StringCases ==
  ASSUME NEW q, NEW likes, NEW dialect, NEW f \in StringFindings(q, likes, dialect)
  PROVE  /\ f.rule = StringRule
         /\ \/ Undecided(f)
            \/ \E cue \in MatchCues(q) :
               \E b \in BestBound(q, cue, Bindings(q, cue, LikeObligations(likes, dialect))) :
                 MatchDecides(q, cue, b, f)
<1> DEFINE obligations == LikeObligations(likes, dialect)
<1>1. PICK cue \in MatchCues(q) : f \in MatchFindings(q, cue, obligations)
  BY Zenon DEF StringFindings
<1>2. \/ \E b \in BestBound(q, cue, Bindings(q, cue, obligations)) : f = MatchVerdict(q, cue, b)
      \/ \E o, reason : f = UnreadableFinding(cue, o, reason)
      \/ \E locs : f = Finding(StringRule, "unresolved", "role", "mapping", cue.span.from, locs)
  BY <1>1, Zenon DEF MatchFindings
<1>3. ASSUME NEW locs, f = Finding(StringRule, "unresolved", "role", "mapping", cue.span.from, locs)
      PROVE  f.rule = StringRule /\ Undecided(f)
  BY <1>3 DEF Finding, Undecided
<1>4. CASE \E b \in BestBound(q, cue, Bindings(q, cue, obligations)) : f = MatchVerdict(q, cue, b)
  <2>1. PICK b \in BestBound(q, cue, Bindings(q, cue, obligations)) : f = MatchVerdict(q, cue, b)
    BY <1>4
  <2>2. f.rule = StringRule /\ (Undecided(f) \/ MatchDecides(q, cue, b, f))
    BY <2>1, MatchCases, Zenon
  <2> QED BY <2>2, Zenon
<1>5. CASE \E o, reason : f = UnreadableFinding(cue, o, reason)
  BY <1>5, UnreadableFields, Zenon
<1> QED BY <1>2, <1>3, <1>4, <1>5, Zenon

(* A finding made by a rule, whatever it says.                             *)
OfRule(f, rule) ==
  \E status, reason, target, at, locs : f = Finding(rule, status, reason, target, at, locs)

(* Such a finding bears the name of its rule.                              *)
LEMMA RuleFields == ASSUME NEW f, NEW rule, OfRule(f, rule) PROVE f.rule = rule
BY DEF OfRule, Finding

(* What the aggregation rule finds is of that rule.                        *)
LEMMA AggregationCases ==
  ASSUME NEW q, NEW select, NEW suppressed, NEW f \in AggregationFindings(q, select, suppressed)
  PROVE  f.rule = AggregationRule
<1>1. PICK cue \in AggregationCues(q) : f \in AggregationFinding(q, cue, select, suppressed)
  BY Zenon DEF AggregationFindings
<1>2. ASSUME NEW c, NEW candidates
      PROVE  OfRule(AggregationVerdict(q, cue, c, candidates, select), AggregationRule)
  BY Zenon DEF AggregationVerdict, OfRule
<1>3. \/ OfRule(f, AggregationRule)
      \/ \E c : f = AggregationVerdict(q, cue, c, Candidates(select), select)
  BY <1>1, Zenon DEF AggregationFinding, OfRule
<1> QED BY <1>2, <1>3, RuleFields, Zenon

(* What the top-k rule finds is of that rule.                              *)
LEMMA TopKCases ==
  ASSUME NEW q, NEW select, NEW conventions, NEW f \in TopKFindings(q, select, conventions)
  PROVE  f.rule = TopKRule
<1>1. ASSUME NEW cue PROVE UnorderedVerdict(cue, select).rule = TopKRule
  BY DEF UnorderedVerdict, Unresolved, NotAssessed, Conflict, TopKSays, Finding
<1>2. ASSUME NEW cue PROVE LimitVerdict(cue, select.limit).rule = TopKRule
  BY DEF LimitVerdict, Unresolved, NotAssessed, Conflict, TopKSays, Finding
<1>3. ASSUME NEW cue, NEW b PROVE OrderedVerdict(q, cue, b, select, conventions).rule = TopKRule
  BY <1>2 DEF OrderedVerdict, Unresolved, NotAssessed, Conflict, TopKSays, Finding
<1>4. ASSUME NEW cue PROVE TopKFinding(q, cue, select, conventions).rule = TopKRule
  BY <1>1, <1>3 DEF TopKFinding, Unresolved, NotAssessed, Conflict, TopKSays, Finding
<1>5. \/ \E c : f = TopKFinding(q, c, select, conventions)
      \/ \E at : f = Finding(TopKRule, "not_assessed", "several", "mapping", at, {1})
  BY Zenon DEF TopKFindings
<1>6. ASSUME NEW at PROVE Finding(TopKRule, "not_assessed", "several", "mapping", at, {1}).rule = TopKRule
  BY DEF Finding
<1> QED BY <1>4, <1>5, <1>6, Zenon

---------------------------------------------------------------------------
(* Every finding is one that its rule makes of the item.                   *)
LEMMA RuleNames ==
  /\ LiteralRule = "literal" /\ BoundaryRule = "boundary" /\ StringRule = "string"
  /\ AggregationRule = "aggregation" /\ TopKRule = "topk"
BY DEF LiteralRule, BoundaryRule, StringRule, AggregationRule, TopKRule

(* What the literal rule finds is of that rule.                            *)
LEMMA LiteralFindingsAreOfIt ==
  ASSUME NEW q, NEW marks, NEW where, NEW select, NEW context,
         NEW f \in LiteralFindings(q, marks, where, select, context)
  PROVE  f.rule = LiteralRule
<1>1. OfLiteral(f)
  BY LiteralCases, Zenon
<1> QED BY <1>1 DEF OfLiteral, LiteralFinding

(* Every finding is one that a rule selected for the item makes of that    *)
(* very item.                                                              *)
EveryFindingOfItsRule ==
  /\ \E family \in Families : item \in family
  /\ \A f \in findings :
       /\ f.rule \in item.rules
       /\ f.rule = LiteralRule =>
            f \in LiteralFindings(item.q, item.marks, item.where, item.select, item.context)
       /\ f.rule = BoundaryRule => f \in BoundaryFindings(item.q, item.where, item.evidence)
       /\ f.rule = StringRule => f \in StringFindings(item.q, item.likes, item.dialect)
       /\ f.rule = AggregationRule =>
            \E suppressed : f \in AggregationFindings(item.q, item.select, suppressed)
       /\ f.rule = TopKRule => f \in TopKFindings(item.q, item.select, item.conventions)

(* No rule's finding is another's, is made of another item or by a rule    *)
(* that was not selected.                                                  *)
THEOREM OriginTheorem == Spec => []EveryFindingOfItsRule
<1> USE DEF EveryFindingOfItsRule
<1>1. Init => EveryFindingOfItsRule
  BY DEF Init
<1>2. EveryFindingOfItsRule /\ [Next]_vars => EveryFindingOfItsRule'
  <2> SUFFICES ASSUME EveryFindingOfItsRule, [Next]_vars PROVE EveryFindingOfItsRule'
    OBVIOUS
  <2>1. CASE UNCHANGED vars
    BY <2>1 DEF vars
  <2>2. CASE RunLiteral
    <3> DEFINE found == LiteralFindings(item.q, item.marks, item.where, item.select, item.context)
    <3>1. \A f \in found : f.rule = LiteralRule
      BY LiteralFindingsAreOfIt
    <3>2. item' = item /\ \A f \in findings' : f \in findings \/ (f \in found /\ LiteralRule \in item.rules)
      BY <2>2 DEF RunLiteral, Run
    <3> HIDE DEF found
    <3>3. \A f \in findings' : f \in findings \/ (f \in found /\ f.rule = LiteralRule /\ f.rule \in item.rules)
      BY <3>1, <3>2
    <3> QED BY <3>2, <3>3, RuleNames DEF found
  <2>3. CASE RunBoundary
    <3> DEFINE found == BoundaryFindings(item.q, item.where, item.evidence)
    <3>1. \A f \in found : f.rule = BoundaryRule
      BY BoundaryCases, Zenon
    <3>2. item' = item /\ \A f \in findings' : f \in findings \/ (f \in found /\ BoundaryRule \in item.rules)
      BY <2>3 DEF RunBoundary, Run
    <3> HIDE DEF found
    <3>3. \A f \in findings' : f \in findings \/ (f \in found /\ f.rule = BoundaryRule /\ f.rule \in item.rules)
      BY <3>1, <3>2
    <3> QED BY <3>2, <3>3, RuleNames DEF found
  <2>4. CASE RunString
    <3> DEFINE found == StringFindings(item.q, item.likes, item.dialect)
    <3>1. \A f \in found : f.rule = StringRule
      BY StringCases, Zenon
    <3>2. item' = item /\ \A f \in findings' : f \in findings \/ (f \in found /\ StringRule \in item.rules)
      BY <2>4 DEF RunString, Run
    <3> HIDE DEF found
    <3>3. \A f \in findings' : f \in findings \/ (f \in found /\ f.rule = StringRule /\ f.rule \in item.rules)
      BY <3>1, <3>2
    <3> QED BY <3>2, <3>3, RuleNames DEF found
  <2>5. CASE RunAggregation
    <3> DEFINE suppressed == {item.where[i].column : i \in
                 UNION {f.locs : f \in {f \in findings : f.reason = "aggregate substituted"}}}
               found == AggregationFindings(item.q, item.select, suppressed)
    <3>1. \A f \in found : f.rule = AggregationRule
      BY AggregationCases, Zenon
    <3>2. item' = item /\ \A f \in findings' : f \in findings \/ (f \in found /\ AggregationRule \in item.rules)
      BY <2>5 DEF RunAggregation, Run
    <3> HIDE DEF suppressed
    <3>4. \A f \in found : \E s : f \in AggregationFindings(item.q, item.select, s)
      OBVIOUS
    <3> HIDE DEF found
    <3>3. \A f \in findings' : f \in findings \/ (f \in found /\ f.rule = AggregationRule /\ f.rule \in item.rules)
      BY <3>1, <3>2
    <3> QED BY <3>2, <3>3, <3>4, RuleNames
  <2>6. CASE RunTopK
    <3> DEFINE found == TopKFindings(item.q, item.select, item.conventions)
    <3>1. \A f \in found : f.rule = TopKRule
      BY TopKCases, Zenon
    <3>2. item' = item /\ \A f \in findings' : f \in findings \/ (f \in found /\ TopKRule \in item.rules)
      BY <2>6 DEF RunTopK, Run
    <3> HIDE DEF found
    <3>3. \A f \in findings' : f \in findings \/ (f \in found /\ f.rule = TopKRule /\ f.rule \in item.rules)
      BY <3>1, <3>2
    <3> QED BY <3>2, <3>3, RuleNames DEF found
  <2> QED BY <2>1, <2>2, <2>3, <2>4, <2>5, <2>6 DEF Next
<1> QED BY <1>1, <1>2, PTL DEF Spec

---------------------------------------------------------------------------
(* Text matches.                                                           *)
LEMMA LongestAreProposed ==
  ASSUME NEW proposed PROVE LongestCues(proposed) \subseteq proposed
BY Zenon DEF LongestCues

(* A cue stands for one of the four kinds of match, asked for or denied.   *)
LEMMA CueModes ==
  ASSUME NEW q, NEW cue \in MatchCues(q)
  PROVE  cue.mode \in Modes /\ cue.positive \in BOOLEAN
<1> DEFINE CueOf(s, p, at) ==
             [mode |-> s.mode, positive |-> s.positive, phrase |-> p, span |-> at,
              denied |-> \E i \in 1..(at.from - 1) : q[i] \in MatchNegations]
           OfPhrases(s) == UNION {{CueOf(s, p, at) : at \in Occurrences(q, p)} : p \in s.phrases}
<1>1. cue \in UNION {OfPhrases(s) : s \in MatchSpecs}
  BY LongestAreProposed, Zenon DEF MatchCues
<1>2. PICK s \in MatchSpecs : cue \in OfPhrases(s)
  <2> HIDE DEF OfPhrases
  <2> QED BY <1>1
<1>3. PICK p, at : cue = CueOf(s, p, at)
  BY <1>2, ZenonT(30)
<1>4. cue.mode = s.mode /\ cue.positive = s.positive
  BY <1>3
<1> DEFINE Of(mode, positive) == \E phrases : s = MatchSpec(mode, positive, phrases)
<1>5. \/ Of("exact", FALSE) \/ Of("prefix", FALSE) \/ Of("suffix", FALSE) \/ Of("contains", FALSE)
      \/ Of("exact", TRUE) \/ Of("prefix", TRUE) \/ Of("suffix", TRUE) \/ Of("contains", TRUE)
  BY <1>2, Zenon DEF MatchSpecs
<1>6. \A mode, positive : Of(mode, positive) => s.mode = mode /\ s.positive = positive
  BY DEF MatchSpec
<1> HIDE DEF Of
<1> QED BY <1>4, <1>5, <1>6 DEF Modes

(* What binds words to a LIKE keeps its obligation.                        *)
LEMMA BoundObligation ==
  ASSUME NEW q, NEW cue, NEW likes, NEW dialect,
         NEW b \in BestBound(q, cue, Bindings(q, cue, LikeObligations(likes, dialect)))
  PROVE  \E i \in DOMAIN likes : b.obligation = LikeObligation(i, likes[i], dialect)
<1> DEFINE obligations == LikeObligations(likes, dialect)
<1>1. b \in Bindings(q, cue, obligations)
  BY Zenon DEF BestBound
<1> HIDE DEF obligations
<1>2. PICK o \in obligations : b = [obligation |-> o, span |-> FirstSpan(ValueSpans(q, cue, o.payload))]
  BY <1>1, Zenon DEF Bindings
<1>3. b.obligation \in obligations
  BY <1>2
<1> QED BY <1>3, Zenon DEF obligations, LikeObligations

(* A LIKE with no issue is a column against a pattern that is known.       *)
LEMMA NoIssue ==
  ASSUME NEW p, NEW dialect, Issue(p, dialect) = ""
  PROVE  /\ p.side = "column" /\ Static(p.pattern, dialect)
         /\ PatternMode(p.pattern) \in Modes
<1>1. p.side = "column" /\ Static(p.pattern, dialect) /\ PatternMode(p.pattern) # "none"
  BY DEF Issue
<1>2. PatternMode(p.pattern) \in Modes \cup {"none"}
  BY Zenon DEF PatternMode, Modes
<1> QED BY <1>1, <1>2

(* What is extracted from a LIKE, field by field.                          *)
LEMMA ObligationFields ==
  ASSUME NEW i, NEW p, NEW dialect, NEW o, o = LikeObligation(i, p, dialect)
  PROVE  /\ o.loc = i /\ o.issue = Issue(p, dialect) /\ o.mode = PatternMode(p.pattern)
         /\ o.positive \in BOOLEAN /\ (o.positive <=> ~Denied(p.above))
         /\ o.tangled <=> Tangled(p.above)
         /\ o.disjunctive <=> \E k \in DOMAIN p.above : p.above[k] = "or"
         /\ o.clause = p.clause /\ (o.relevant <=> ~p.nested)
         /\ p.side = "column" => o.column = p.column /\ o.table = p.table
         /\ Static(p.pattern, dialect) => o.payload = p.pattern.payload
<1>1. o.positive = ~Denied(p.above)
  BY DEF LikeObligation
<1>2. o.positive \in BOOLEAN
  BY <1>1, Zenon DEF Denied
<1> QED BY <1>1, <1>2 DEF LikeObligation

(* Above a LIKE that is neither tangled nor in an OR stands at most one    *)
(* NOT, and nothing that lets other texts pass.                            *)
LEMMA PlainPassing ==
  ASSUME NEW base, NEW texts, NEW above \in Seq(STRING),
         ~Tangled(above), ~\E k \in DOMAIN above : above[k] = "or"
  PROVE  Passing(base, texts, above) = IF Denied(above) THEN texts \ base ELSE base
<1> DEFINE Nots(i) == {k \in DOMAIN above : k > i /\ above[k] = "not"}
           Open == \E i \in DOMAIN above :
                     above[i] = IF Cardinality(Nots(i)) % 2 = 0 THEN "or" ELSE "and"
<1>1. \A k \in DOMAIN above : above[k] = "not" => k \in Directly(above)
  BY DEF Tangled
<1>2. \A i, k \in DOMAIN above : k > i /\ above[k] = "not" => above[i] = "paren"
  BY <1>1 DEF Directly
<1>3. \A i \in DOMAIN above : Cardinality(Nots(i)) % 2 = 0 \/ above[i] = "paren"
  <2> SUFFICES ASSUME NEW i \in DOMAIN above, Nots(i) = {} PROVE Cardinality(Nots(i)) % 2 = 0
    BY <1>2
  <2> HIDE DEF Nots
  <2>1. Cardinality(Nots(i)) = 0
    BY FS_EmptySet
  <2> QED BY <2>1
<1>4. ~Open
  <2> HIDE DEF Nots
  <2> QED BY <1>3
<1>5. Nots(0) = Directly(above)
  BY <1>1 DEF Directly
<1>6. \A i, k \in Directly(above) : i = k
  BY DEF Directly
<1>7. Cardinality(Nots(0)) % 2 = IF Denied(above) THEN 1 ELSE 0
  <2>1. CASE Denied(above)
    <3>1. PICK i \in Directly(above) : TRUE
      BY <2>1 DEF Denied
    <3>2. Nots(0) = {i}
      BY <3>1, <1>5, <1>6
    <3>3. Cardinality(Nots(0)) = 1
      BY <3>2, FS_Singleton
    <3> QED BY <2>1, <3>3
  <2>2. CASE ~Denied(above)
    <3>1. Cardinality(Nots(0)) = 0
      BY <2>2, <1>5, FS_EmptySet DEF Denied
    <3> QED BY <2>2, <3>1
  <2> QED BY <2>1, <2>2
<1>8. Passing(base, texts, above) =
        IF Open THEN texts ELSE IF Cardinality(Nots(0)) % 2 = 0 THEN base ELSE texts \ base
  BY Zenon DEF Passing
<1> HIDE DEF Nots, Open
<1> QED BY <1>4, <1>7, <1>8

(* A text passes the LIKE of any kind that is spelled as it is.            *)
LEMMA MatchesItself ==
  ASSUME NEW mode, NEW texts, NEW part \in texts, part \in Seq(STRING)
  PROVE  part \in Matching(mode, part, texts)
<1>1. IsPrefix(part, part) /\ IsSuffix(part, part)
  BY DEF IsPrefix, IsSuffix
<1>2. \E i, j \in 0..Len(part) : SubSeq(part, i + 1, j) = part
  <2>1. 0 \in 0..Len(part) /\ Len(part) \in 0..Len(part) /\ SubSeq(part, 0 + 1, Len(part)) = part
    OBVIOUS
  <2> QED BY <2>1
<1> QED BY <1>1, <1>2, Zenon DEF Matching

(* A LIKE selects among the texts there are.                               *)
LEMMA MatchingIsOfTexts ==
  ASSUME NEW mode, NEW part, NEW texts PROVE Matching(mode, part, texts) \subseteq texts
BY Zenon DEF Matching

(* Two selections by kinds of match of one word are equal only if they are *)
(* the same.                                                               *)
LEMMA SelectionsDiffer ==
  ASSUME NEW v \in DOMAIN Spelling, NEW m \in Modes, NEW n \in Modes, NEW a \in BOOLEAN, NEW b \in BOOLEAN
  PROVE  Selection(m, a, Spelling[v]) = Selection(n, b, Spelling[v]) <=> m = n /\ a = b
<1> DEFINE M == Matching(m, Spelling[v], Texts)
           N == Matching(n, Spelling[v], Texts)
<1>1. M \subseteq Texts /\ N \subseteq Texts
  BY MatchingIsOfTexts, Zenon
<1>2. Spelling[v] \in M /\ Spelling[v] \in N
  BY MatchesItself, TextsAssumption
<1>3. M = N <=> m = n
  BY TextsAssumption, Zenon
<1> HIDE DEF M, N
<1>4. ASSUME NEW c \in BOOLEAN, NEW d \in BOOLEAN
      PROVE  (IF c THEN M ELSE Texts \ M) = (IF d THEN N ELSE Texts \ N) <=> M = N /\ c = d
  BY <1>1, <1>2
<1>5. /\ Selection(m, a, Spelling[v]) = IF a THEN M ELSE Texts \ M
      /\ Selection(n, b, Spelling[v]) = IF b THEN N ELSE Texts \ N
  BY Zenon DEF Selection, M, N
<1> QED BY <1>3, <1>4, <1>5

(* Where the words of a cue mean the column and the text of the LIKE they  *)
(* are bound to, a verdict on it is right: the edges of the pattern, the   *)
(* NOTs above it and the nodes they pass through are read as the engine    *)
(* reads them.                                                             *)
LEMMA StringVerdictRight ==
  ASSUME TextsMeant(item), \E family \in Families : item \in family,
         NEW f \in StringFindings(item.q, item.likes, item.dialect),
         Supported(f) \/ Contradicted(f)
  PROVE  \E w \in Wanted(f), i \in f.locs :
           /\ item.likes[i].column = w.column /\ item.likes[i].table = w.table /\ Root(item.likes[i])
           /\ Supported(f) <=> LikeAccepts(item.likes[i]) = w.means
<1>1. ~Undecided(f)
  BY DEF Undecided, Supported, Contradicted
<1>2. PICK cue \in MatchCues(item.q) :
        \E b \in BestBound(item.q, cue, Bindings(item.q, cue, LikeObligations(item.likes, item.dialect))) :
          MatchDecides(item.q, cue, b, f)
  BY <1>1, StringCases, Zenon
<1>3. PICK b \in BestBound(item.q, cue, Bindings(item.q, cue, LikeObligations(item.likes, item.dialect))) :
        MatchDecides(item.q, cue, b, f)
  BY <1>2
<1>4. PICK i \in DOMAIN item.likes : b.obligation = LikeObligation(i, item.likes[i], item.dialect)
  BY BoundObligation
<1> DEFINE p == item.likes[i]
           o == b.obligation
           m == PatternMode(p.pattern)
           v == p.pattern.payload
           Select(mode, positive) == Selection(mode, positive, Spelling[v])
<1>5. /\ o.loc = i /\ o.issue = Issue(p, item.dialect) /\ o.mode = m
      /\ o.positive \in BOOLEAN /\ (o.positive <=> ~Denied(p.above))
      /\ o.tangled <=> Tangled(p.above)
      /\ o.disjunctive <=> \E k \in DOMAIN p.above : p.above[k] = "or"
      /\ o.clause = p.clause /\ (o.relevant <=> ~p.nested)
      /\ p.side = "column" => o.column = p.column /\ o.table = p.table
      /\ Static(p.pattern, item.dialect) => o.payload = v
  BY <1>4, ObligationFields
<1>6. Readable(item.q, cue, b)
  BY <1>3, Zenon DEF MatchDecides
<1>7. /\ o.relevant /\ o.clause \in {"WHERE", "HAVING"} /\ o.issue = "" /\ ~o.disjunctive /\ ~o.tangled
      /\ ~cue.denied /\ ~WantsWord(item.q, cue, b.span) /\ ~Coordinated(item.q, b.span)
  BY <1>6, Zenon DEF Readable
<1>8. /\ m \in Modes /\ o.payload = v /\ o.column = p.column /\ o.table = p.table /\ Root(p)
  BY <1>5, <1>7, NoIssue, ZenonT(30) DEF Root
<1>9. /\ o.payload \in DOMAIN Spelling
      /\ \E w \in item.wants :
           /\ cue.span.from \in w.from..w.to
           /\ w.column = o.column /\ w.table = o.table
           /\ w.means = Selection(cue.mode, cue.positive, Spelling[o.payload])
  BY <1>7, Zenon DEF TextsMeant
<1>10. PICK w \in item.wants :
         /\ cue.span.from \in w.from..w.to /\ w.column = p.column /\ w.table = p.table
         /\ w.means = Select(cue.mode, cue.positive)
  BY <1>8, <1>9
<1>11. LikeAccepts(p) = Select(m, o.positive)
  <2>1. p.above \in Seq(STRING)
    BY ItemsAssumption
  <2>2. Passing(Matching(m, Spelling[v], Texts), Texts, p.above) =
          IF Denied(p.above) THEN Texts \ Matching(m, Spelling[v], Texts)
          ELSE Matching(m, Spelling[v], Texts)
    BY <2>1, <1>5, <1>7, PlainPassing, Zenon
  <2> QED BY <2>2, <1>5, Zenon DEF LikeAccepts, Selection
<1>12. cue.mode \in Modes /\ cue.positive \in BOOLEAN /\ o.positive \in BOOLEAN
  BY CueModes, <1>5, Zenon
<1>13. Select(m, o.positive) = Select(cue.mode, cue.positive) <=> m = cue.mode /\ o.positive = cue.positive
  BY <1>8, <1>9, <1>12, SelectionsDiffer
<1>14. f.at = cue.span.from /\ f.locs = {o.loc} /\
       f.status = IF cue.positive = o.positive /\ cue.mode = o.mode THEN "supported" ELSE "contradicted"
  BY <1>3, Zenon DEF MatchDecides
<1> HIDE DEF m, v, Select, o, p
<1>15. Supported(f) <=> LikeAccepts(p) = w.means
  <2>1. Supported(f) <=> cue.positive = o.positive /\ cue.mode = m
    BY <1>5, <1>14 DEF Supported
  <2> QED BY <2>1, <1>10, <1>11, <1>13
<1>16. w \in Wanted(f) /\ i \in f.locs
  BY <1>5, <1>10, <1>14 DEF Wanted
<1> QED BY <1>8, <1>10, <1>15, <1>16, Zenon DEF p

(* On every item whose words mean what they are bound to, every verdict on *)
(* a text match is right.                                                  *)
THEOREM StringTheorem == Spec => [](TextsMeant(item) => StringVerdictsRight)
<1>1. EveryFindingOfItsRule => (TextsMeant(item) => StringVerdictsRight)
  BY StringVerdictRight, Zenon DEF EveryFindingOfItsRule, StringVerdictsRight
<1> QED BY <1>1, OriginTheorem, PTL

---------------------------------------------------------------------------
(* Comparison boundaries. The six comparisons, one by one.                 *)
LEMMA ComparesCases ==
  ASSUME NEW x, NEW v
  PROVE  /\ Compares("EQ", x, v) <=> x = v
         /\ Compares("NEQ", x, v) <=> x # v
         /\ Compares("GT", x, v) <=> x > v
         /\ Compares("GTE", x, v) <=> x >= v
         /\ Compares("LT", x, v) <=> x < v
         /\ Compares("LTE", x, v) <=> x <= v
BY Zenon DEF Compares

(* The operator with its sides exchanged.                                  *)
LEMMA ReversedCases ==
  /\ Reversed("EQ") = "EQ" /\ Reversed("NEQ") = "NEQ" /\ Reversed("GT") = "LT"
  /\ Reversed("GTE") = "LTE" /\ Reversed("LT") = "GT" /\ Reversed("LTE") = "GTE"
BY Zenon DEF Reversed

(* A numeral stands for a number.                                          *)
LEMMA NumberIsInt == \A v \in Numerals : NumberOf[v] \in Int
BY DEF NumberOf, Numerals

(* The table of operators that a phrase accepts.                           *)
LEMMA CompatibleCases ==
  /\ DOMAIN Compatible = {"EQ", "GT", "GTE", "LT", "LTE"}
  /\ Compatible["EQ"] = {"EQ"} /\ Compatible["GT"] = {"GT"} /\ Compatible["GTE"] = {"GTE", "BETWEEN_LOW"}
  /\ Compatible["LT"] = {"LT"} /\ Compatible["LTE"] = {"LTE", "BETWEEN_HIGH"}
BY DEF Compatible

(* A phrase is listed under an operator of that table.                     *)
LEMMA CueOperators ==
  ASSUME NEW q, NEW cue \in BoundaryCues(q) PROVE cue.op \in DOMAIN Compatible
<1>1. cue \in ProposedCues(q)
  BY LongestAreProposed, Zenon DEF BoundaryCues
<1>2. ASSUME NEW op, NEW phrases, NEW trailing, cue \in CuesOf(q, op, phrases, trailing)
      PROVE  cue.op = op
  <2>1. PICK p \in phrases : cue \in {BoundaryCue(op, p, s, trailing) : s \in Occurrences(q, p)}
    BY <1>2, Zenon DEF CuesOf
  <2>2. PICK s : cue = BoundaryCue(op, p, s, trailing)
    BY <2>1
  <2> QED BY <2>2 DEF BoundaryCue
<1>3. PICK op \in DOMAIN CuePhrases :
        cue \in CuesOf(q, op, CuePhrases[op], FALSE) \cup CuesOf(q, op, TrailingPhrases[op], TRUE)
  BY <1>1, Zenon DEF ProposedCues
<1>4. cue.op = op
  BY <1>2, <1>3
<1>5. DOMAIN CuePhrases = {"GTE", "LTE", "GT", "LT", "EQ"}
  BY DEF CuePhrases
<1> QED BY <1>3, <1>4, <1>5, CompatibleCases

(* A BETWEEN gives two obligations, an IN one of each value, any other     *)
(* comparison one.                                                         *)
LEMMA ObligationCases ==
  ASSUME NEW i, NEW p, NEW o \in ObligationsOf(i, p)
  PROVE  \/ /\ p.op = "BETWEEN"
            /\ \/ o = Obligation(i, p, "BETWEEN_LOW", p.values[1])
               \/ o = Obligation(i, p, "BETWEEN_HIGH", p.values[2])
         \/ p.op = "IN" /\ \E k \in DOMAIN p.values : o = Obligation(i, p, "IN", p.values[k])
         \/ /\ p.op \notin {"BETWEEN", "IN"}
            /\ o = Obligation(i, p, IF p.mirrored THEN Reversed(p.op) ELSE p.op, p.values[1])
BY Zenon DEF ObligationsOf

(* What an obligation takes from its predicate.                            *)
LEMMA ObligationOf ==
  ASSUME NEW i, NEW p, NEW op, NEW value, NEW o, o = Obligation(i, p, op, value)
  PROVE  /\ o.loc = i /\ o.column = p.column /\ o.table = p.table /\ o.op = op /\ o.value = value
         /\ o.negated <=> "not" \in p.under
         /\ o.disjunctive <=> "or" \in p.under
         /\ o.clause = p.clause /\ (o.relevant <=> ~p.nested)
BY DEF Obligation

(* What the query does with a number where an obligation is read: this is  *)
(* how the engine understands the operator, BETWEEN's two halves and a     *)
(* literal on the left.                                                    *)
Reads(o, p) ==
  /\ o.op \in {"EQ", "NEQ", "GT", "GTE", "LT", "LTE"} =>
       \A x \in Int : MayPass(p, x, NumberOf) <=> Compares(o.op, x, NumberOf[o.value])
  /\ o.op = "BETWEEN_LOW" =>
       /\ p.op = "BETWEEN" /\ o.value = p.values[1]
       /\ \A x \in Int : MayPass(p, x, NumberOf) <=> NumberOf[o.value] <= x /\ x <= NumberOf[p.values[2]]
  /\ o.op = "BETWEEN_HIGH" =>
       /\ p.op = "BETWEEN" /\ o.value = p.values[2]
       /\ \A x \in Int : MayPass(p, x, NumberOf) <=> NumberOf[p.values[1]] <= x /\ x <= NumberOf[o.value]

(* An obligation at the root, under no NOT and no OR, is read as the       *)
(* engine reads its predicate.                                             *)
LEMMA ReadRight ==
  ASSUME NEW i, NEW p, NEW o \in ObligationsOf(i, p), p.op \in SqlOperators, o.value \in Numerals,
         ~o.negated, ~o.disjunctive, o.relevant
  PROVE  Reads(o, p)
<1>1. /\ o.loc = i /\ o.column = p.column /\ o.table = p.table
      /\ "not" \notin p.under /\ "or" \notin p.under /\ ~p.nested
  BY ObligationCases, ObligationOf
<1>2. NumberOf[o.value] \in Int
  BY NumberIsInt
<1> DEFINE Bare(x) == IF p.op = "BETWEEN" THEN NumberOf[p.values[1]] <= x /\ x <= NumberOf[p.values[2]]
                      ELSE IF p.op = "IN" THEN \E k \in DOMAIN p.values : x = NumberOf[p.values[k]]
                      ELSE IF p.mirrored THEN Compares(p.op, NumberOf[p.values[1]], x)
                      ELSE Compares(p.op, x, NumberOf[p.values[1]])
<1>3. \A x : MayPass(p, x, NumberOf) <=> Bare(x)
  BY <1>1, Zenon DEF MayPass, Accepts
<1>4. CASE p.op = "BETWEEN"
  <2>1. \/ o.op = "BETWEEN_LOW" /\ o.value = p.values[1]
        \/ o.op = "BETWEEN_HIGH" /\ o.value = p.values[2]
    BY <1>4, ObligationCases, ObligationOf
  <2> QED BY <1>3, <1>4, <2>1 DEF Reads
<1>5. CASE p.op = "IN"
  <2>1. o.op = "IN"
    BY <1>5, ObligationCases, ObligationOf
  <2> QED BY <2>1 DEF Reads
<1>6. CASE p.op \notin {"BETWEEN", "IN"}
  <2>1. o.op = (IF p.mirrored THEN Reversed(p.op) ELSE p.op) /\ o.value = p.values[1]
    BY <1>6, ObligationCases, ObligationOf
  <2>2. p.op \in {"EQ", "NEQ", "GT", "GTE", "LT", "LTE"}
    BY <1>6 DEF SqlOperators
  <2>3. o.op \in {"EQ", "NEQ", "GT", "GTE", "LT", "LTE"}
    BY <2>1, <2>2, ReversedCases
  <2>4. ASSUME NEW x \in Int PROVE Bare(x) <=> Compares(o.op, x, NumberOf[o.value])
    <3>1. CASE p.mirrored
      <4>1. Bare(x) <=> Compares(p.op, NumberOf[o.value], x)
        BY <1>6, <2>1, <3>1
      <4> HIDE DEF Bare
      <4> QED BY <1>2, <2>1, <2>2, <3>1, <4>1, ComparesCases, ReversedCases
    <3>2. CASE ~p.mirrored
      BY <1>6, <2>1, <3>2
    <3> QED BY <3>1, <3>2
  <2> QED BY <1>3, <2>3, <2>4 DEF Reads
<1> QED BY <1>4, <1>5, <1>6

(* Two numerals are of two numbers.                                        *)
LEMMA NumbersDiffer ==
  ASSUME NEW v \in Numerals, NEW u \in Numerals, NumberOf[v] = NumberOf[u] PROVE v = u
BY DEF NumberOf, Numerals

(* A candidate is an obligation of some predicate at the root of the       *)
(* query.                                                                  *)
LEMMA CandidateOrigin ==
  ASSUME NEW where, NEW o \in BoundaryCandidates(where)
  PROVE  /\ \E i \in DOMAIN where : o \in ObligationsOf(i, where[i]) /\ o.loc = i
         /\ o.op \in BoundaryOperators /\ o.value \in Numerals /\ o.relevant
         /\ o.clause \in {"WHERE", "HAVING"} /\ o.column # ""
<1>1. /\ o \in Obligations(where) /\ o.op \in BoundaryOperators /\ o.value \in Numerals /\ o.relevant
      /\ o.clause \in {"WHERE", "HAVING"} /\ o.column # ""
  BY Zenon DEF BoundaryCandidates
<1>2. PICK i \in DOMAIN where : o \in ObligationsOf(i, where[i])
  BY <1>1, Zenon DEF Obligations
<1>3. o.loc = i
  BY <1>2, ObligationCases, ObligationOf
<1> QED BY <1>1, <1>2, <1>3

(* It is an obligation of the predicate at its place.                      *)
LEMMA CandidateFields ==
  ASSUME NEW where, NEW o \in BoundaryCandidates(where), NEW i \in DOMAIN where, o.loc = i
  PROVE  LET p == where[i]
         IN  /\ o \in ObligationsOf(i, p) /\ o.column = p.column /\ o.table = p.table /\ Root(p)
             /\ o.negated <=> "not" \in p.under
             /\ o.disjunctive <=> "or" \in p.under
<1>1. o \in ObligationsOf(i, where[i]) /\ o.relevant /\ o.clause \in {"WHERE", "HAVING"}
  BY CandidateOrigin
<1>2. \E op, value : o = Obligation(i, where[i], op, value)
  BY <1>1, ObligationCases
<1> QED BY <1>1, <1>2, ObligationOf DEF Root

(* A value is mentioned for every candidate that has it.                   *)
LEMMA MentionFields ==
  ASSUME NEW q, NEW obligations, NEW m \in ValueMentions(q, obligations)
  PROVE  /\ m.obligation \in obligations
         /\ m = [obligation |-> m.obligation, span |-> m.span]
         /\ \A o \in obligations : o.value = m.obligation.value =>
              [obligation |-> o, span |-> m.span] \in ValueMentions(q, obligations)
<1>1. PICK o \in obligations : m \in MentionsOf(q, o)
  BY Zenon DEF ValueMentions
<1>2. PICK s \in ValuePlaces(q, o.value) : m = [obligation |-> o, span |-> s]
  BY <1>1, Zenon DEF MentionsOf
<1>3. m.obligation = o /\ m.span = s
  BY <1>2
<1>4. ASSUME NEW u \in obligations, u.value = o.value
      PROVE  [obligation |-> u, span |-> s] \in ValueMentions(q, obligations)
  <2>1. [obligation |-> u, span |-> s] \in MentionsOf(q, u)
    BY <1>2, <1>4 DEF MentionsOf
  <2> QED BY <2>1, Zenon DEF ValueMentions
<1> QED BY <1>2, <1>3, <1>4

(* What a cue resolves to is among what is near.                           *)
LEMMA ResolvedIsOf == ASSUME NEW q, NEW cue, NEW near PROVE Resolved(q, cue, near) \subseteq near
BY Zenon DEF Resolved

(* Two predicates that the question cannot tell apart are never bound one  *)
(* without the other: a cue with both is unresolved.                       *)
LEMMA NoTwin ==
  ASSUME NEW q, NEW cue, NEW mentions, NEW m \in BoundTo(q, cue, mentions), NEW n \in mentions,
         n.span = m.span, n.obligation.column = m.obligation.column, n.obligation.table = m.obligation.table
  PROVE  n = m
<1> DEFINE plain == {k \in Nearest(cue, mentions) : ~CountsEvents(q, cue, k)}
<1>1. m \in Resolved(q, cue, plain) /\ IsSingleton(Resolved(q, cue, plain))
  BY Zenon DEF BoundTo
<1>2. m \in Nearest(cue, mentions) /\ ~CountsEvents(q, cue, m)
  BY <1>1, ResolvedIsOf
<1>3. Gap(cue, n) = Gap(cue, m) /\ (CountsEvents(q, cue, n) <=> CountsEvents(q, cue, m))
      /\ (RoleMatches(q, cue.span, n) <=> RoleMatches(q, cue.span, m))
  BY DEF Gap, CountsEvents, RoleMatches
<1>4. n \in plain /\ m \in plain
  BY <1>2, <1>3 DEF Nearest, Nearby
<1> HIDE DEF plain
<1>5. n \in Resolved(q, cue, plain)
  <2> DEFINE bound == {k \in plain : RoleMatches(q, cue.span, k)}
  <2>1. Resolved(q, cue, plain) = IF Cardinality(plain) = 1 \/ bound # {} THEN bound ELSE plain
    BY Zenon DEF Resolved
  <2>2. n \in bound <=> m \in bound
    BY <1>3, <1>4
  <2> HIDE DEF bound
  <2> QED BY <1>1, <1>4, <2>1, <2>2
<1>6. Resolved(q, cue, plain) = {m}
  BY <1>1 DEF IsSingleton
<1> QED BY <1>5, <1>6

(* A bound predicate has a value near the cue, and no negation before it.  *)
LEMMA BoundFields ==
  ASSUME NEW q, NEW cue, NEW mentions, NEW m \in BoundTo(q, cue, mentions)
  PROVE  m \in mentions /\ ~NegatedBefore(q, cue.span.from)
<1> DEFINE plain == {k \in Nearest(cue, mentions) : ~CountsEvents(q, cue, k)}
<1>1. m \in Resolved(q, cue, plain) /\ ~NegatedBefore(q, cue.span.from)
  BY Zenon DEF BoundTo
<1>2. m \in Nearest(cue, mentions)
  BY <1>1, ResolvedIsOf
<1> QED BY <1>1, <1>2 DEF Nearest, Nearby

(* A bound predicate gets a verdict.                                       *)
LEMMA BoundIsJudged ==
  ASSUME NEW q, NEW cue, NEW mentions, NEW evidence, NEW m \in BoundTo(q, cue, mentions)
  PROVE  BoundVerdict(cue, m, evidence) \in SingleFindings(q, cue, mentions, evidence)
<1> DEFINE nearest == Nearest(cue, mentions)
           counting == {k \in nearest : CountsEvents(q, cue, k)}
           plain == {k \in nearest : ~CountsEvents(q, cue, k)}
           resolved == Resolved(q, cue, nearest \ counting)
<1>1. nearest \ counting = plain
  OBVIOUS
<1>2. m \in Resolved(q, cue, plain) /\ IsSingleton(Resolved(q, cue, plain)) /\ ~NegatedBefore(q, cue.span.from)
  BY Zenon DEF BoundTo
<1>3. m \in plain
  BY <1>2, ResolvedIsOf
<1>4. nearest # {} /\ nearest # counting
  BY <1>3
<1>5. m \in resolved /\ IsSingleton(resolved)
  BY <1>1, <1>2
<1>6. SingleFindings(q, cue, mentions, evidence) = {BoundVerdict(cue, k, evidence) : k \in resolved}
  BY <1>2, <1>4, <1>5, Zenon DEF SingleFindings
<1> HIDE DEF resolved
<1> QED BY <1>5, <1>6

(* What a finding on one predicate says, field by field.                   *)
LEMMA VerdictFields ==
  ASSUME NEW cue, NEW status, NEW reason, NEW target, NEW m, NEW op, NEW value, NEW f,
         f = AboutCue(cue, status, reason, target, {m}, op, value)
  PROVE  /\ f.status = status /\ f.target = target /\ f.at = cue.span.from
         /\ f.locs = {m.obligation.loc} /\ f.op = op /\ f.value = value
<1>1. Locations({m}) = {m.obligation.loc}
  BY DEF Locations
<1> QED BY <1>1 DEF AboutCue

(* A verdict on a predicate under no NOT and no OR keeps its place and its *)
(* value.                                                                  *)
LEMMA PlainVerdict ==
  ASSUME NEW cue, NEW m, NEW evidence, ~m.obligation.disjunctive, ~m.obligation.negated,
         NEW f, f = BoundVerdict(cue, m, evidence)
  PROVE  f.locs = {m.obligation.loc} /\ f.value = m.obligation.value /\ f.op \in {"", cue.op}
<1>1. \/ \E status, reason, target : f = AboutCue(cue, status, reason, target, {m}, cue.op, m.obligation.value)
      \/ \E status, reason, target : f = AboutCue(cue, status, reason, target, {m}, "", m.obligation.value)
  BY Zenon DEF BoundVerdict
<1>2. ASSUME NEW status, NEW reason, NEW target, NEW op,
             f = AboutCue(cue, status, reason, target, {m}, op, m.obligation.value)
      PROVE  f.locs = {m.obligation.loc} /\ f.value = m.obligation.value /\ f.op = op
  <2>1. Locations({m}) = {m.obligation.loc}
    BY DEF Locations
  <2> QED BY <1>2, <2>1 DEF AboutCue
<1> QED BY <1>1, <1>2

(* A verdict that no competitor took back is on a predicate that no other  *)
(* operator of the question is bound to.                                   *)
LEMMA Uncontested ==
  ASSUME NEW q, NEW where, NEW evidence, NEW cue \in BoundaryCues(q),
         NEW m \in BoundTo(q, cue, ValueMentions(q, BoundaryCandidates(where))), NEW f,
         Decides(cue, m, evidence, f),
         ~\E g \in Singles(q, ValueMentions(q, BoundaryCandidates(where)), evidence) : Compete(f, g)
  PROVE  ~Contested(q, cue, m, ValueMentions(q, BoundaryCandidates(where)))
<1> DEFINE mentions == ValueMentions(q, BoundaryCandidates(where))
<1> SUFFICES ASSUME NEW c \in BoundaryCues(q), c.op # cue.op, NEW n \in BoundTo(q, c, mentions),
                    n.obligation.loc = m.obligation.loc, n.obligation.value = m.obligation.value
             PROVE  FALSE
  BY Zenon DEF Contested
<1> DEFINE o == m.obligation
           u == n.obligation
           g == BoundVerdict(c, n, evidence)
<1>1. o \in BoundaryCandidates(where) /\ u \in BoundaryCandidates(where)
  BY BoundFields, MentionFields
<1>2. PICK i \in DOMAIN where : o.loc = i
  BY <1>1, CandidateOrigin
<1>3. (u.negated <=> o.negated) /\ (u.disjunctive <=> o.disjunctive)
  BY <1>1, <1>2, CandidateFields
<1>4. ~o.disjunctive /\ ~o.negated
  BY Zenon DEF Decides
<1>5. f.locs = {o.loc} /\ f.op = cue.op /\ f.value = o.value
  <2>1. PICK status, reason, target : f = AboutCue(cue, status, reason, target, {m}, cue.op, o.value)
    BY Zenon DEF Decides
  <2> QED BY <2>1, VerdictFields
<1>6. g.locs = {o.loc} /\ g.value = o.value /\ g.op \in {"", c.op}
  <2>1. g.locs = {u.loc} /\ g.value = u.value /\ g.op \in {"", c.op}
    BY <1>3, <1>4, PlainVerdict
  <2> QED BY <2>1
<1>7. cue.op # ""
  BY CueOperators, CompatibleCases
<1>8. Compete(f, g)
  <2>1. Cardinality(f.locs) = 1
    BY <1>5, FS_Singleton
  <2> HIDE DEF g, o
  <2> QED BY <2>1, <1>5, <1>6, <1>7 DEF Compete
<1>9. g \in Singles(q, mentions, evidence)
  <2>1. g \in SingleFindings(q, c, mentions, evidence)
    BY BoundIsJudged, Zenon
  <2> QED BY <2>1, Zenon DEF Singles
<1> QED BY <1>8, <1>9

(* The numbers that pass a predicate of another operator than the cue's    *)
(* are others than the cue means.                                          *)
LEMMA OtherNumbers ==
  ASSUME NEW op \in DOMAIN Compatible, NEW o, NEW p, o.op \in BoundaryOperators \ {"IN"},
         o.op \notin Compatible[op], op = "EQ" \/ o.op # "EQ", Reads(o, p), o.value \in Numerals,
         p.op = "BETWEEN" => /\ NumberOf[p.values[1]] \in Int /\ NumberOf[p.values[2]] \in Int
                             /\ NumberOf[p.values[1]] # NumberOf[p.values[2]]
  PROVE  {x \in Sample : MayPass(p, x, NumberOf)} # {x \in Sample : Compares(op, x, NumberOf[o.value])}
<1> DEFINE n == NumberOf[o.value]
<1>1. n \in Int /\ n - 1 \in Int /\ n + 1 \in Int
  BY NumberIsInt
<1>2. n - 1 \in Sample /\ n \in Sample /\ n + 1 \in Sample
  BY <1>1, SampleAssumption
<1> SUFFICES ASSUME \A x \in {n - 1, n, n + 1} : MayPass(p, x, NumberOf) <=> Compares(op, x, n)
             PROVE  FALSE
  BY <1>2
<1>3. op \in {"EQ", "GT", "GTE", "LT", "LTE"}
  BY CompatibleCases
<1> HIDE DEF n
<1>4. CASE o.op \in {"EQ", "GT", "GTE", "LT", "LTE"}
  <2>1. \A x \in {n - 1, n, n + 1} : Compares(o.op, x, n) <=> Compares(op, x, n)
    BY <1>1, <1>4 DEF Reads, n
  <2>2. op # o.op
    BY <1>3, <1>4, CompatibleCases
  <2> QED BY <1>1, <1>3, <1>4, <2>1, <2>2, ComparesCases
<1>5. CASE o.op = "BETWEEN_LOW"
  <2>1. op \in {"EQ", "GT", "LT", "LTE"}
    BY <1>3, <1>5, CompatibleCases
  <2>2. PICK b \in Int : b # n /\ \A x \in Int : MayPass(p, x, NumberOf) <=> n <= x /\ x <= b
    BY <1>5 DEF Reads, n
  <2> QED BY <1>1, <2>1, <2>2, ComparesCases
<1>6. CASE o.op = "BETWEEN_HIGH"
  <2>1. op \in {"EQ", "GT", "GTE", "LT"}
    BY <1>3, <1>6, CompatibleCases
  <2>2. PICK a \in Int : a # n /\ \A x \in Int : MayPass(p, x, NumberOf) <=> a <= x /\ x <= n
    BY <1>6 DEF Reads, n
  <2> QED BY <1>1, <2>1, <2>2, ComparesCases
<1> QED BY <1>4, <1>5, <1>6 DEF BoundaryOperators

(* Two phrases of other operators mean other numbers: the sample holds the *)
(* number and its neighbours.                                              *)
LEMMA OtherOperators ==
  ASSUME NEW op \in DOMAIN Compatible, NEW op2 \in DOMAIN Compatible, op # op2, NEW v \in Numerals
  PROVE  {x \in Sample : Compares(op, x, NumberOf[v])} # {x \in Sample : Compares(op2, x, NumberOf[v])}
<1> DEFINE n == NumberOf[v]
<1>1. n \in Int
  BY NumberIsInt
<1>2. n - 1 \in Sample /\ n \in Sample /\ n + 1 \in Sample
  BY <1>1, SampleAssumption
<1>3. op \in {"EQ", "GT", "GTE", "LT", "LTE"} /\ op2 \in {"EQ", "GT", "GTE", "LT", "LTE"}
  BY CompatibleCases
<1> HIDE DEF n
<1> SUFFICES ASSUME \A x \in {n - 1, n, n + 1} : Compares(op, x, n) <=> Compares(op2, x, n) PROVE FALSE
  BY <1>2 DEF n
<1> QED BY <1>1, <1>3, ComparesCases

(* The numbers that pass a predicate of the cue's operator are all meant.  *)
LEMMA KeptNumbers ==
  ASSUME NEW op \in DOMAIN Compatible, NEW o, NEW p, o.op \in Compatible[op], Reads(o, p), o.value \in Numerals,
         NEW x \in Sample, MayPass(p, x, NumberOf)
  PROVE  Compares(op, x, NumberOf[o.value])
<1>1. op \in {"EQ", "GT", "GTE", "LT", "LTE"}
  BY CompatibleCases
<1>2. x \in Int /\ NumberOf[o.value] \in Int
  BY NumberIsInt, SampleAssumption
<1>3. CASE o.op = op
  BY <1>1, <1>2, <1>3 DEF Reads
<1>4. CASE o.op = "BETWEEN_LOW"
  BY <1>2, <1>4, CompatibleCases, ComparesCases, <1>1 DEF Reads
<1>5. CASE o.op = "BETWEEN_HIGH"
  BY <1>2, <1>5, CompatibleCases, ComparesCases, <1>1 DEF Reads
<1> QED BY <1>1, <1>3, <1>4, <1>5, CompatibleCases

(* Everything that the question says of the column is said by one phrase,  *)
(* and everything the query does to it by the predicates cited.            *)
Sole(f) ==
  \A w \in Wanted(f) : Cites(f, w) =>
    /\ On(w.column, w.table) \subseteq f.locs
    /\ Meant(w.column, w.table) = w.means

(* What the parser gives, of one item.                                     *)
Typed(it) ==
  /\ \A i \in DOMAIN it.where : LET p == it.where[i] IN
       /\ p.op \in SqlOperators
       /\ p.op = "BETWEEN" => (p.values[1] \in Numerals <=> p.values[2] \in Numerals)
  /\ \A e \in it.evidence : e.op \in DOMAIN Compatible

(* Every item is so typed.                                                 *)
LEMMA ItemsAreTyped == ASSUME NEW it, \E family \in Families : it \in family PROVE Typed(it)
BY ItemsAssumption DEF Typed

(* A candidate is read as the engine reads its predicate.                  *)
LEMMA CandidateRead ==
  ASSUME NEW i \in DOMAIN item.where, NEW o \in BoundaryCandidates(item.where), o.loc = i, Typed(item),
         ~o.negated, ~o.disjunctive
  PROVE  /\ Reads(o, item.where[i]) /\ i \in On(o.column, o.table)
         /\ o.value \in Numerals /\ o.op \in BoundaryOperators
<1>1. /\ o \in ObligationsOf(i, item.where[i]) /\ o.column = item.where[i].column
      /\ o.table = item.where[i].table /\ Root(item.where[i])
  BY CandidateFields
<1>2. o.value \in Numerals /\ o.relevant /\ o.op \in BoundaryOperators
  BY CandidateOrigin
<1>3. item.where[i].op \in SqlOperators
  BY DEF Typed
<1> QED BY <1>1, <1>2, <1>3, ReadRight DEF On

(* What a query returns has passed each of its predicates; passing one is  *)
(* all if it has no other.                                                 *)
LEMMA ReturnedPass ==
  ASSUME NEW column, NEW table, NEW i \in On(column, table)
  PROVE  /\ \A x \in Returned(column, table) : x \in Sample /\ MayPass(item.where[i], x, NumberOf)
         /\ On(column, table) \subseteq {i} =>
              Returned(column, table) = {x \in Sample : MayPass(item.where[i], x, NumberOf)}
<1>1. Returned(column, table) =
        {x \in Sample : \A k \in On(column, table) : MayPass(item.where[k], x, NumberOf)}
  BY Zenon DEF Returned
<1> QED BY <1>1

(* The ends of a bound BETWEEN are two numbers: were they one, the cue     *)
(* would be bound to both.                                                 *)
LEMMA EndsDiffer ==
  ASSUME NEW q, NEW where, NEW cue, NEW m \in BoundTo(q, cue, ValueMentions(q, BoundaryCandidates(where))),
         NEW i \in DOMAIN where, m.obligation.loc = i, where[i].op = "BETWEEN",
         where[i].values[1] \in Numerals <=> where[i].values[2] \in Numerals
  PROVE  /\ NumberOf[where[i].values[1]] \in Int /\ NumberOf[where[i].values[2]] \in Int
         /\ NumberOf[where[i].values[1]] # NumberOf[where[i].values[2]]
<1> DEFINE p == where[i]
           o == m.obligation
           candidates == BoundaryCandidates(where)
           mentions == ValueMentions(q, candidates)
           low == Obligation(i, p, "BETWEEN_LOW", p.values[1])
           high == Obligation(i, p, "BETWEEN_HIGH", p.values[2])
<1>1. m \in mentions /\ o \in candidates
  BY BoundFields, MentionFields
<1>2. o \in ObligationsOf(i, p) /\ o.column = p.column /\ o.table = p.table
  BY <1>1, CandidateFields
<1>3. o = low \/ o = high
  BY <1>2, ObligationCases
<1>4. /\ low.loc = i /\ low.column = p.column /\ low.table = p.table /\ low.op = "BETWEEN_LOW"
      /\ low.value = p.values[1] /\ low.clause = p.clause /\ (low.relevant <=> ~p.nested)
  BY DEF Obligation
<1>5. /\ high.loc = i /\ high.column = p.column /\ high.table = p.table /\ high.op = "BETWEEN_HIGH"
      /\ high.value = p.values[2] /\ high.clause = p.clause /\ (high.relevant <=> ~p.nested)
  BY DEF Obligation
<1>6. p.values[1] \in Numerals /\ p.values[2] \in Numerals
  <2>1. o.value \in Numerals
    BY <1>1, CandidateOrigin
  <2> QED BY <1>3, <1>4, <1>5, <2>1
<1>7. ASSUME p.values[1] = p.values[2] PROVE FALSE
  <2>1. low \in Obligations(where) /\ high \in Obligations(where)
    <3>1. low \in ObligationsOf(i, p) /\ high \in ObligationsOf(i, p)
      BY Zenon DEF ObligationsOf
    <3> QED BY <3>1, Zenon DEF Obligations
  <2>2. o.clause \in {"WHERE", "HAVING"} /\ o.relevant /\ o.column # ""
    BY <1>1, CandidateOrigin
  <2>3. p.clause \in {"WHERE", "HAVING"} /\ ~p.nested /\ p.column # ""
    BY <1>3, <1>4, <1>5, <2>2, ZenonT(30)
  <2> HIDE DEF p
  <2>4. low \in candidates /\ high \in candidates
    <3> HIDE DEF low, high
    <3> QED BY <1>4, <1>5, <1>6, <2>1, <2>3 DEF BoundaryCandidates, BoundaryOperators
  <2> DEFINE other == IF o = low THEN high ELSE low
             n == [obligation |-> other, span |-> m.span]
  <2> HIDE DEF low, high, candidates
  <2>5. n \in mentions
    BY <1>1, <1>3, <1>4, <1>5, <1>7, <2>4, MentionFields
  <2>6. n.span = m.span /\ n.obligation.column = o.column /\ n.obligation.table = o.table
    BY <1>3, <1>4, <1>5
  <2>7. n = m
    BY <2>5, <2>6, NoTwin DEF candidates
  <2>8. n.obligation.op # o.op
    BY <1>3, <1>4, <1>5
  <2> QED BY <2>7, <2>8
<1> QED BY <1>6, <1>7, NumberIsInt, NumbersDiffer

(* What a decision on a cue says, field by field.                          *)
LEMMA DecidesFields ==
  ASSUME NEW cue, NEW m, NEW evidence, NEW f, Decides(cue, m, evidence, f)
  PROVE  LET o == m.obligation IN
         /\ ~o.disjunctive /\ ~o.negated /\ ~OrdinalPolarity(cue, o)
         /\ o.op # "IN" /\ (cue.op = "EQ" \/ o.op # "EQ")
         /\ f.at = cue.span.from /\ f.locs = {o.loc}
         /\ \/ EvidenceContradicts(evidence, cue, o) /\ f.status = "contradicted" /\ f.target = "mapping"
            \/ o.op \in Compatible[cue.op] /\ f.status = "supported" /\ f.target = "sql"
            \/ o.op \notin Compatible[cue.op] /\ f.status = "contradicted" /\ f.target = "sql"
<1>1. Locations({m}) = {m.obligation.loc}
  BY DEF Locations
<1> DEFINE o == m.obligation
           Says(status, reason, target) == f = AboutCue(cue, status, reason, target, {m}, cue.op, o.value)
<1>3. /\ ~o.disjunctive /\ ~o.negated /\ ~OrdinalPolarity(cue, o) /\ o.op # "IN" /\ (cue.op = "EQ" \/ o.op # "EQ")
      /\ \/ /\ EvidenceContradicts(evidence, cue, o)
            /\ Says("contradicted", "evidence against question", "mapping")
         \/ o.op \in Compatible[cue.op] /\ Says("supported", "boundary", "sql")
         \/ o.op \notin Compatible[cue.op] /\ Says("contradicted", "boundary", "sql")
  BY Zenon DEF Decides
<1>4. ASSUME NEW status, NEW reason, NEW target, Says(status, reason, target)
      PROVE  f.status = status /\ f.target = target /\ f.at = cue.span.from /\ f.locs = {o.loc}
  BY <1>1, <1>4 DEF AboutCue
<1> HIDE DEF Says
<1> QED BY <1>3, <1>4

(* A decision on a cue whose phrase means its operator is right.           *)
LEMMA SingleRight ==
  ASSUME Typed(item), CuesMeant(item, ValueMentions(item.q, BoundaryCandidates(item.where))),
         NEW cue \in BoundaryCues(item.q),
         NEW m \in BoundTo(item.q, cue, ValueMentions(item.q, BoundaryCandidates(item.where))),
         NEW f, Decides(cue, m, item.evidence, f),
         ~Contested(item.q, cue, m, ValueMentions(item.q, BoundaryCandidates(item.where)))
  PROVE  /\ Supported(f) => BoundaryKept(f)
         /\ Contradicted(f) /\ (f.target = "sql" => Sole(f)) => BoundaryMissed(f)
<1> DEFINE o == m.obligation
           candidates == BoundaryCandidates(item.where)
<1>1. o \in candidates
  BY BoundFields, MentionFields
<1>2. PICK i \in DOMAIN item.where : o.loc = i
  BY <1>1, CandidateOrigin
<1> DEFINE p == item.where[i]
<1>3. /\ ~o.disjunctive /\ ~o.negated /\ ~OrdinalPolarity(cue, o) /\ o.op # "IN" /\ (cue.op = "EQ" \/ o.op # "EQ")
  BY DecidesFields
<1>4. /\ f.at = cue.span.from /\ f.locs = {i}
      /\ \/ EvidenceContradicts(item.evidence, cue, o) /\ f.status = "contradicted" /\ f.target = "mapping"
         \/ o.op \in Compatible[cue.op] /\ f.status = "supported" /\ f.target = "sql"
         \/ o.op \notin Compatible[cue.op] /\ f.status = "contradicted" /\ f.target = "sql"
  BY <1>2, DecidesFields
<1>5. Reads(o, p) /\ i \in On(o.column, o.table) /\ o.value \in Numerals /\ o.op \in BoundaryOperators
  BY <1>1, <1>2, <1>3, CandidateRead
<1>6. PICK w \in item.wants :
        /\ cue.span.from \in w.from..w.to /\ w.column = o.column /\ w.table = o.table
        /\ w.means = {x \in Sample : Compares(cue.op, x, NumberOf[o.value])}
  BY <1>3, Zenon DEF CuesMeant
<1>7. w \in Wanted(f) /\ Cites(f, w)
  BY <1>4, <1>5, <1>6 DEF Wanted, Cites
<1>8. cue.op \in DOMAIN Compatible
  BY CueOperators
<1>9. ASSUME Supported(f) PROVE BoundaryKept(f)
  <2>1. o.op \in Compatible[cue.op]
    BY <1>4, <1>9 DEF Supported
  <2>2. Returned(w.column, w.table) \subseteq w.means
    <3> SUFFICES ASSUME NEW x \in Returned(w.column, w.table) PROVE x \in w.means
      OBVIOUS
    <3>1. x \in Sample /\ MayPass(p, x, NumberOf)
      BY <1>5, <1>6, ReturnedPass
    <3>2. Compares(cue.op, x, NumberOf[o.value])
      BY <1>5, <1>8, <2>1, <3>1, KeptNumbers
    <3> QED BY <1>6, <3>1, <3>2
  <2> QED BY <1>7, <2>2 DEF BoundaryKept
<1>10. ASSUME Contradicted(f), f.target = "sql", Sole(f) PROVE BoundaryMissed(f)
  <2>1. o.op \notin Compatible[cue.op]
    BY <1>4, <1>10 DEF Contradicted
  <2>2. On(w.column, w.table) \subseteq {i} /\ Meant(w.column, w.table) = w.means
    BY <1>4, <1>7, <1>10 DEF Sole
  <2>3. Returned(w.column, w.table) = {x \in Sample : MayPass(p, x, NumberOf)}
    BY <1>5, <1>6, <2>2, ReturnedPass
  <2>4. p.op = "BETWEEN" => /\ NumberOf[p.values[1]] \in Int /\ NumberOf[p.values[2]] \in Int
                            /\ NumberOf[p.values[1]] # NumberOf[p.values[2]]
    BY <1>2, EndsDiffer DEF Typed
  <2>5. {x \in Sample : MayPass(p, x, NumberOf)} # {x \in Sample : Compares(cue.op, x, NumberOf[o.value])}
    BY <1>3, <1>5, <1>8, <2>1, <2>4, OtherNumbers
  <2>6. Returned(w.column, w.table) # Meant(w.column, w.table)
    BY <1>6, <2>2, <2>3, <2>5
  <2> QED BY <1>7, <1>10, <2>6 DEF BoundaryMissed
<1>11. ASSUME Contradicted(f), f.target # "sql" PROVE BoundaryMissed(f)
  <2>1. EvidenceContradicts(item.evidence, cue, o)
    BY <1>4, <1>11 DEF Contradicted
  <2>2. PICK op \in EvidenceOperators(item.evidence, o) : op # cue.op
    BY <2>1 DEF EvidenceContradicts
  <2>3. PICK e \in item.evidence : e.affirmative /\ e.value = o.value /\ e.column = o.column /\ op = e.op
    BY <2>2 DEF EvidenceOperators
  <2>4. e.op \in DOMAIN Compatible
    BY DEF Typed
  <2>5. {x \in Sample : Compares(e.op, x, NumberOf[e.value])} # w.means
    BY <1>5, <1>6, <1>8, <2>2, <2>3, <2>4, OtherOperators
  <2> QED BY <1>6, <1>7, <1>11, <2>3, <2>5 DEF BoundaryMissed
<1> QED BY <1>9, <1>10, <1>11

(* Two predicates with other operators than a range's leave out one of its *)
(* ends.                                                                   *)
LEMMA EndLeftOut ==
  ASSUME NEW a, NEW b, NEW p, NEW r, Reads(a, p), Reads(b, r), a.value \in Numerals, b.value \in Numerals,
         a.op \in BoundaryOperators, b.op \in BoundaryOperators, {a.op, b.op} \cap {"EQ", "IN"} = {},
         ~RangeFits(a, b), NumberOf[a.value] < NumberOf[b.value]
  PROVE  \E x \in {NumberOf[a.value], NumberOf[b.value]} :
           ~(MayPass(p, x, NumberOf) /\ MayPass(r, x, NumberOf))
<1> DEFINE low == NumberOf[a.value]
           high == NumberOf[b.value]
<1>1. low \in Int /\ high \in Int
  BY NumberIsInt
<1>2. /\ a.op \in {"GT", "GTE", "LT", "LTE", "BETWEEN_LOW", "BETWEEN_HIGH"}
      /\ b.op \in {"GT", "GTE", "LT", "LTE", "BETWEEN_LOW", "BETWEEN_HIGH"}
      /\ a.op \notin {"GTE", "BETWEEN_LOW"} \/ b.op \notin {"LTE", "BETWEEN_HIGH"}
  BY CompatibleCases DEF BoundaryOperators, RangeFits
<1>3. CASE a.op \in {"GT", "LT", "LTE"}
  <2>1. \A x \in {low, high} : MayPass(p, x, NumberOf) <=> Compares(a.op, x, low)
    BY <1>1, <1>3 DEF Reads
  <2> HIDE DEF low, high
  <2>2. ~(Compares(a.op, low, low) /\ Compares(a.op, high, low))
    BY <1>1, <1>3, ComparesCases DEF low, high
  <2> QED BY <2>1, <2>2 DEF low, high
<1>4. CASE a.op = "BETWEEN_HIGH"
  <2>1. MayPass(p, high, NumberOf) => high <= low
    BY <1>1, <1>4 DEF Reads
  <2> QED BY <1>1, <2>1
<1>5. CASE b.op \in {"GT", "LT", "GTE"}
  <2>1. \A x \in {low, high} : MayPass(r, x, NumberOf) <=> Compares(b.op, x, high)
    BY <1>1, <1>5 DEF Reads
  <2> HIDE DEF low, high
  <2>2. ~(Compares(b.op, low, high) /\ Compares(b.op, high, high))
    BY <1>1, <1>5, ComparesCases DEF low, high
  <2> QED BY <2>1, <2>2 DEF low, high
<1>6. CASE b.op = "BETWEEN_LOW"
  <2>1. MayPass(r, low, NumberOf) => high <= low
    BY <1>1, <1>6 DEF Reads
  <2> QED BY <1>1, <2>1
<1> QED BY <1>2, <1>3, <1>4, <1>5, <1>6

(* The two ends of a range are candidates on one column.                   *)
LEMMA PairFields ==
  ASSUME NEW q, NEW at, NEW low, NEW high, NEW obligations,
         NEW p \in RangePairs(q, at, low, high, ValueMentions(q, obligations))
  PROVE  /\ p[1] \in obligations /\ p[2] \in obligations
         /\ p[1].column = p[2].column /\ p[1].table = p[2].table
<1> DEFINE mentions == ValueMentions(q, obligations)
           OfSpan(s) == {m.obligation : m \in {m \in mentions : m.span = s}}
<1>1. p \in OfSpan(low) \X OfSpan(high) /\ p[1].column = p[2].column /\ p[1].table = p[2].table
  BY Zenon DEF RangePairs
<1>2. \A s : OfSpan(s) \subseteq obligations
  BY MentionFields
<1> HIDE DEF OfSpan
<1> QED BY <1>1, <1>2

(* A range that is decided is one whose ends the words mean.               *)
LEMMA DecidedRange ==
  ASSUME NEW mentions, RangesMeant(item, mentions),
         NEW spec \in RangeSpecs, NEW s \in RangeOpeners(item.q, spec),
         NEW e \in Ends(item.q, spec, s.from, mentions), NEW p, NEW f,
         RangeDecides(item.q, mentions, spec, s, e, p, f)
  PROVE  RangeMeant(item, s.from, p[1], p[2])
<1> DEFINE pairs == RangePairs(item.q, s.from, e[1], e[2], mentions)
<1>1. /\ ~NegatedBefore(item.q, s.from) /\ EndpointsPlain(item.q, spec, s.from)
      /\ Cardinality(pairs) = 1 /\ p \in pairs
  BY Zenon DEF RangeDecides
<1>2. \/ NegatedBefore(item.q, s.from) \/ ~EndpointsPlain(item.q, spec, s.from) \/ Cardinality(pairs) # 1
      \/ \A r \in pairs : RangeMeant(item, s.from, r[1], r[2])
  BY Zenon DEF RangesMeant
<1> HIDE DEF pairs
<1> QED BY <1>1, <1>2, Zenon

(* A decision on a range whose words mean its two ends is right.           *)
LEMMA RangeRight ==
  ASSUME Typed(item), RangesMeant(item, ValueMentions(item.q, BoundaryCandidates(item.where))),
         NEW spec \in RangeSpecs, NEW s \in RangeOpeners(item.q, spec),
         NEW e \in Ends(item.q, spec, s.from, ValueMentions(item.q, BoundaryCandidates(item.where))),
         NEW p, NEW f,
         RangeDecides(item.q, ValueMentions(item.q, BoundaryCandidates(item.where)), spec, s, e, p, f)
  PROVE  /\ Supported(f) => BoundaryKept(f)
         /\ Contradicted(f) /\ Sole(f) => BoundaryMissed(f)
<1> DEFINE candidates == BoundaryCandidates(item.where)
           mentions == ValueMentions(item.q, candidates)
           a == p[1]
           b == p[2]
           low == NumberOf[a.value]
           high == NumberOf[b.value]
<1>1. /\ ~NegatedBefore(item.q, s.from) /\ EndpointsPlain(item.q, spec, s.from)
      /\ Cardinality(RangePairs(item.q, s.from, e[1], e[2], mentions)) = 1
      /\ p \in RangePairs(item.q, s.from, e[1], e[2], mentions)
      /\ ~a.disjunctive /\ ~a.negated /\ ~b.disjunctive /\ ~b.negated
      /\ {a.op, b.op} \cap {"EQ", "IN"} = {}
      /\ f.target = "sql" /\ f.at = s.from /\ f.locs = {a.loc, b.loc}
      /\ f.status = IF RangeFits(a, b) THEN "supported" ELSE "contradicted"
  BY Zenon DEF RangeDecides
<1>2. a \in candidates /\ b \in candidates /\ a.column = b.column /\ a.table = b.table
  <2> HIDE DEF candidates
  <2>1. p \in RangePairs(item.q, s.from, e[1], e[2], ValueMentions(item.q, candidates))
    BY <1>1
  <2> QED BY <2>1, PairFields
<1>3. PICK i \in DOMAIN item.where : a.loc = i
  BY <1>2, CandidateOrigin, ZenonT(30)
<1>4. PICK j \in DOMAIN item.where : b.loc = j
  BY <1>2, CandidateOrigin, ZenonT(30)
<1>5. /\ Reads(a, item.where[i]) /\ i \in On(a.column, a.table) /\ a.value \in Numerals /\ a.op \in BoundaryOperators
      /\ Reads(b, item.where[j]) /\ j \in On(b.column, b.table) /\ b.value \in Numerals /\ b.op \in BoundaryOperators
  BY <1>1, <1>2, <1>3, <1>4, CandidateRead
<1>6. RangeMeant(item, s.from, a, b)
  BY DecidedRange, Zenon
<1>7. PICK w \in item.wants :
        /\ s.from \in w.from..w.to /\ w.column = a.column /\ w.table = a.table
        /\ w.means = {x \in Sample : low <= x /\ x <= high}
  BY <1>6, Zenon DEF RangeMeant
<1>14. low < high
  BY <1>6, Zenon DEF RangeMeant
<1>8. i \in On(w.column, w.table) /\ j \in On(w.column, w.table)
  BY <1>2, <1>5, <1>7
<1>9. w \in Wanted(f) /\ Cites(f, w)
  BY <1>1, <1>3, <1>4, <1>7, <1>8 DEF Wanted, Cites
<1>10. \A x \in Returned(w.column, w.table) :
         x \in Sample /\ MayPass(item.where[i], x, NumberOf) /\ MayPass(item.where[j], x, NumberOf)
  BY <1>8, ReturnedPass
<1>11. low \in Int /\ high \in Int /\ low \in Sample /\ high \in Sample
  BY <1>5, NumberIsInt, SampleAssumption
<1> HIDE DEF a, b, low, high
<1>12. ASSUME Supported(f) PROVE BoundaryKept(f)
  <2>1. a.op \in Compatible["GTE"] /\ b.op \in Compatible["LTE"]
    BY <1>1, <1>12 DEF Supported, RangeFits
  <2>2. ASSUME NEW x \in Returned(w.column, w.table) PROVE x \in w.means
    <3>1. Compares("GTE", x, low) /\ Compares("LTE", x, high)
      BY <1>5, <1>10, <2>1, KeptNumbers, CompatibleCases DEF low, high
    <3>2. x \in Sample /\ x \in Int
      BY <1>10, SampleAssumption
    <3> QED BY <1>7, <1>11, <3>1, <3>2, ComparesCases
  <2> QED BY <1>9, <2>2 DEF BoundaryKept
<1>13. ASSUME Contradicted(f), Sole(f) PROVE BoundaryMissed(f)
  <2>1. ~RangeFits(a, b)
    BY <1>1, <1>13 DEF Contradicted
  <2>2. PICK x \in {low, high} : ~(MayPass(item.where[i], x, NumberOf) /\ MayPass(item.where[j], x, NumberOf))
    BY <1>1, <1>5, <1>14, <2>1, EndLeftOut DEF low, high
  <2>3. x \in w.means /\ x \notin Returned(w.column, w.table)
    BY <1>7, <1>10, <1>11, <1>14, <2>2
  <2>4. Meant(w.column, w.table) = w.means
    BY <1>9, <1>13 DEF Sole
  <2> QED BY <1>1, <1>9, <2>3, <2>4 DEF BoundaryMissed
<1> QED BY <1>12, <1>13

(* So is every verdict on a boundary.                                      *)
LEMMA BoundaryVerdictRight ==
  ASSUME BoundariesMeant(item), \E family \in Families : item \in family,
         NEW f \in BoundaryFindings(item.q, item.where, item.evidence)
  PROVE  /\ Supported(f) => BoundaryKept(f)
         /\ Contradicted(f) /\ (f.target = "sql" => Sole(f)) => BoundaryMissed(f)
<1> DEFINE mentions == ValueMentions(item.q, BoundaryCandidates(item.where))
<1>1. Typed(item)
  BY ItemsAreTyped, Zenon
<1>2. CuesMeant(item, mentions) /\ RangesMeant(item, mentions)
  BY Zenon DEF BoundariesMeant
<1>3. CASE Undecided(f)
  BY <1>3 DEF Undecided, Supported, Contradicted
<1>4. CASE f \in RangeFindings(item.q, mentions) /\ ~Undecided(f)
  <2>1. \E spec \in RangeSpecs : \E s \in RangeOpeners(item.q, spec) :
        \E e \in Ends(item.q, spec, s.from, mentions) : \E p :
          RangeDecides(item.q, mentions, spec, s, e, p, f)
    BY <1>4, RangeCases, Zenon
  <2>2. f.target = "sql"
    BY <2>1, ZenonT(30) DEF RangeDecides
  <2>3. (Supported(f) => BoundaryKept(f)) /\ (Contradicted(f) /\ Sole(f) => BoundaryMissed(f))
    BY <1>1, <1>2, <2>1, RangeRight, Zenon
  <2> QED BY <2>2, <2>3
<1>5. CASE /\ f \in Singles(item.q, mentions, item.evidence) /\ ~Undecided(f)
           /\ ~\E g \in Singles(item.q, mentions, item.evidence) : Compete(f, g)
  <2>1. PICK cue \in BoundaryCues(item.q) : f \in SingleFindings(item.q, cue, mentions, item.evidence)
    BY <1>5, Zenon DEF Singles
  <2>2. PICK m \in BoundTo(item.q, cue, mentions) : Decides(cue, m, item.evidence, f)
    BY <1>5, <2>1, SingleCases, Zenon
  <2>3. ~Contested(item.q, cue, m, mentions)
    BY <1>5, <2>2, Uncontested, Zenon
  <2> QED BY <1>1, <1>2, <2>2, <2>3, SingleRight, Zenon
<1>6. \/ Undecided(f)
      \/ f \in RangeFindings(item.q, mentions)
      \/ /\ f \in Singles(item.q, mentions, item.evidence)
         /\ ~\E g \in Singles(item.q, mentions, item.evidence) : Compete(f, g)
  BY BoundaryCases, Zenon
<1> QED BY <1>3, <1>4, <1>5, <1>6, Zenon

(* Where phrases and ranges mean the predicates they are bound to, every   *)
(* row that the query returns keeps to a boundary called supported.        *)
THEOREM SupportedBoundariesTheorem ==
  Spec => [](BoundariesMeant(item) =>
               \A f \in findings : f.rule = BoundaryRule /\ Supported(f) => BoundaryKept(f))
<1>1. EveryFindingOfItsRule => (BoundariesMeant(item) =>
        \A f \in findings : f.rule = BoundaryRule /\ Supported(f) => BoundaryKept(f))
  BY BoundaryVerdictRight, Zenon DEF EveryFindingOfItsRule
<1> QED BY <1>1, OriginTheorem, PTL

(* Where, besides, the column of a contradicted boundary has no predicate  *)
(* and no phrase but those of the verdict, the verdict is right.           *)
THEOREM BoundaryTheorem ==
  Spec => [](/\ BoundariesMeant(item)
             /\ \A f \in findings : f.rule = BoundaryRule /\ Contradicted(f) /\ f.target = "sql" => Sole(f)
             => BoundaryVerdictsRight)
<1>1. EveryFindingOfItsRule =>
        (/\ BoundariesMeant(item)
         /\ \A f \in findings : f.rule = BoundaryRule /\ Contradicted(f) /\ f.target = "sql" => Sole(f)
         => BoundaryVerdictsRight)
  BY BoundaryVerdictRight, Zenon DEF EveryFindingOfItsRule, BoundaryVerdictsRight
<1> QED BY <1>1, OriginTheorem, PTL

---------------------------------------------------------------------------
(* The top and the bottom. Only the primary key orders.                    *)
LEMMA FirstUnitsByKey ==
  ASSUME NEW units, NEW order, NEW other, NEW n, NEW rows,
         order # <<>>, other # <<>>, order[1] = other[1]
  PROVE  FirstUnits(units, order, n, rows) = FirstUnits(units, other, n, rows)
BY DEF FirstUnits

(* An OFFSET of nothing skips nothing.                                     *)
LEMMA NothingSkipped ==
  ASSUME NEW cut, IsFiniteSet(cut), NEW order, NEW rows
  PROVE  FirstUnits(cut, order, 0, rows) = {{}}
<1>1. Cardinality(cut) \in Nat /\ Cardinality({}) = 0
  BY FS_CardinalityType, FS_EmptySet
<1>2. Min({0, Cardinality(cut)}) = 0
  BY <1>1 DEF Min
<1>3. ASSUME NEW skipped \in SUBSET cut PROVE Cardinality(skipped) = 0 <=> skipped = {}
  BY <1>1, <1>3, FS_Subset, FS_EmptySet
<1>4. FirstUnits(cut, order, 0, rows) \subseteq {{}}
  BY <1>2, <1>3 DEF FirstUnits
<1>5. {} \in FirstUnits(cut, order, 0, rows)
  BY <1>1, <1>2 DEF FirstUnits
<1> QED BY <1>4, <1>5

(* So a query with a number for its LIMIT and no OFFSET returns the first  *)
(* so many units by its key.                                               *)
LEMMA ReturnsFirst ==
  ASSUME NEW select, NEW rows, IsFiniteSet(Units(select, rows)),
         select.limit.kind = "number", select.limit.n \in Nat, select.offset = 0
  PROVE  Returns(select, rows) = FirstUnits(Units(select, rows), Keys(select), select.limit.n, rows)
<1> DEFINE first == FirstUnits(Units(select, rows), Keys(select), select.limit.n, rows)
           Rest(cut) == {cut \ skipped : skipped \in FirstUnits(cut, Keys(select), 0, rows)}
<1>1. ASSUME NEW cut \in first PROVE Rest(cut) = {cut}
  <2>1. cut \subseteq Units(select, rows)
    BY <1>1 DEF FirstUnits
  <2>2. FirstUnits(cut, Keys(select), 0, rows) = {{}}
    BY <2>1, FS_Subset, NothingSkipped
  <2> QED BY <2>2
<1>2. Returns(select, rows) = UNION {Rest(cut) : cut \in first}
  <2>1. select.offset + select.limit.n = select.limit.n
    OBVIOUS
  <2>2. Returns(select, rows) =
          UNION {UNION {Rest(cut) : cut \in FirstUnits(Units(select, rows), Keys(select), n, rows)} : n \in {select.limit.n}}
    BY <2>1 DEF Returns
  <2> HIDE DEF Rest
  <2> QED BY <2>2
<1> HIDE DEF Rest, first
<1>3. UNION {Rest(cut) : cut \in first} = first
  BY <1>1
<1> QED BY <1>2, <1>3 DEF first

(* The rows of a finite table form finitely many units.                    *)
LEMMA UnitsAreFinite ==
  ASSUME NEW select, NEW rows, IsFiniteSet(DOMAIN rows)
  PROVE  IsFiniteSet(Units(select, rows))
<1>1. Kept(select, rows) \subseteq DOMAIN rows
  BY DEF Kept
<1>2. Units(select, rows) \subseteq SUBSET (DOMAIN rows)
  BY <1>1 DEF Units, Groups
<1> QED BY <1>2, FS_SUBSET, FS_Subset

(* The query of every item is as the parser gives it.                      *)
LEMMA SelectsAreWellFormed ==
  ASSUME NEW it, \E family \in Families : it \in family PROVE WellFormed(it.select)
BY ItemsAssumption, Zenon

(* The LIMIT is the number asked for; so is the direction of the key.      *)
LimitFits(cue, limit) == limit.kind \notin {"none", "computed"} /\ limit.n # 0 /\ limit.n = cue.n
Matched(f, cue, select) ==
  f.reason = "top k" /\ select.order[1].desc = cue.desc /\ LimitFits(cue, select.limit)

(* What is said of a LIMIT is supported only if it fits.                   *)
LEMMA SupportedLimit ==
  ASSUME NEW cue, NEW limit, Supported(LimitVerdict(cue, limit))
  PROVE  LimitFits(cue, limit) /\ LimitVerdict(cue, limit).reason = "top k"
BY DEF LimitVerdict, Unresolved, NotAssessed, Conflict, TopKSays, Finding, Supported, LimitFits

(* What is said of an ordered query is supported only if direction and     *)
(* LIMIT fit.                                                              *)
LEMMA SupportedOrder ==
  ASSUME NEW q, NEW cue, NEW b, NEW select, NEW conventions,
         Supported(OrderedVerdict(q, cue, b, select, conventions))
  PROVE  Matched(OrderedVerdict(q, cue, b, select, conventions), cue, select)
<1> DEFINE f == OrderedVerdict(q, cue, b, select, conventions)
<1>1. ASSUME NEW reason
      PROVE  ~Supported(Unresolved(cue, reason)) /\ ~Supported(NotAssessed(cue, reason)) /\ ~Supported(Conflict(cue, reason))
  BY DEF Unresolved, NotAssessed, Conflict, TopKSays, Finding, Supported
<1>2. select.order[1].desc = cue.desc /\ f = LimitVerdict(cue, select.limit)
  BY <1>1, Zenon DEF OrderedVerdict
<1>3. LimitFits(cue, select.limit) /\ LimitVerdict(cue, select.limit).reason = "top k"
  BY <1>2, SupportedLimit, Zenon
<1> QED BY <1>2, <1>3, Zenon DEF Matched

(* A query whose order and LIMIT say which rows are returned.              *)
Plain(select) ==
  /\ select.order # <<>> /\ select.limit.kind # "fetch" /\ ~(select.offset > 0)
  /\ Aggregates(select) => select.group # <<>>

(* Only such a query is called a right answer.                             *)
LEMMA SupportedTopK ==
  ASSUME NEW q, NEW cue, NEW select, NEW conventions,
         Supported(TopKFinding(q, cue, select, conventions))
  PROVE  Matched(TopKFinding(q, cue, select, conventions), cue, select) /\ Plain(select)
<1> DEFINE f == TopKFinding(q, cue, select, conventions)
<1>1. ASSUME NEW reason
      PROVE  ~Supported(Unresolved(cue, reason)) /\ ~Supported(NotAssessed(cue, reason))
  BY DEF Unresolved, NotAssessed, TopKSays, Finding, Supported
<1>2. ~Supported(UnorderedVerdict(cue, select))
  BY DEF UnorderedVerdict, Unresolved, NotAssessed, TopKSays, Finding, Supported
<1>3. /\ ~UnsupportedShape(select) /\ select.order # <<>>
      /\ ~(/\ Aggregates(select) /\ select.group = <<>>
           /\ select.order # <<>> \/ select.limit.kind # "none")
      /\ \E b : f = OrderedVerdict(q, cue, b, select, conventions)
  BY <1>1, <1>2, Zenon DEF TopKFinding
<1>4. PICK b : f = OrderedVerdict(q, cue, b, select, conventions)
  BY <1>3
<1>5. Matched(f, cue, select)
  BY <1>4, SupportedOrder, Zenon
<1>6. Plain(select)
  BY <1>3 DEF UnsupportedShape, Plain
<1> QED BY <1>5, <1>6

(* The query returns the units that its reading asks for.                  *)
LEMMA ReadingSelected ==
  ASSUME NEW select, NEW rows, NEW n \in Nat, n # 0, NEW desc, NEW ask, IsFiniteSet(DOMAIN rows),
         select.order # <<>>, 1 \in DOMAIN select.order, select.order[1].desc = desc,
         select.limit.kind = "number", select.limit.n = n, select.offset = 0,
         Aggregates(select) => select.group # <<>>, Kept(select, rows) = DOMAIN rows,
         ask = [term |-> Keys(select)[1].term, group |-> select.group, desc |-> desc, n |-> n]
  PROVE  Selects(select, ask, rows)
<1> DEFINE order == <<[term |-> ask.term, desc |-> ask.desc]>>
           units == Ranked(ask, rows)
<1>1. Keys(select) # <<>> /\ order # <<>> /\ Keys(select)[1] = order[1]
  <2>1. DOMAIN Keys(select) = DOMAIN select.order
    BY DEF Keys
  <2>2. Keys(select)[1] = [term |-> KeyTerm(select, select.order[1].term), desc |-> select.order[1].desc]
    BY DEF Keys
  <2>3. order[1] = [term |-> Keys(select)[1].term, desc |-> desc]
    OBVIOUS
  <2> QED BY <2>1, <2>2, <2>3
<1>2. units = Units(select, rows)
  BY DEF Units, Ranked
<1>3. Returns(select, rows) = FirstUnits(units, Keys(select), n, rows)
  BY <1>2, UnitsAreFinite, ReturnsFirst
<1>4. Asked(ask, rows) = FirstUnits(units, order, n, rows)
  <2>1. ask.n = n /\ n > 0
    OBVIOUS
  <2> QED BY <2>1 DEF Asked, Number
<1> HIDE DEF units, order
<1>5. FirstUnits(units, Keys(select), n, rows) = FirstUnits(units, order, n, rows)
  BY <1>1, FirstUnitsByKey
<1> QED BY <1>3, <1>4, <1>5 DEF Selects

(* Where the words mean the key that they are bound to, a request called   *)
(* supported is answered on every table.                                   *)
LEMMA TopKVerdictRight ==
  ASSUME RequestsMeant(item), \E family \in Families : item \in family,
         NEW f \in TopKFindings(item.q, item.select, item.conventions), Supported(f)
  PROVE  \E a \in item.asks : \A rows \in Tables : Selects(item.select, a, rows)
<1> DEFINE select == item.select
           cues == TopKCues(item.q)
<1>1. ~(Cardinality(cues) > 1)
  <2>1. ASSUME Cardinality(cues) > 1 PROVE \E at : f = Finding(TopKRule, "not_assessed", "several", "mapping", at, {1})
    BY <2>1, Zenon DEF TopKFindings
  <2>2. ASSUME NEW at, f = Finding(TopKRule, "not_assessed", "several", "mapping", at, {1}) PROVE FALSE
    BY <2>2 DEF Finding, Supported
  <2> QED BY <2>1, <2>2
<1>2. PICK cue \in cues : f = TopKFinding(item.q, cue, select, item.conventions)
  BY <1>1, Zenon DEF TopKFindings
<1>3. Matched(f, cue, select) /\ Plain(select)
  BY <1>2, SupportedTopK, Zenon
<1> DEFINE ask == [term |-> Keys(select)[1].term, group |-> select.group, desc |-> cue.desc, n |-> cue.n]
<1>4. ask \in item.asks /\ \A rows \in Tables : Kept(select, rows) = DOMAIN rows
  <2>1. f.reason \in {"direction", "limit", "top k"}
    BY <1>3, Zenon DEF Matched
  <2> QED BY <1>1, <1>2, <2>1, Zenon DEF RequestsMeant
<1>5. /\ select.limit.kind = "number" /\ select.limit.n = cue.n /\ cue.n \in Nat /\ cue.n # 0 /\ select.offset = 0
      /\ 1 \in DOMAIN select.order
  <2>1. /\ select.order = <<>> \/ 1 \in DOMAIN select.order
        /\ select.limit.kind \in {"number", "computed", "fetch", "none"}
        /\ select.limit.n \in Nat /\ select.offset \in Nat
    BY SelectsAreWellFormed, Zenon DEF WellFormed
  <2>2. select.limit.kind \notin {"none", "computed"} /\ select.limit.n # 0 /\ select.limit.n = cue.n
    BY <1>3, Zenon DEF LimitFits, Matched
  <2>3. select.order # <<>> /\ select.limit.kind # "fetch" /\ ~(select.offset > 0)
    BY <1>3, Zenon DEF Plain
  <2> HIDE DEF select
  <2> QED BY <2>1, <2>2, <2>3
<1>6. ASSUME NEW rows \in Tables PROVE Selects(select, ask, rows)
  <2>1. select.order # <<>> /\ select.order[1].desc = cue.desc /\ (Aggregates(select) => select.group # <<>>)
    BY <1>3, Zenon DEF Matched, Plain
  <2> HIDE DEF select
  <2> QED BY <1>4, <1>5, <2>1, TablesAssumption, ReadingSelected
<1> QED BY <1>4, <1>6

(* Where the words mean the key that they are bound to, a query that is    *)
(* called a right answer to a request for the top or the bottom is one on  *)
(* every table, however ties are broken.                                   *)
THEOREM SupportedTopKTheorem ==
  Spec => [](RequestsMeant(item) =>
               \A f \in findings : f.rule = TopKRule /\ Supported(f) =>
                 \E a \in item.asks : \A rows \in Tables : Selects(item.select, a, rows))
<1>1. EveryFindingOfItsRule => (RequestsMeant(item) =>
        \A f \in findings : f.rule = TopKRule /\ Supported(f) =>
          \E a \in item.asks : \A rows \in Tables : Selects(item.select, a, rows))
  BY TopKVerdictRight, Zenon DEF EveryFindingOfItsRule
<1> QED BY <1>1, OriginTheorem, PTL

---------------------------------------------------------------------------
(* Aggregates. A term of one column has that column's value in a row: the  *)
(* fold over one column is unfolded.                                       *)
LEMMA OfOneColumn ==
  ASSUME NEW row, NEW c, row[c] \in Int
  PROVE  OfRow(<<c>>, row) = row[c]
<1> DEFINE Step(g, s) == IF s = {} THEN 0 ELSE LET x == CHOOSE y \in s : TRUE IN row[<<c>>[x]] + g[s \ {x}]
           IsFold(g) == g = [s \in SUBSET {1} |-> Step(g, s)]
           sum == [s \in SUBSET {1} |-> IF s = {} THEN 0 ELSE row[c]]
           fold == CHOOSE g : IsFold(g)
<1>0. (CHOOSE y \in {1} : TRUE) = 1 /\ {1} \ {1} = {} /\ <<c>>[1] = c /\ DOMAIN <<c>> = {1}
  OBVIOUS
<1>1. IsFold(sum)
  <2>1. sum[{1}] = row[c] /\ sum[{}] = 0
    OBVIOUS
  <2>2. ASSUME NEW s \in SUBSET {1} PROVE sum[s] = Step(sum, s)
    <3>1. CASE s = {}
      BY <2>1, <3>1, Zenon
    <3>2. CASE s = {1}
      <4>1. sum[{1}] = row[<<c>>[1]] + sum[{}]
        BY <1>0, <2>1
      <4> HIDE DEF sum
      <4>2. Step(sum, {1}) = row[<<c>>[1]] + sum[{}]
        BY <1>0
      <4> QED BY <3>2, <4>1, <4>2, Zenon
    <3> QED BY <3>1, <3>2
  <2> HIDE DEF Step
  <2> QED BY <2>2
<1>2. IsFold(fold)
  <2> HIDE DEF IsFold, sum
  <2> QED BY <1>1, Zenon DEF fold
<1>3. fold[{1}] = row[c]
  <2> HIDE DEF fold
  <2>1. fold[{}] = 0 /\ fold[{1}] = Step(fold, {1})
    BY <1>2
  <2> QED BY <1>0, <2>1
<1>4. OfRow(<<c>>, row) = fold[DOMAIN <<c>>]
  BY DEF OfRow, FoldSeq, FoldFunction, FoldFunctionOnSet, MapThenFoldSet
<1> QED BY <1>0, <1>3, <1>4

(* A query that no LIMIT and no OFFSET empties returns nothing only of no  *)
(* units.                                                                  *)
LEMMA SomeReturned ==
  ASSUME NEW select, NEW rows, IsFiniteSet(Units(select, rows)), select.offset = 0,
         select.limit.kind = "none" \/ (select.limit.kind = "number" /\ select.limit.n > 0),
         select.limit.n \in Nat, NEW cut \in Returns(select, rows)
  PROVE  cut \subseteq Units(select, rows) /\ (cut = {} => Units(select, rows) = {})
<1> DEFINE units == Units(select, rows)
           n == IF select.limit.kind = "none" THEN Cardinality(units) ELSE select.limit.n
           Rest(c) == {c \ skipped : skipped \in FirstUnits(c, Keys(select), 0, rows)}
<1>1. PICK whole \in FirstUnits(units, Keys(select), n, rows) : cut \in Rest(whole)
  <2>1. Returns(select, rows) =
          UNION {UNION {Rest(c) : c \in FirstUnits(units, Keys(select), k, rows)} : k \in {n}}
    <3>1. select.offset + select.limit.n = select.limit.n
      OBVIOUS
    <3> QED BY <3>1 DEF Returns
  <2> HIDE DEF Rest, n
  <2> QED BY <2>1
<1>2. whole \subseteq units /\ Cardinality(whole) = Min({n, Cardinality(units)})
  BY DEF FirstUnits
<1>3. cut = whole
  <2>1. FirstUnits(whole, Keys(select), 0, rows) = {{}}
    BY <1>2, FS_Subset, NothingSkipped
  <2> QED BY <1>1, <2>1
<1>4. Cardinality(units) \in Nat /\ n \in Nat
  BY FS_CardinalityType
<1>5. ASSUME cut = {} PROVE units = {}
  <2>1. Min({n, Cardinality(units)}) = 0
    BY <1>2, <1>3, <1>5, FS_EmptySet
  <2>2. n = 0 \/ Cardinality(units) = 0
    <3> HIDE DEF n, units
    <3> QED BY <1>4, <2>1 DEF Min
  <2>3. Cardinality(units) = 0
    BY <1>4, <2>2
  <2> QED BY <2>3, FS_EmptySet
<1> QED BY <1>2, <1>3, <1>5

(* The units consist of kept rows, and some row kept makes a unit.         *)
LEMMA UnitsOfKept ==
  ASSUME NEW select, NEW rows
  PROVE  /\ \A unit \in Units(select, rows) : unit \subseteq Kept(select, rows)
         /\ Units(select, rows) = {} => Kept(select, rows) = {}
<1>1. CASE select.group # <<>>
  <2> DEFINE kept == Kept(select, rows)
             Peers(i) == {j \in kept : \A k \in DOMAIN select.group : rows[j][select.group[k]] = rows[i][select.group[k]]}
  <2>1. Units(select, rows) = {Peers(i) : i \in kept}
    BY <1>1, Zenon DEF Units, Groups
  <2>2. \A i : Peers(i) \subseteq kept
    OBVIOUS
  <2> HIDE DEF Peers, kept
  <2> QED BY <2>1, <2>2 DEF kept
<1>2. CASE select.group = <<>> /\ Aggregates(select)
  BY <1>2 DEF Units
<1>3. CASE select.group = <<>> /\ ~Aggregates(select)
  BY <1>3 DEF Units
<1> QED BY <1>1, <1>2, <1>3

(* An aggregate in a projection is carried by every row returned.          *)
LEMMA ProjectedCarries ==
  ASSUME NEW select, NEW ask, NEW rows, NEW k \in DOMAIN select.projections, IsFiniteSet(DOMAIN rows),
         select.offset = 0, select.limit.n \in Nat,
         select.limit.kind = "none" \/ (select.limit.kind = "number" /\ select.limit.n > 0),
         select.projections[k].term.fn = ask.fn, select.projections[k].term.fn # "",
         select.projections[k].term.columns = <<ask.column>>
  PROVE  Carries(select, ask, rows, Kept(select, rows))
<1>1. Aggregates(select)
  BY DEF Aggregates
<1>2. ASSUME NEW cut \in Returns(select, rows)
      PROVE  /\ cut = {} => Kept(select, rows) = {}
             /\ \A unit \in cut : unit \cap Kept(select, rows) = unit
  BY <1>2, UnitsAreFinite, SomeReturned, UnitsOfKept
<1>3. ASSUME NEW unit
      PROVE  ValueOf(select.projections[k].term, unit, rows) =
               ValueOf(Term(ask.fn, <<ask.column>>, "", ""), unit, rows)
  BY DEF ValueOf, Term
<1> QED BY <1>1, <1>2, <1>3 DEF Carries, Carried

(* A set of two elements has two.                                          *)
LEMMA TwoElements ==
  ASSUME NEW u, NEW v, v # u PROVE Cardinality({u, v}) = 2
<1>1. Cardinality({u}) = 1 /\ IsFiniteSet({u})
  BY FS_Singleton
<1>2. {u, v} = {u} \cup {v} /\ v \notin {u}
  OBVIOUS
<1>3. Cardinality({u} \cup {v}) = Cardinality({u}) + 1
  BY <1>1, <1>2, FS_AddElement
<1>4. Cardinality({u} \cup {v}) = 1 + 1
  BY <1>1, <1>3
<1> QED BY <1>2, <1>4

(* The first of all units is before every other.                           *)
LEMMA FirstOfAll ==
  ASSUME NEW units, IsFiniteSet(units), NEW order, order # <<>>, NEW rows,
         NEW cut \in FirstUnits(units, order, 1, rows), NEW u \in cut, NEW v \in units, v # u
  PROVE  LET a == ValueOf(order[1].term, v, rows)
             b == ValueOf(order[1].term, u, rows)
         IN  IF order[1].desc THEN ~(a > b) ELSE ~(a < b)
<1>1. cut \subseteq units /\ Cardinality(cut) = Min({1, Cardinality(units)})
  BY DEF FirstUnits
<1>2. IsFiniteSet(cut) /\ Cardinality(cut) \in Nat /\ Cardinality(units) \in Nat
  BY <1>1, FS_Subset, FS_CardinalityType
<1>3. Min({1, Cardinality(units)}) <= 1
  BY <1>2 DEF Min
<1>4. v \notin cut
  <2>1. SUFFICES ASSUME v \in cut PROVE FALSE
    OBVIOUS
  <2>2. {u, v} \subseteq cut /\ Cardinality({u, v}) = 2
    BY <2>1, TwoElements
  <2> QED BY <1>1, <1>2, <1>3, <2>2, FS_Subset
<1> QED BY <1>4 DEF FirstUnits

(* The value of the best row of a column is that column's extreme.         *)
LEMMA BestIsExtreme ==
  ASSUME NEW values, values \subseteq Int, NEW b \in values, NEW kind \in {"MIN", "MAX"},
         \A a \in values : IF kind = "MAX" THEN a <= b ELSE b <= a
  PROVE  (kind = "MAX" => Max(values) = b) /\ (kind = "MIN" => Min(values) = b)
<1>1. ASSUME kind = "MAX" PROVE Max(values) = b
  <2>1. \A x \in values : (\A y \in values : x >= y) <=> x = b
    BY <1>1
  <2>2. Max(values) = CHOOSE x \in values : \A y \in values : x >= y
    BY Zenon DEF Max
  <2>3. Max(values) \in values /\ \A y \in values : Max(values) >= y
    BY <2>1, <2>2
  <2> QED BY <2>1, <2>3
<1>2. ASSUME kind = "MIN" PROVE Min(values) = b
  <2>1. \A x \in values : (\A y \in values : x <= y) <=> x = b
    BY <1>2
  <2>2. Min(values) = CHOOSE x \in values : \A y \in values : x =< y
    BY Zenon DEF Min
  <2>3. Min(values) \in values /\ \A y \in values : Min(values) <= y
    BY <2>1, <2>2
  <2> QED BY <2>1, <2>3
<1> QED BY <1>1, <1>2

(* A term of one column; a term with no aggregate; whether the first row   *)
(* is of the end that is asked for.                                        *)
OnlyColumn(t, c) == t.columns = <<c>>
OfRows(t) == t.fn = ""
FromTheEnd(select, fn) == select.order[1].desc <=> fn = "MAX"

(* The value of a column in one row.                                       *)
LEMMA OfOneRow ==
  ASSUME NEW rows \in Tables, NEW i \in DOMAIN rows, NEW c \in DOMAIN rows[i],
         NEW t, OfRows(t), OnlyColumn(t, c)
  PROVE  /\ rows[i][c] \in Int /\ OfRow(<<c>>, rows[i]) = rows[i][c]
         /\ ValueOf(t, {i}, rows) = 6 * rows[i][c]
<1>1. rows[i][c] \in Int /\ OfRow(<<c>>, rows[i]) = rows[i][c]
  BY TablesAssumption, OfOneColumn
<1>2. (CHOOSE x \in {i} : TRUE) = i
  OBVIOUS
<1>3. ASSUME NEW fn, fn \notin {"COUNT", "SUM", "AVG", "MIN", "MAX"}
      PROVE  ValueIn(fn, <<c>>, {i}, rows) = 6 * rows[i][c]
  BY <1>1, <1>2, <1>3 DEF ValueIn
<1>4. t.fn \notin {"COUNT", "SUM", "AVG", "MIN", "MAX"} /\ t.columns = <<c>>
  BY Zenon DEF OfRows, OnlyColumn
<1>5. ValueOf(t, {i}, rows) = ValueIn(t.fn, <<c>>, {i}, rows)
  BY <1>4, Zenon DEF ValueOf
<1> QED BY <1>1, <1>3, <1>4, <1>5, Zenon

(* A query that returns the first row by a column.                         *)
RowFirst(select, c) ==
  /\ select.offset = 0 /\ select.limit.kind = "number" /\ select.limit.n = 1
  /\ ~Aggregates(select) /\ select.group = <<>> /\ select.order # <<>> /\ 1 \in DOMAIN select.order
  /\ OfRows(Keys(select)[1].term) /\ OnlyColumn(Keys(select)[1].term, c)

(* It returns one of the rows kept, and none of them is before it.         *)
LEMMA FirstRow ==
  ASSUME NEW select, NEW c, RowFirst(select, c), NEW rows \in Tables,
         \A i \in DOMAIN rows : c \in DOMAIN rows[i], NEW cut \in Returns(select, rows), NEW unit \in cut
  PROVE  \E i \in Kept(select, rows) :
           /\ unit = {i}
           /\ \A j \in Kept(select, rows) :
                IF select.order[1].desc THEN rows[j][c] <= rows[i][c] ELSE rows[i][c] <= rows[j][c]
<1> DEFINE kept == Kept(select, rows)
           units == {{i} : i \in kept}
           Cell(i) == rows[i][c]
<1>1. /\ IsFiniteSet(Units(select, rows)) /\ kept \subseteq DOMAIN rows /\ Units(select, rows) = units
      /\ select.limit.n \in Nat
  <2>1. IsFiniteSet(DOMAIN rows)
    BY TablesAssumption
  <2>2. IsFiniteSet(Units(select, rows))
    BY <2>1, UnitsAreFinite
  <2>3. ~Aggregates(select) /\ select.group = <<>> /\ select.limit.n = 1
    BY Zenon DEF RowFirst
  <2>4. kept \subseteq DOMAIN rows
    BY DEF Kept
  <2>5. Units(select, rows) = units
    BY <2>3 DEF Units
  <2> QED BY <2>2, <2>3, <2>4, <2>5
<1>2. Keys(select) # <<>> /\ Keys(select)[1].desc = select.order[1].desc
  <2>1. DOMAIN Keys(select) = DOMAIN select.order
    BY DEF Keys
  <2>2. Keys(select)[1] = [term |-> KeyTerm(select, select.order[1].term), desc |-> select.order[1].desc]
    BY DEF Keys, RowFirst
  <2>3. Keys(select) # <<>>
    BY <2>1 DEF RowFirst
  <2>4. Keys(select)[1].desc = select.order[1].desc
    BY <2>2
  <2> QED BY <2>3, <2>4
<1>3. cut \in FirstUnits(units, Keys(select), 1, rows) /\ IsFiniteSet(units)
  <2>1. Returns(select, rows) = FirstUnits(Units(select, rows), Keys(select), select.limit.n, rows)
    BY <1>1, ReturnsFirst DEF RowFirst
  <2> HIDE DEF units
  <2> QED BY <1>1, <2>1 DEF RowFirst
<1>4. PICK i \in kept : unit = {i}
  BY <1>3 DEF FirstUnits
<1>5. ASSUME NEW j \in kept
      PROVE  Cell(j) \in Int /\ ValueOf(Keys(select)[1].term, {j}, rows) = 6 * Cell(j)
  BY <1>1, OfOneRow DEF RowFirst
<1>6. ASSUME NEW j \in kept
      PROVE  IF select.order[1].desc THEN Cell(j) <= Cell(i) ELSE Cell(i) <= Cell(j)
  <2> HIDE DEF Cell
  <2>1. CASE j = i
    <3>1. Cell(j) = Cell(i) /\ Cell(i) \in Int
      BY <1>5, <2>1, Zenon
    <3> QED BY <3>1
  <2>2. CASE j # i
    <3>1. {j} \in units /\ {j} # {i} /\ {i} \in cut
      BY <1>4, <2>2
    <3>2. LET a == ValueOf(Keys(select)[1].term, {j}, rows)
              b == ValueOf(Keys(select)[1].term, {i}, rows)
          IN  IF Keys(select)[1].desc THEN ~(a > b) ELSE ~(a < b)
      <4> HIDE DEF units
      <4> QED BY <1>2, <1>3, <3>1, FirstOfAll
    <3>3. Cell(i) \in Int /\ Cell(j) \in Int
      BY <1>5, Zenon
    <3>4. IF select.order[1].desc THEN ~(6 * Cell(j) > 6 * Cell(i)) ELSE ~(6 * Cell(j) < 6 * Cell(i))
      BY <1>2, <1>5, <3>2, Zenon
    <3> QED BY <3>3, <3>4
  <2> QED BY <2>1, <2>2
<1> QED BY <1>4, <1>6

(* The extreme of a column over some rows.                                 *)
Over(fn, c, base, rows) == ValueOf(Term(fn, <<c>>, "", ""), base, rows)
LEMMA ExtremeValue ==
  ASSUME NEW fn \in {"MIN", "MAX"}, NEW c, NEW rows, NEW base, NEW values,
         values = {OfRow(<<c>>, rows[i]) : i \in base}
  PROVE  /\ fn = "MAX" => Over(fn, c, base, rows) = 6 * Max(values)
         /\ fn = "MIN" => Over(fn, c, base, rows) = 6 * Min(values)
<1>1. Over(fn, c, base, rows) = ValueIn(fn, <<c>>, base, rows)
  BY Zenon DEF Over, ValueOf, Term
<1>2. ValueIn("MAX", <<c>>, base, rows) = 6 * Max({OfRow(<<c>>, rows[i]) : i \in base})
  BY DEF ValueIn
<1>3. ValueIn("MIN", <<c>>, base, rows) = 6 * Min({OfRow(<<c>>, rows[i]) : i \in base})
  BY DEF ValueIn
<1> QED BY <1>1, <1>2, <1>3, Zenon

(* The row that a query has ordered first by a column carries the column's *)
(* extreme.                                                                *)
LEMMA OrderedCarries ==
  ASSUME NEW select, NEW ask, RowFirst(select, ask.column), NEW rows \in Tables,
         NEW k \in DOMAIN select.projections, OnlyColumn(select.projections[k].term, ask.column),
         ask.fn \in {"MIN", "MAX"}, FromTheEnd(select, ask.fn),
         \A i \in DOMAIN rows : ask.column \in DOMAIN rows[i]
  PROVE  Carries(select, ask, rows, Kept(select, rows))
<1> DEFINE kept == Kept(select, rows)
           Cell(i) == rows[i][ask.column]
           values == {Cell(i) : i \in kept}
<1>1. OfRows(select.projections[k].term)
  BY Zenon DEF Aggregates, OfRows, RowFirst
<1>2. ASSUME NEW i \in kept
      PROVE  /\ Cell(i) \in Int /\ OfRow(<<ask.column>>, rows[i]) = Cell(i)
             /\ ValueOf(select.projections[k].term, {i}, rows) = 6 * Cell(i)
  <2>1. i \in DOMAIN rows
    BY Zenon DEF Kept
  <2>2. OnlyColumn(select.projections[k].term, ask.column) /\ ask.column \in DOMAIN rows[i]
    BY <2>1, Zenon
  <2> QED BY <1>1, <2>1, <2>2, OfOneRow, Zenon
<1>3. values \subseteq Int /\ values = {OfRow(<<ask.column>>, rows[j]) : j \in kept}
  BY <1>2
<1>4. ASSUME NEW cut \in Returns(select, rows), NEW unit \in cut
      PROVE  ValueOf(select.projections[k].term, unit, rows) =
               ValueOf(Term(ask.fn, <<ask.column>>, "", ""), kept, rows)
  <2>1. PICK i \in kept :
          /\ unit = {i}
          /\ \A j \in kept : IF select.order[1].desc THEN Cell(j) <= Cell(i) ELSE Cell(i) <= Cell(j)
    BY FirstRow
  <2>2. (ask.fn = "MAX" => Max(values) = Cell(i)) /\ (ask.fn = "MIN" => Min(values) = Cell(i))
    <3>1. Cell(i) \in values
      OBVIOUS
    <3>2. \A a \in values : IF ask.fn = "MAX" THEN a <= Cell(i) ELSE Cell(i) <= a
      BY <2>1 DEF FromTheEnd
    <3> HIDE DEF values, Cell
    <3> QED BY <1>3, <3>1, <3>2, BestIsExtreme
  <2> HIDE DEF values, Cell, kept
  <2>3. Over(ask.fn, ask.column, kept, rows) = 6 * Cell(i)
    BY <1>3, <2>2, ExtremeValue
  <2> QED BY <1>2, <2>1, <2>3, Zenon DEF Over
<1>5. ASSUME NEW cut \in Returns(select, rows), cut = {} PROVE kept = {}
  <2>1. IsFiniteSet(Units(select, rows))
    BY TablesAssumption, UnitsAreFinite
  <2>2. select.limit.n \in Nat /\ select.limit.n > 0 /\ select.limit.kind = "number" /\ select.offset = 0
    BY DEF RowFirst
  <2>3. Units(select, rows) = {}
    BY <1>5, <2>1, <2>2, SomeReturned
  <2> QED BY <2>3, UnitsOfKept
<1>6. ~Aggregates(select) /\ select.group = <<>>
  BY Zenon DEF RowFirst
<1> HIDE DEF kept
<1> QED BY <1>4, <1>5, <1>6 DEF Carries, Carried, kept


(* A verdict of support is of an aggregate that a projection has of the    *)
(* column alone, or of the first row by the column.                        *)
Projects(candidates, column, kind) ==
  \E c \in candidates : c.column = column /\ c.kind = kind /\ c.direct
AggregateFound(f, kind, column, candidates, select) ==
  /\ f.locs = {c.place : c \in {c \in candidates : c.column = column}}
  /\ \/ f.reason = "aggregate" /\ kind # "" /\ Projects(candidates, column, kind)
     \/ /\ f.reason = "ordered extreme" /\ kind # "AVG"
        /\ OrderedExtreme(kind, column, select) = "matches"

(* What a finding says, field by field.                                    *)
LEMMA FindingFields ==
  ASSUME NEW rule, NEW status, NEW reason, NEW target, NEW at, NEW locs
  PROVE  /\ Finding(rule, status, reason, target, at, locs).locs = locs
         /\ Finding(rule, status, reason, target, at, locs).reason = reason
BY DEF Finding

(* A verdict of support has found the aggregate in one of these two        *)
(* places.                                                                 *)
LEMMA SupportedVerdict ==
  ASSUME NEW q, NEW cue, NEW column, NEW candidates, NEW select,
         Supported(AggregationVerdict(q, cue, column, candidates, select))
  PROVE  AggregateFound(AggregationVerdict(q, cue, column, candidates, select), cue.kind, column, candidates, select)
<1> DEFINE bound == {c \in candidates : c.column = column}
           kinds == {c.kind : c \in bound} \ {""}
           locs == {c.place : c \in bound}
           f == AggregationVerdict(q, cue, column, candidates, select)
           Says(status, reason, target) == Finding(AggregationRule, status, reason, target, cue.at, locs)
           extreme == IF cue.kind = "AVG" THEN "none" ELSE OrderedExtreme(cue.kind, column, select)
<1>1. ASSUME NEW reason, NEW target
      PROVE  /\ ~Supported(Says("not_assessed", reason, target)) /\ ~Supported(Says("unresolved", reason, target))
             /\ ~Supported(Says("contradicted", reason, target))
  BY DEF Finding, Supported
<1>2. \/ f = Says("supported", "aggregate", "mapping") /\ cue.kind \in kinds /\ ~\E c \in bound : ~c.direct
      \/ f = Says("supported", "ordered extreme", "mapping") /\ extreme = "matches"
  <2> HIDE DEF bound
  <2>1. \A reason, target : /\ f # Says("not_assessed", reason, target) /\ f # Says("unresolved", reason, target)
                            /\ f # Says("contradicted", reason, target)
    BY <1>1, Zenon
  <2> QED BY <2>1, Zenon DEF AggregationVerdict, bound
<1>3. CASE f = Says("supported", "aggregate", "mapping") /\ cue.kind \in kinds /\ ~\E c \in bound : ~c.direct
  <2>1. f.locs = locs /\ f.reason = "aggregate"
    <3> DEFINE said == Says("supported", "aggregate", "mapping")
    <3>1. said.locs = locs /\ said.reason = "aggregate"
      BY FindingFields
    <3>2. f = said
      BY <1>3, Zenon
    <3> HIDE DEF said, f, locs
    <3> QED BY <3>1, <3>2
  <2>2. PICK c \in bound : c.kind = cue.kind /\ cue.kind # ""
    BY <1>3, Zenon
  <2>3. Projects(candidates, column, cue.kind)
    BY <1>3, <2>2, Zenon DEF Projects
  <2> QED BY <2>1, <2>2, <2>3, Zenon DEF AggregateFound
<1>4. CASE f = Says("supported", "ordered extreme", "mapping") /\ extreme = "matches"
  <2>1. f.locs = locs /\ f.reason = "ordered extreme"
    <3> DEFINE said == Says("supported", "ordered extreme", "mapping")
    <3>1. said.locs = locs /\ said.reason = "ordered extreme"
      BY DEF Finding
    <3>2. f = said
      BY <1>4, Zenon
    <3> HIDE DEF said, f, locs
    <3> QED BY <3>1, <3>2
  <2>2. cue.kind # "AVG" /\ OrderedExtreme(cue.kind, column, select) = "matches"
    BY <1>4, Zenon
  <2> QED BY <2>1, <2>2, Zenon DEF AggregateFound
<1> QED BY <1>2, <1>3, <1>4, Zenon

(* A candidate is a column of the projection at its place.                 *)
LEMMA CandidatePlace ==
  ASSUME NEW select, NEW c \in Candidates(select)
  PROVE  /\ c.place \in DOMAIN select.projections
         /\ c.column \in ColumnsOf(select.projections[c.place].term)
         /\ c.kind = select.projections[c.place].term.fn
<1> DEFINE Of(k) == LET t == select.projections[k].term IN
         {[column |-> d, place |-> k, kind |-> t.fn,
           direct |-> t.fn = "" \/ (Len(t.columns) = 1 /\ t.inner # "plus"),
           computed |-> t.fn # "" /\ (t.outer # "" \/ t.inner = "plus")] : d \in ColumnsOf(t)}
<1>1. c \in UNION {Of(k) : k \in DOMAIN select.projections}
  BY Zenon DEF Candidates
<1>2. PICK k \in DOMAIN select.projections : c \in Of(k)
  <2> HIDE DEF Of
  <2> QED BY <1>1
<1>3. PICK d \in ColumnsOf(select.projections[k].term) :
        c = [column |-> d, place |-> k, kind |-> select.projections[k].term.fn,
             direct |-> select.projections[k].term.fn = "" \/ (Len(select.projections[k].term.columns) = 1 /\ select.projections[k].term.inner # "plus"),
             computed |-> select.projections[k].term.fn # "" /\ (select.projections[k].term.outer # "" \/ select.projections[k].term.inner = "plus")]
  BY <1>2, Zenon
<1>4. c.place = k /\ c.column = d /\ c.kind = select.projections[k].term.fn
  BY <1>3, Zenon
<1> QED BY <1>4, Zenon

(* An aggregate that is called direct has one column.                      *)
LEMMA CandidateDirect ==
  ASSUME NEW select, NEW c \in Candidates(select), c.direct
  PROVE  LET t == select.projections[c.place].term IN t.fn = "" \/ Len(t.columns) = 1
<1> DEFINE Of(k) == LET t == select.projections[k].term IN
         {[column |-> d, place |-> k, kind |-> t.fn,
           direct |-> t.fn = "" \/ (Len(t.columns) = 1 /\ t.inner # "plus"),
           computed |-> t.fn # "" /\ (t.outer # "" \/ t.inner = "plus")] : d \in ColumnsOf(t)}
<1>1. c \in UNION {Of(k) : k \in DOMAIN select.projections}
  BY Zenon DEF Candidates
<1>2. PICK k \in DOMAIN select.projections : c \in Of(k)
  <2> HIDE DEF Of
  <2> QED BY <1>1
<1>3. PICK d \in ColumnsOf(select.projections[k].term) :
        c = [column |-> d, place |-> k, kind |-> select.projections[k].term.fn,
             direct |-> select.projections[k].term.fn = "" \/ (Len(select.projections[k].term.columns) = 1 /\ select.projections[k].term.inner # "plus"),
             computed |-> select.projections[k].term.fn # "" /\ (select.projections[k].term.outer # "" \/ select.projections[k].term.inner = "plus")]
  BY <1>2, Zenon
<1>4. c.place = k /\ c.direct = (select.projections[k].term.fn = "" \/ (Len(select.projections[k].term.columns) = 1 /\ select.projections[k].term.inner # "plus"))
  BY <1>3, Zenon
<1> QED BY <1>4, Zenon

(* A list of one column is that column.                                    *)
LEMMA SoleColumn ==
  ASSUME NEW t, NEW S, t.columns \in Seq(S), Len(t.columns) = 1, NEW c \in ColumnsOf(t)
  PROVE  OnlyColumn(t, c)
<1>1. DOMAIN t.columns = {1} /\ t.columns = <<t.columns[1]>>
  OBVIOUS
<1>2. c = t.columns[1]
  BY <1>1 DEF ColumnsOf
<1> QED BY <1>1, <1>2 DEF OnlyColumn

(* The least of one number.                                                *)
LEMMA MinOfOne == ASSUME NEW k \in Nat PROVE Min({k}) = k
BY DEF Min

(* A column of a table, not an alias.                                      *)
OfTable(column) == column.table # ""

(* Where the first row is by the column, the key of the query is that      *)
(* column, by its name or by an alias.                                     *)
LEMMA OrderedByColumn ==
  ASSUME NEW select, WellFormed(select), NEW kind, NEW column, OfTable(column),
         OrderedExtreme(kind, column, select) = "matches"
  PROVE  /\ select.order # <<>> /\ select.limit.kind = "number" /\ select.limit.n = 1
         /\ FromTheEnd(select, kind)
         /\ OfRows(Keys(select)[1].term) /\ OnlyColumn(Keys(select)[1].term, column)
<1> DEFINE key == select.order[1]
           alias == {k \in DOMAIN select.projections :
                       /\ IsColumn(key.term) /\ key.term.columns[1].table = ""
                       /\ select.projections[k].alias = key.term.columns[1].name}
           renamed == IF Cardinality(alias) = 1 THEN {select.projections[k].term : k \in alias} ELSE {}
           behind == {t \in renamed : column \in ColumnsOf(t)}
<1>1. /\ select.order # <<>> /\ select.limit.kind = "number" /\ select.limit.n = 1
      /\ ~(\E t \in behind : ~IsColumn(t)) /\ ~(column \notin ColumnsOf(key.term) /\ behind = {})
      /\ IsColumn(key.term) /\ (key.desc <=> kind = "MAX")
  <2> HIDE DEF renamed
  <2> QED BY Zenon DEF OrderedExtreme, renamed
<1>2. Keys(select)[1].term = KeyTerm(select, key.term)
  <2>1. 1 \in DOMAIN select.order
    BY <1>1, Zenon DEF WellFormed
  <2>2. Keys(select)[1] = [term |-> KeyTerm(select, key.term), desc |-> key.desc]
    BY <2>1, Zenon DEF Keys
  <2> HIDE DEF key
  <2> QED BY <2>2
<1>3. ASSUME NEW t, IsColumn(t), column \in ColumnsOf(t), t.columns \in Seq([name : STRING, table : STRING])
      PROVE  OfRows(t) /\ OnlyColumn(t, column)
  <2>1. OfRows(t) /\ Len(t.columns) = 1
    BY <1>3, Zenon DEF IsColumn, OfRows
  <2> QED BY <1>3, <2>1, SoleColumn, Zenon
<1>4. KeyTerm(select, key.term) = IF alias = {} THEN key.term ELSE select.projections[Min(alias)].term
  BY Zenon DEF KeyTerm
<1>5. ASSUME behind # {}
      PROVE  OfRows(Keys(select)[1].term) /\ OnlyColumn(Keys(select)[1].term, column)
  <2>1. PICK t \in behind : TRUE
    BY <1>5
  <2>2. Cardinality(alias) = 1 /\ \E k \in alias : t = select.projections[k].term
    <3>1. t \in renamed
      BY <2>1, Zenon
    <3> HIDE DEF alias
    <3> QED BY <3>1, Zenon
  <2>3. PICK k \in alias : t = select.projections[k].term
    BY <2>2
  <2>4. alias = {k}
    <3>1. alias \subseteq DOMAIN select.projections
      BY Zenon
    <3> HIDE DEF alias
    <3>2. IsFiniteSet(alias)
      BY <3>1, FS_Subset DEF WellFormed
    <3>3. \E x : alias = {x}
      BY <2>2, <3>2, FS_Singleton
    <3> QED BY <2>3, <3>3
  <2>5. k \in Nat /\ t.columns \in Seq([name : STRING, table : STRING])
    <3>1. k \in DOMAIN select.projections
      BY <2>3, Zenon
    <3> HIDE DEF alias, behind
    <3> QED BY <2>3, <3>1 DEF WellFormed
  <2>6. KeyTerm(select, key.term) = t
    BY <1>4, <2>3, <2>4, <2>5, MinOfOne, Zenon
  <2>7. IsColumn(t) /\ column \in ColumnsOf(t)
    BY <1>1, <2>1, Zenon
  <2>8. Keys(select)[1].term = t
    BY <1>2, <2>6, Zenon
  <2>9. OfRows(t) /\ OnlyColumn(t, column)
    BY <1>3, <2>5, <2>7, Zenon
  <2> QED BY <2>8, <2>9, Zenon
<1>6. ASSUME behind = {}
      PROVE  OfRows(Keys(select)[1].term) /\ OnlyColumn(Keys(select)[1].term, column)
  <2>1. column \in ColumnsOf(key.term) /\ key.term.columns \in Seq([name : STRING, table : STRING])
    BY <1>1, <1>6, Zenon DEF WellFormed
  <2>2. alias = {}
    <3>1. OnlyColumn(key.term, column)
      BY <1>1, <1>3, <2>1, Zenon
    <3>2. key.term.columns[1] = column
      <4> HIDE DEF key
      <4> QED BY <3>1 DEF OnlyColumn
    <3> QED BY <3>2, Zenon DEF OfTable
  <2>3. Keys(select)[1].term = key.term
    BY <1>2, <1>4, <2>2, Zenon
  <2>4. OfRows(key.term) /\ OnlyColumn(key.term, column)
    BY <1>1, <1>3, <2>1, Zenon
  <2> QED BY <2>3, <2>4, Zenon
<1>7. FromTheEnd(select, kind)
  BY <1>1, Zenon DEF FromTheEnd
<1>8. select.order # <<>> /\ select.limit.kind = "number" /\ select.limit.n = 1
  BY <1>1, Zenon
<1>9. OfRows(Keys(select)[1].term) /\ OnlyColumn(Keys(select)[1].term, column)
  BY <1>5, <1>6, Zenon
<1> QED BY <1>7, <1>8, <1>9, Zenon

(* A request is for an average, a minimum or a maximum.                    *)
LEMMA CuesAskForKinds ==
  ASSUME NEW q, NEW cue \in AggregationCues(q)
  PROVE  cue.kind \in {"AVG", "MIN", "MAX"}
<1> DEFINE Cue(i) == [at |-> i, kind |-> KindOf(q[i]),
             count |-> Span(i + 1, i + 2) \in Occurrences(q, <<"number", "of">>),
             ratio |-> \E j \in (i + 1)..Len(q) : /\ q[j] \in {"per", "percentage", "ratio", "rate"}
                                                 /\ StartOf(q, j) - EndOf(q, i) <= 48]
<1>1. PICK i \in DOMAIN q : KindOf(q[i]) # "" /\ cue = Cue(i)
  BY Zenon DEF AggregationCues
<1>2. cue.kind = KindOf(q[i])
  BY <1>1, Zenon
<1>3. KindOf(q[i]) \in {"AVG", "MIN", "MAX"}
  BY <1>1, Zenon DEF KindOf
<1> QED BY <1>2, <1>3, Zenon

(* Only of the one column that the words name is anything decided, and     *)
(* only if no column that they name is withheld.                           *)
LEMMA DecidedRole ==
  ASSUME NEW q, NEW cue, NEW select, NEW suppressed,
         NEW f \in AggregationFinding(q, cue, select, suppressed), Supported(f) \/ Contradicted(f)
  PROVE  /\ ~cue.count /\ ~cue.ratio
         /\ ~\E d \in Candidates(select) : d.column.name \in suppressed /\ RoleAt(q, d.column.name, RoleSkipped) # {}
         /\ Cardinality(NearestRoles(q, cue.at, Candidates(select))) = 1
         /\ \E c \in NearestRoles(q, cue.at, Candidates(select)) :
              f = AggregationVerdict(q, cue, c, Candidates(select), select)
<1> DEFINE candidates == Candidates(select)
           roles == NearestRoles(q, cue.at, candidates)
           named == \E d \in candidates : d.column.name \in suppressed /\ RoleAt(q, d.column.name, RoleSkipped) # {}
           verdicts == {AggregationVerdict(q, cue, c, candidates, select) : c \in roles}
<1>1. ASSUME NEW reason, NEW target
      PROVE  /\ f # Finding(AggregationRule, "not_assessed", reason, target, cue.at, {})
             /\ f # Finding(AggregationRule, "unresolved", reason, target, cue.at, {})
  BY DEF Finding, Supported, Contradicted
<1>2. ~cue.count /\ ~cue.ratio /\ Cardinality(roles) = 1 /\ f \in verdicts /\ ~named
  <2> HIDE DEF roles, candidates
  <2>1. \A reason, target : /\ f \notin {Finding(AggregationRule, "not_assessed", reason, target, cue.at, {})}
                            /\ f \notin {Finding(AggregationRule, "unresolved", reason, target, cue.at, {})}
    BY <1>1, Zenon
  <2> QED BY <2>1, Zenon DEF AggregationFinding, roles, candidates
<1> QED BY <1>2, Zenon

(* The column that the words name is one of a projection.                  *)
LEMMA RoleIsProjected ==
  ASSUME NEW q, NEW at, NEW candidates, NEW c \in NearestRoles(q, at, candidates)
  PROVE  \E d \in candidates : d.column = c
BY Zenon DEF NearestRoles

(* An aggregate found where a verdict of support finds it is carried by    *)
(* every row.                                                              *)
LEMMA AggregateAnswers ==
  ASSUME NEW select, WellFormed(select), NEW kind \in {"AVG", "MIN", "MAX"}, NEW c, OfTable(c),
         NEW f, AggregateFound(f, kind, c, Candidates(select), select), Undisturbed(f, select),
         \E d \in Candidates(select) : d.column = c,
         NEW rows \in Tables, \A i \in DOMAIN rows : c \in DOMAIN rows[i]
  PROVE  Carries(select, [fn |-> kind, column |-> c], rows, Kept(select, rows))
<1> DEFINE ask == [fn |-> kind, column |-> c]
           bound == {d \in Candidates(select) : d.column = c}
<1>1. f.locs = {d.place : d \in bound}
  BY Zenon DEF AggregateFound
<1>2. select.offset = 0 /\ (select.limit.kind = "none" \/ (select.limit.kind = "number" /\ select.limit.n > 0))
  BY Zenon DEF Undisturbed
<1>3. select.limit.n \in Nat
  BY Zenon DEF WellFormed
<1>4. IsFiniteSet(DOMAIN rows)
  BY TablesAssumption
<1>5. ask.fn = kind /\ ask.column = c
  OBVIOUS
<1>6. ASSUME NEW d \in bound, Len(select.projections[d.place].term.columns) = 1
      PROVE  d.place \in DOMAIN select.projections /\ OnlyColumn(select.projections[d.place].term, c)
  <2>1. d \in Candidates(select) /\ d.column = c
    BY <1>6, Zenon
  <2>2. d.place \in DOMAIN select.projections /\ c \in ColumnsOf(select.projections[d.place].term)
    BY <2>1, CandidatePlace, Zenon
  <2>3. select.projections[d.place].term.columns \in Seq([name : STRING, table : STRING])
    BY <2>2, Zenon DEF WellFormed
  <2> QED BY <1>6, <2>2, <2>3, SoleColumn, Zenon
<1>7. CASE Projects(Candidates(select), c, kind)
  <2>1. PICK d \in bound : d.kind = kind /\ d.direct
    BY <1>7, Zenon DEF Projects
  <2>2. d.place \in DOMAIN select.projections /\ d.kind = select.projections[d.place].term.fn
    BY <2>1, CandidatePlace, Zenon
  <2>3. ~OfRows(select.projections[d.place].term) /\ select.projections[d.place].term.fn = kind
    BY <2>1, <2>2, Zenon DEF OfRows
  <2>4. Len(select.projections[d.place].term.columns) = 1
    BY <2>1, <2>3, CandidateDirect, Zenon DEF OfRows
  <2>5. OnlyColumn(select.projections[d.place].term, c)
    BY <1>6, <2>4
  <2>6. \A k \in DOMAIN select.projections :
           ~OfRows(select.projections[k].term) /\ select.projections[k].term.fn = kind /\ OnlyColumn(select.projections[k].term, c)
             => Carries(select, ask, rows, Kept(select, rows))
    <3> HIDE DEF ask
    <3> QED BY <1>2, <1>3, <1>4, <1>5, ProjectedCarries, Zenon DEF OfRows, OnlyColumn
  <2> QED BY <2>2, <2>3, <2>5, <2>6, Zenon
<1>8. CASE f.reason = "ordered extreme" /\ kind # "AVG" /\ OrderedExtreme(kind, c, select) = "matches"
  <2>1. PICK d \in bound : TRUE
    BY Zenon
  <2>2. ~Aggregates(select) /\ select.group = <<>> /\ Len(select.projections[d.place].term.columns) = 1
    BY <1>1, <1>8, <2>1, Zenon DEF Undisturbed
  <2>3. d.place \in DOMAIN select.projections /\ OnlyColumn(select.projections[d.place].term, c)
    BY <1>6, <2>2
  <2>4. /\ select.order # <<>> /\ select.limit.kind = "number" /\ select.limit.n = 1
        /\ FromTheEnd(select, kind)
        /\ OfRows(Keys(select)[1].term) /\ OnlyColumn(Keys(select)[1].term, c)
    BY <1>8, OrderedByColumn, Zenon
  <2>5. RowFirst(select, c)
    BY <1>2, <2>2, <2>4, Zenon DEF RowFirst, WellFormed
  <2>6. kind \in {"MIN", "MAX"}
    BY <1>8
  <2> HIDE DEF ask, bound
  <2> QED BY <1>5, <2>3, <2>4, <2>5, <2>6, OrderedCarries
<1> QED BY <1>7, <1>8, Zenon DEF AggregateFound

(* So a request called supported, of a query that nothing disturbs, is     *)
(* answered on every table.                                                *)
LEMMA AggregationVerdictRight ==
  ASSUME AggregatesMeant(item), \E family \in Families : item \in family, NEW suppressed,
         NEW f \in AggregationFindings(item.q, item.select, suppressed), Supported(f),
         Undisturbed(f, item.select)
  PROVE  \E a \in item.asks :
           /\ \E k \in f.locs : a.column \in ColumnsOf(item.select.projections[k].term)
           /\ \A rows \in Tables : Carries(item.select, a, rows, Kept(item.select, rows))
<1> DEFINE select == item.select
           candidates == Candidates(select)
<1>1. PICK cue \in AggregationCues(item.q) : f \in AggregationFinding(item.q, cue, select, suppressed)
  BY Zenon DEF AggregationFindings
<1>2. PICK c \in NearestRoles(item.q, cue.at, candidates) :
        /\ ~cue.count /\ ~cue.ratio /\ Cardinality(NearestRoles(item.q, cue.at, candidates)) = 1
        /\ f = AggregationVerdict(item.q, cue, c, candidates, select)
  <2>1. /\ ~cue.count /\ ~cue.ratio /\ Cardinality(NearestRoles(item.q, cue.at, candidates)) = 1
        /\ \E c \in NearestRoles(item.q, cue.at, candidates) : f = AggregationVerdict(item.q, cue, c, candidates, select)
    BY <1>1, DecidedRole
  <2> HIDE DEF candidates, select
  <2> QED BY <2>1
<1> DEFINE ask == [fn |-> cue.kind, column |-> c]
<1>3. ask \in item.asks /\ OfTable(c) /\ \A rows \in Tables : \A i \in DOMAIN rows : c \in DOMAIN rows[i]
  BY <1>1, <1>2, Zenon DEF AggregatesMeant, OfTable
<1>4. AggregateFound(f, cue.kind, c, candidates, select)
  BY <1>2, SupportedVerdict, Zenon
<1>5. PICK d \in candidates : d.column = c
  BY <1>2, RoleIsProjected
<1>6. d.place \in f.locs /\ c \in ColumnsOf(select.projections[d.place].term)
  BY <1>4, <1>5, CandidatePlace, Zenon DEF AggregateFound
<1>7. cue.kind \in {"AVG", "MIN", "MAX"} /\ WellFormed(select)
  BY <1>1, CuesAskForKinds, SelectsAreWellFormed, Zenon
<1>8. ASSUME NEW rows \in Tables PROVE Carries(select, ask, rows, Kept(select, rows))
  BY <1>3, <1>4, <1>5, <1>7, AggregateAnswers, Zenon
<1>9. ask.column = c
  OBVIOUS
<1> HIDE DEF ask
<1> QED BY <1>3, <1>6, <1>8, <1>9, Zenon

(* Where the words ask for the aggregate of the column that the rule binds *)
(* them to, a query that is called a right answer, and that nothing the    *)
(* rule overlooks disturbs, carries that aggregate in every row it returns *)
(* of every table.                                                         *)
THEOREM SupportedAggregatesTheorem ==
  Spec => [](AggregatesMeant(item) =>
               \A f \in findings : f.rule = AggregationRule /\ Supported(f) /\ Undisturbed(f, item.select) =>
                 \E a \in item.asks :
                   /\ \E k \in f.locs : a.column \in ColumnsOf(item.select.projections[k].term)
                   /\ \A rows \in Tables : Carries(item.select, a, rows, Kept(item.select, rows)))
<1>1. EveryFindingOfItsRule => (AggregatesMeant(item) =>
        \A f \in findings : f.rule = AggregationRule /\ Supported(f) /\ Undisturbed(f, item.select) =>
          \E a \in item.asks :
            /\ \E k \in f.locs : a.column \in ColumnsOf(item.select.projections[k].term)
            /\ \A rows \in Tables : Carries(item.select, a, rows, Kept(item.select, rows)))
  BY AggregationVerdictRight, Zenon DEF EveryFindingOfItsRule
<1> QED BY <1>1, OriginTheorem, PTL

---------------------------------------------------------------------------
(* What one rule says reaches another: a substituted aggregate is reported *)
(* by the literal rule only.                                               *)
Elsewhere(f) == f.reason # "aggregate substituted"

(* It is told by the reason given.                                         *)
LEMMA ReasonsElsewhere ==
  ASSUME NEW reason, reason # "aggregate substituted"
  PROVE  /\ \A cue, status, target, mentions, op, value :
              Elsewhere(AboutCue(cue, status, reason, target, mentions, op, value))
         /\ \A rule, status, target, at, locs : Elsewhere(Finding(rule, status, reason, target, at, locs))
BY DEF AboutCue, Finding, Elsewhere

(* So says no finding about a cue.                                         *)
LEMMA BoundElsewhere ==
  ASSUME NEW cue, NEW m, NEW evidence PROVE Elsewhere(BoundVerdict(cue, m, evidence))
<1> DEFINE f == BoundVerdict(cue, m, evidence)
           Reasons == {"boolean context", "ordinal polarity", "sql negation", "realization",
                       "evidence convention", "evidence against question", "boundary"}
<1>1. \E reason \in Reasons : \E status, target, op, value : f = AboutCue(cue, status, reason, target, {m}, op, value)
  BY Zenon DEF BoundVerdict
<1>2. \A reason \in Reasons : reason # "aggregate substituted"
  OBVIOUS
<1> HIDE DEF Reasons, f
<1> QED BY <1>1, <1>2, ReasonsElsewhere DEF f

(* And no finding on a boundary, competing or not.                         *)
LEMMA BoundaryElsewhere ==
  ASSUME NEW q, NEW where, NEW evidence, NEW f \in BoundaryFindings(q, where, evidence)
  PROVE  Elsewhere(f)
<1> DEFINE mentions == ValueMentions(q, BoundaryCandidates(where))
           singles == Singles(q, mentions, evidence)
<1>1. ASSUME NEW g \in singles PROVE Elsewhere(g)
  <2>1. PICK cue \in BoundaryCues(q) : g \in SingleFindings(q, cue, mentions, evidence)
    BY DEF Singles
  <2>2. \/ \E nearest : g = AboutCue(cue, "not_assessed", "negation", "mapping", nearest, "", "")
        \/ \E near, value : g = AboutCue(cue, "unresolved", "role", "mapping", near, cue.op, value)
        \/ \E m : g = BoundVerdict(cue, m, evidence)
    BY <2>1, Zenon DEF SingleFindings
  <2>3. ASSUME NEW nearest, NEW value, NEW op,
               \/ g = AboutCue(cue, "not_assessed", "negation", "mapping", nearest, op, value)
               \/ g = AboutCue(cue, "unresolved", "role", "mapping", nearest, op, value)
        PROVE  Elsewhere(g)
    BY <2>3, ReasonsElsewhere
  <2> QED BY <2>2, <2>3, BoundElsewhere, Zenon
<1>2. CASE f \in Demoted(singles)
  <2>1. PICK g \in singles : f = IF \E h \in singles : Compete(g, h)
                                 THEN [g EXCEPT !.status = "unresolved", !.reason = "role", !.target = "mapping"]
                                 ELSE g
    BY <1>2, Zenon DEF Demoted
  <2>2. OfCue(g)
    <3>1. PICK cue \in BoundaryCues(q) : g \in SingleFindings(q, cue, mentions, evidence)
      BY DEF Singles
    <3> QED BY <3>1, SingleCases, Zenon
  <2>3. [g EXCEPT !.status = "unresolved", !.reason = "role", !.target = "mapping"].reason = "role"
    BY <2>2, Zenon DEF OfCue, AboutCue
  <2>4. f.reason = "role" \/ f = g
    BY <2>1, <2>3, Zenon
  <2> QED BY <1>1, <2>4 DEF Elsewhere
<1>3. CASE f \in RangeFindings(q, mentions)
  <2>1. ASSUME NEW at, NEW low, NEW high PROVE Elsewhere(RangeVerdict(at, low, high))
    <3> DEFINE Says(status, reason, target) == Finding(BoundaryRule, status, reason, target, at, {low.loc, high.loc})
    <3>1. \E status, target : RangeVerdict(at, low, high) \in
            {Says(status, reason, target) : reason \in {"range boolean", "sql negation", "range realization", "range"}}
      BY Zenon DEF RangeVerdict
    <3>2. ASSUME NEW status, NEW target, NEW reason \in {"range boolean", "sql negation", "range realization", "range"}
          PROVE  Elsewhere(Says(status, reason, target))
      BY ReasonsElsewhere
    <3> HIDE DEF Says
    <3> QED BY <3>1, <3>2
  <2>2. ASSUME NEW spec, NEW at, NEW e PROVE Elsewhere(RangeFinding(q, spec, at, e, mentions))
    <3> DEFINE Open(status, reason, locs) == Finding(BoundaryRule, status, reason, "mapping", at, locs)
    <3>1. \/ \E p : RangeFinding(q, spec, at, e, mentions) = RangeVerdict(at, p[1], p[2])
          \/ \E status, locs : RangeFinding(q, spec, at, e, mentions) \in
               {Open(status, reason, locs) : reason \in {"range negation", "range modifier", "range role"}}
      BY Zenon DEF RangeFinding
    <3>2. ASSUME NEW status, NEW locs, NEW reason \in {"range negation", "range modifier", "range role"}
          PROVE  Elsewhere(Open(status, reason, locs))
      BY ReasonsElsewhere
    <3> HIDE DEF Open, mentions
    <3> QED BY <2>1, <3>1, <3>2
  <2>3. \E spec, at, e : f = RangeFinding(q, spec, at, e, mentions)
    <3> DEFINE Of(spec, s) == {RangeFinding(q, spec, s.from, e, mentions) : e \in Ends(q, spec, s.from, mentions)}
    <3>1. f \in UNION {UNION {Of(spec, s) : s \in RangeOpeners(q, spec)} : spec \in RangeSpecs}
      BY <1>3, Zenon DEF RangeFindings, RangeOpeners
    <3>2. PICK spec \in RangeSpecs : f \in UNION {Of(spec, s) : s \in RangeOpeners(q, spec)}
      <4> HIDE DEF Of
      <4> QED BY <3>1
    <3>3. PICK s \in RangeOpeners(q, spec) : f \in Of(spec, s)
      <4> HIDE DEF Of
      <4> QED BY <3>2
    <3> QED BY <3>3, Zenon
  <2> HIDE DEF mentions
  <2> QED BY <2>2, <2>3
<1>4. f \in RangeFindings(q, mentions) \/ f \in Demoted(singles)
  <2> HIDE DEF singles, mentions
  <2>1. f \in IF BoundaryCandidates(where) = {} THEN {} ELSE RangeFindings(q, mentions) \cup Demoted(singles)
    BY Zenon DEF BoundaryFindings, singles, mentions, Singles
  <2> QED BY <2>1
<1> QED BY <1>2, <1>3, <1>4

(* Nor a finding on a text match.                                          *)
LEMMA StringElsewhere ==
  ASSUME NEW q, NEW likes, NEW dialect, NEW f \in StringFindings(q, likes, dialect)
  PROVE  Elsewhere(f)
<1> DEFINE obligations == LikeObligations(likes, dialect)
           Reasons == {"scope", "boolean", "sql negation", "question negation", "word boundary",
                       "question boolean", "polarity", "mode", "match"}
<1>1. PICK cue \in MatchCues(q) : f \in MatchFindings(q, cue, obligations)
  BY Zenon DEF StringFindings
<1>2. ASSUME NEW o \in obligations PROVE o.issue # "aggregate substituted"
  <2>1. PICK i \in DOMAIN likes : o = LikeObligation(i, likes[i], dialect)
    BY Zenon DEF LikeObligations
  <2>2. o.issue = Issue(likes[i], dialect)
    BY <2>1, ObligationFields
  <2>3. Issue(likes[i], dialect) # "aggregate substituted"
    BY Zenon DEF Issue
  <2> QED BY <2>2, <2>3, Zenon
<1>3. ASSUME NEW b \in Bindings(q, cue, obligations) PROVE b.obligation \in obligations
  <2> HIDE DEF obligations
  <2>1. PICK o \in obligations : b = [obligation |-> o, span |-> FirstSpan(ValueSpans(q, cue, o.payload))]
    BY Zenon DEF Bindings
  <2> QED BY <2>1
<1>4. ASSUME NEW o, NEW reason, reason # "aggregate substituted"
      PROVE  Elsewhere(UnreadableFinding(cue, o, reason)) /\ \A status : Elsewhere(MatchFinding(cue, o, status, reason))
  BY <1>4, ReasonsElsewhere, Zenon DEF UnreadableFinding, MatchFinding
<1>5. ASSUME NEW b \in Bindings(q, cue, obligations) PROVE Elsewhere(MatchVerdict(q, cue, b))
  <2> DEFINE v == MatchVerdict(q, cue, b)
             o == b.obligation
  <2>1. \/ v = UnreadableFinding(cue, o, o.issue)
        \/ v = UnreadableFinding(cue, o, "scope") \/ v = UnreadableFinding(cue, o, "boolean")
        \/ v = UnreadableFinding(cue, o, "sql negation") \/ v = UnreadableFinding(cue, o, "question negation")
        \/ v = UnreadableFinding(cue, o, "word boundary") \/ v = UnreadableFinding(cue, o, "question boolean")
        \/ v = MatchFinding(cue, o, "contradicted", "polarity") \/ v = MatchFinding(cue, o, "contradicted", "mode")
        \/ v = MatchFinding(cue, o, "supported", "match")
    <3> HIDE DEF obligations
    <3> QED BY Zenon DEF MatchVerdict
  <2>2. ASSUME NEW reason \in Reasons
        PROVE  Elsewhere(UnreadableFinding(cue, o, reason)) /\ \A status : Elsewhere(MatchFinding(cue, o, status, reason))
    <3>1. reason # "aggregate substituted"
      OBVIOUS
    <3> QED BY <1>4, <3>1
  <2>3. Elsewhere(UnreadableFinding(cue, o, o.issue))
    BY <1>2, <1>3, <1>4
  <2>4. /\ "scope" \in Reasons /\ "boolean" \in Reasons /\ "sql negation" \in Reasons
        /\ "question negation" \in Reasons /\ "word boundary" \in Reasons /\ "question boolean" \in Reasons
        /\ "polarity" \in Reasons /\ "mode" \in Reasons /\ "match" \in Reasons
    OBVIOUS
  <2> HIDE DEF v, Reasons, obligations, o
  <2>5. Elsewhere(v)
    BY <2>1, <2>2, <2>3, <2>4
  <2> QED BY <2>5 DEF v
<1>6. \/ \E b \in Bindings(q, cue, obligations) : f = MatchVerdict(q, cue, b)
      \/ \E o \in obligations : f = UnreadableFinding(cue, o, o.issue)
      \/ \E locs : f = Finding(StringRule, "unresolved", "role", "mapping", cue.span.from, locs)
  <2> DEFINE bindings == Bindings(q, cue, obligations)
             bound == BestBound(q, cue, bindings)
             only == IF bindings = {} THEN obligations ELSE {b.obligation : b \in bindings}
  <2>1. bound \subseteq bindings
    BY Zenon DEF BestBound
  <2>2. only \subseteq obligations
    <3> HIDE DEF obligations, bindings
    <3> QED BY <1>3 DEF bindings
  <2>3. \/ f \in {MatchVerdict(q, cue, b) : b \in bound}
        \/ f \in {UnreadableFinding(cue, o, o.issue) : o \in {o \in only : o.issue # ""}}
        \/ f \in {Finding(StringRule, "unresolved", "role", "mapping", cue.span.from,
                          {b.obligation.loc : b \in bindings})}
    <3> HIDE DEF obligations
    <3> QED BY <1>1, Zenon DEF MatchFindings, bindings, bound, only
  <2> HIDE DEF obligations, bindings, bound, only
  <2>4. ASSUME f \in {UnreadableFinding(cue, o, o.issue) : o \in {o \in only : o.issue # ""}}
        PROVE  \E o \in obligations : f = UnreadableFinding(cue, o, o.issue)
    BY <2>2, <2>4, Zenon
  <2>5. ASSUME f \in {MatchVerdict(q, cue, b) : b \in bound}
        PROVE  \E b \in bindings : f = MatchVerdict(q, cue, b)
    BY <2>1, <2>5, Zenon
  <2> QED BY <2>3, <2>4, <2>5, Zenon DEF bindings
<1>7. ASSUME NEW o \in obligations, f = UnreadableFinding(cue, o, o.issue) PROVE Elsewhere(f)
  BY <1>2, <1>4, <1>7, Zenon DEF Elsewhere
<1>8. ASSUME NEW locs, f = Finding(StringRule, "unresolved", "role", "mapping", cue.span.from, locs)
      PROVE  Elsewhere(f)
  BY <1>8 DEF Finding, Elsewhere
<1> HIDE DEF obligations
<1> QED BY <1>5, <1>6, <1>7, <1>8, Zenon

---------------------------------------------------------------------------
(* What each rule makes of an item, if it is selected; the aggregation     *)
(* rule, of the columns that the literal rule did not report.              *)
LiteralMade(it) ==
  IF LiteralRule \in it.rules
  THEN LiteralFindings(it.q, it.marks, it.where, it.select, it.context) ELSE {}
BoundaryMade(it) ==
  IF BoundaryRule \in it.rules THEN BoundaryFindings(it.q, it.where, it.evidence) ELSE {}
StringMade(it) ==
  IF StringRule \in it.rules THEN StringFindings(it.q, it.likes, it.dialect) ELSE {}
Substituted(F) == UNION {f.locs : f \in {f \in F : f.reason = "aggregate substituted"}}
Withheld(it) == {it.where[i].column : i \in Substituted(LiteralMade(it))}
AggregationMade(it) ==
  IF AggregationRule \in it.rules THEN AggregationFindings(it.q, it.select, Withheld(it)) ELSE {}
TopKMade(it) ==
  IF TopKRule \in it.rules THEN TopKFindings(it.q, it.select, it.conventions) ELSE {}

(* Rule by rule, the findings are exactly what the rules so far make.      *)
MadeSoFar ==
  \/ stage = LiteralRule /\ findings = {}
  \/ stage = BoundaryRule /\ findings = LiteralMade(item)
  \/ stage = StringRule /\ findings = LiteralMade(item) \cup BoundaryMade(item)
  \/ stage = AggregationRule /\ findings = LiteralMade(item) \cup BoundaryMade(item) \cup StringMade(item)
  \/ /\ stage = TopKRule
     /\ findings = LiteralMade(item) \cup BoundaryMade(item) \cup StringMade(item) \cup AggregationMade(item)
  \/ /\ stage = "done"
     /\ findings = LiteralMade(item) \cup BoundaryMade(item) \cup StringMade(item) \cup AggregationMade(item)
                     \cup TopKMade(item)

(* The rules between the two say nothing of a substituted aggregate.       *)
LEMMA OnlyLiteralSubstitutes ==
  ASSUME NEW it
  PROVE  Substituted(LiteralMade(it) \cup BoundaryMade(it) \cup StringMade(it)) = Substituted(LiteralMade(it))
<1>1. \A f \in BoundaryMade(it) : f.reason # "aggregate substituted"
  BY BoundaryElsewhere, Zenon DEF BoundaryMade, Elsewhere
<1>2. \A f \in StringMade(it) : f.reason # "aggregate substituted"
  BY StringElsewhere, Zenon DEF StringMade, Elsewhere
<1> QED BY <1>1, <1>2 DEF Substituted

(* Nothing is found before the first rule.                                 *)
LEMMA MadeInit == Init => MadeSoFar
BY DEF Init, MadeSoFar

(* Every rule adds what it makes of the item, and nothing else.            *)
LEMMA MadeStep == MadeSoFar /\ [Next]_vars => MadeSoFar'
<1> SUFFICES ASSUME MadeSoFar, [Next]_vars PROVE MadeSoFar'
  OBVIOUS
<1> USE DEF Run
<1>1. CASE UNCHANGED vars
  BY <1>1 DEF vars, MadeSoFar, LiteralMade, BoundaryMade, StringMade, AggregationMade, TopKMade, Withheld
<1>2. CASE RunLiteral
  <2>1. stage = LiteralRule /\ findings = {}
    BY <1>2, RuleNames DEF RunLiteral, MadeSoFar
  <2>2. findings' = LiteralMade(item) /\ stage' = BoundaryRule /\ item' = item
    BY <1>2, <2>1 DEF RunLiteral, LiteralMade
  <2> QED BY <2>2, Zenon DEF MadeSoFar
<1>3. CASE RunBoundary
  <2>1. findings = LiteralMade(item)
    BY <1>3, RuleNames DEF RunBoundary, MadeSoFar
  <2>2. findings' = LiteralMade(item) \cup BoundaryMade(item) /\ stage' = StringRule /\ item' = item
    BY <1>3, <2>1, Zenon DEF RunBoundary, BoundaryMade
  <2> QED BY <2>2, Zenon DEF MadeSoFar
<1>4. CASE RunString
  <2>1. findings = LiteralMade(item) \cup BoundaryMade(item)
    BY <1>4, RuleNames DEF RunString, MadeSoFar
  <2>2. /\ findings' = LiteralMade(item) \cup BoundaryMade(item) \cup StringMade(item)
        /\ stage' = AggregationRule /\ item' = item
    BY <1>4, <2>1, Zenon DEF RunString, StringMade
  <2> QED BY <2>2, Zenon DEF MadeSoFar
<1>5. CASE RunAggregation
  <2>1. findings = LiteralMade(item) \cup BoundaryMade(item) \cup StringMade(item)
    BY <1>5, RuleNames DEF RunAggregation, MadeSoFar
  <2>2. Substituted(findings) = Substituted(LiteralMade(item))
    BY <2>1, OnlyLiteralSubstitutes, Zenon
  <2>3. /\ findings' = findings \cup IF AggregationRule \in item.rules
                                     THEN AggregationFindings(item.q, item.select, {item.where[i].column : i \in Substituted(findings)})
                                     ELSE {}
        /\ stage' = TopKRule /\ item' = item
    BY <1>5, Zenon DEF RunAggregation, Substituted
  <2>4. findings' = findings \cup AggregationMade(item)
    BY <2>2, <2>3, Zenon DEF AggregationMade, Withheld
  <2> QED BY <2>1, <2>3, <2>4, Zenon DEF MadeSoFar
<1>6. CASE RunTopK
  <2>1. findings = LiteralMade(item) \cup BoundaryMade(item) \cup StringMade(item) \cup AggregationMade(item)
    BY <1>6, RuleNames DEF RunTopK, MadeSoFar
  <2>2. findings' = findings \cup TopKMade(item) /\ stage' = "done" /\ item' = item
    BY <1>6, Zenon DEF RunTopK, TopKMade
  <2> QED BY <2>1, <2>2, Zenon DEF MadeSoFar
<1> QED BY <1>1, <1>2, <1>3, <1>4, <1>5, <1>6 DEF Next

(* At the end the findings are exactly what the selected rules make of the *)
(* item: none is lost, and what one rule withholds from another depends on *)
(* the item and the selection alone.                                       *)
THEOREM FindingsTheorem ==
  Spec => [](stage = "done" =>
               findings = LiteralMade(item) \cup BoundaryMade(item) \cup StringMade(item)
                            \cup AggregationMade(item) \cup TopKMade(item))
<1>1. MadeSoFar => (stage = "done" =>
        findings = LiteralMade(item) \cup BoundaryMade(item) \cup StringMade(item)
                     \cup AggregationMade(item) \cup TopKMade(item))
  BY RuleNames DEF MadeSoFar
<1> QED BY <1>1, MadeInit, MadeStep, PTL DEF Spec

---------------------------------------------------------------------------
(* What two rules, or two verdicts of one rule, may not say together. An   *)
(* aggregation verdict is of the projections that hold the column.         *)
LEMMA VerdictPlaces ==
  ASSUME NEW q, NEW cue, NEW column, NEW candidates, NEW select
  PROVE  AggregationVerdict(q, cue, column, candidates, select).locs =
           {c.place : c \in {c \in candidates : c.column = column}}
<1> DEFINE f == AggregationVerdict(q, cue, column, candidates, select)
           locs == {c.place : c \in {c \in candidates : c.column = column}}
<1>1. \E status, reason, target : f = Finding(AggregationRule, status, reason, target, cue.at, locs)
  BY Zenon DEF AggregationVerdict
<1> HIDE DEF f, locs
<1>2. f.locs = locs
  BY <1>1, FindingFields
<1> QED BY <1>2 DEF f, locs

(* Every column of a projection is a candidate at its place.               *)
HasCandidate(select, c, k) == \E d \in Candidates(select) : d.column = c /\ d.place = k

LEMMA ColumnsAreCandidates ==
  ASSUME NEW select, NEW k \in DOMAIN select.projections, NEW c \in ColumnsOf(select.projections[k].term)
  PROVE  HasCandidate(select, c, k)
<1> DEFINE Candidate(n, e) ==
             [column |-> e, place |-> n, kind |-> select.projections[n].term.fn,
              direct |-> select.projections[n].term.fn = "" \/ (Len(select.projections[n].term.columns) = 1 /\ select.projections[n].term.inner # "plus"),
              computed |-> select.projections[n].term.fn # "" /\ (select.projections[n].term.outer # "" \/ select.projections[n].term.inner = "plus")]
           Of(n) == {Candidate(n, e) : e \in ColumnsOf(select.projections[n].term)}
<1>1. Candidates(select) = UNION {Of(n) : n \in DOMAIN select.projections}
  BY Zenon DEF Candidates
<1>2. Candidate(k, c).column = c /\ Candidate(k, c).place = k
  BY Zenon
<1> HIDE DEF Candidate
<1>3. Candidate(k, c) \in Of(k)
  OBVIOUS
<1> HIDE DEF Of
<1> QED BY <1>1, <1>2, <1>3 DEF HasCandidate

(* A column that is nearest after the cue is named by the question.        *)
LEMMA NearestIsNamed ==
  ASSUME NEW q, NEW at, NEW candidates, NEW c \in NearestRoles(q, at, candidates)
  PROVE  RoleAt(q, c.name, RoleSkipped) # {}
<1>1. PICK d \in candidates : d.column = c /\ RoleDistance(q, at, d.column.name) # NotFound
  BY Zenon DEF NearestRoles
<1>2. RoleDistance(q, at, c.name) # 65
  BY <1>1 DEF NotFound
<1>3. ASSUME RoleAt(q, c.name, RoleSkipped) = {} PROVE RoleDistance(q, at, c.name) = 65
  <2>1. RoleDistance(q, at, c.name) = Min({65})
    BY <1>3 DEF RoleDistance
  <2> QED BY <2>1, MinOfOne
<1> QED BY <1>2, <1>3

(* The projected columns that the question names.                          *)
Judged(f) == Supported(f) \/ Contradicted(f)
NamedColumns(it, k) ==
  {c \in ColumnsOf(it.select.projections[k].term) : RoleAt(it.q, c.name, RoleSkipped) # {}}

(* The aggregation rule decides nothing of a column that the question      *)
(* names and that is withheld from it.                                     *)
LEMMA WithheldNotJudged ==
  ASSUME NEW it, NEW g \in AggregationFindings(it.q, it.select, Withheld(it)), Judged(g)
  PROVE  \A k \in g.locs :
           /\ NamedColumns(it, k) # {}
           /\ \A c \in NamedColumns(it, k) : c.name \notin Withheld(it)
<1> DEFINE select == it.select
           candidates == Candidates(select)
           suppressed == Withheld(it)
<1> HIDE DEF suppressed
<1>1. PICK cue \in AggregationCues(it.q) : g \in AggregationFinding(it.q, cue, select, suppressed)
  BY Zenon DEF AggregationFindings, suppressed
<1>2. /\ ~\E d \in candidates : d.column.name \in suppressed /\ RoleAt(it.q, d.column.name, RoleSkipped) # {}
      /\ \E c \in NearestRoles(it.q, cue.at, candidates) : g = AggregationVerdict(it.q, cue, c, candidates, select)
  BY <1>1, DecidedRole DEF Judged
<1>3. PICK c \in NearestRoles(it.q, cue.at, candidates) : g = AggregationVerdict(it.q, cue, c, candidates, select)
  BY <1>2, Zenon
<1>4. ASSUME NEW k \in g.locs
      PROVE  k \in DOMAIN select.projections /\ c \in ColumnsOf(select.projections[k].term)
  <2>1. g.locs = {d.place : d \in {d \in candidates : d.column = c}}
    <3>1. AggregationVerdict(it.q, cue, c, candidates, select).locs = {d.place : d \in {d \in candidates : d.column = c}}
      BY VerdictPlaces
    <3> HIDE DEF candidates, select
    <3> QED BY <1>3, <3>1
  <2>2. PICK d \in candidates : d.column = c /\ d.place = k
    <3> HIDE DEF candidates
    <3> QED BY <2>1
  <2> QED BY <2>2, CandidatePlace, Zenon
<1>5. ASSUME NEW k \in g.locs PROVE c \in NamedColumns(it, k)
  BY <1>4, NearestIsNamed, Zenon DEF NamedColumns
<1>6. ASSUME NEW k \in g.locs, NEW d \in NamedColumns(it, k) PROVE d.name \notin suppressed
  <2>1. d \in ColumnsOf(select.projections[k].term) /\ RoleAt(it.q, d.name, RoleSkipped) # {}
    BY Zenon DEF NamedColumns
  <2>2. PICK e \in candidates : e.column = d
    <3>1. k \in DOMAIN select.projections /\ d \in ColumnsOf(select.projections[k].term)
      BY <1>4, <2>1
    <3>2. \E e \in Candidates(select) : e.column = d /\ e.place = k
      BY <3>1, ColumnsAreCandidates DEF HasCandidate
    <3> QED BY <3>2, Zenon
  <2> QED BY <1>2, <2>1, <2>2, Zenon
<1> QED BY <1>5, <1>6 DEF suppressed

(* The columns that an aggregation verdict may be about are never the      *)
(* column of a literal that the literal rule reports to stand in the place *)
(* of an aggregate: no column is contradicted once as a constant and       *)
(* judged again as an aggregate.                                           *)
SubstitutedNotJudged ==
  \A f, g \in findings :
    f.rule = LiteralRule /\ f.reason = "aggregate substituted" /\ g.rule = AggregationRule /\ Judged(g) =>
      \A k \in g.locs :
        /\ NamedColumns(item, k) # {}
        /\ \A c \in NamedColumns(item, k), i \in f.locs : item.where[i].column # c.name

(* What a rule makes bears its name.                                       *)
LEMMA MadeAreOfRule ==
  ASSUME NEW it
  PROVE  /\ \A f \in LiteralMade(it) : f.rule = LiteralRule
         /\ \A f \in BoundaryMade(it) : f.rule = BoundaryRule
         /\ \A f \in StringMade(it) : f.rule = StringRule
         /\ \A f \in AggregationMade(it) : f.rule = AggregationRule
         /\ \A f \in TopKMade(it) : f.rule = TopKRule
<1>1. \A f \in LiteralMade(it) : f.rule = LiteralRule
  <2> SUFFICES ASSUME NEW f \in LiteralMade(it) PROVE f.rule = LiteralRule
    OBVIOUS
  <2>1. f \in LiteralFindings(it.q, it.marks, it.where, it.select, it.context)
    BY DEF LiteralMade
  <2> QED BY <2>1, LiteralFindingsAreOfIt
<1>2. \A f \in BoundaryMade(it) : f.rule = BoundaryRule
  BY BoundaryCases, Zenon DEF BoundaryMade
<1>3. \A f \in StringMade(it) : f.rule = StringRule
  BY StringCases, Zenon DEF StringMade
<1>4. \A f \in AggregationMade(it) : f.rule = AggregationRule
  BY AggregationCases, Zenon DEF AggregationMade
<1>5. \A f \in TopKMade(it) : f.rule = TopKRule
  BY TopKCases, Zenon DEF TopKMade
<1> QED BY <1>1, <1>2, <1>3, <1>4, <1>5

(* Each rule's findings are what it makes of the item.                     *)
LEMMA MadeByRule ==
  ASSUME MadeSoFar, NEW f \in findings
  PROVE  /\ f.rule = LiteralRule => f \in LiteralMade(item)
         /\ f.rule = AggregationRule => f \in AggregationMade(item)
         /\ f \in LiteralMade(item) \cup BoundaryMade(item) \cup StringMade(item) \cup AggregationMade(item)
                    \cup TopKMade(item)
<1>1. f \in LiteralMade(item) \cup BoundaryMade(item) \cup StringMade(item) \cup AggregationMade(item) \cup TopKMade(item)
  BY DEF MadeSoFar
<1> QED BY <1>1, MadeAreOfRule, RuleNames

(* No column of a literal reported as standing in the place of an          *)
(* aggregate is judged by the aggregation rule, whatever the item and the  *)
(* rules selected for it: what the one rule finds reaches the other.       *)
THEOREM SubstitutedTheorem == Spec => []SubstitutedNotJudged
<1>1. ASSUME MadeSoFar PROVE SubstitutedNotJudged
  <2> SUFFICES ASSUME NEW f \in findings, NEW g \in findings, f.rule = LiteralRule,
                      f.reason = "aggregate substituted", g.rule = AggregationRule, Judged(g), NEW k \in g.locs
               PROVE  /\ NamedColumns(item, k) # {}
                      /\ \A c \in NamedColumns(item, k), i \in f.locs : item.where[i].column # c.name
    BY Zenon DEF SubstitutedNotJudged
  <2>1. f \in LiteralMade(item) /\ g \in AggregationMade(item)
    BY <1>1, MadeByRule
  <2>2. g \in AggregationFindings(item.q, item.select, Withheld(item))
    BY <2>1 DEF AggregationMade
  <2>3. /\ NamedColumns(item, k) # {}
        /\ \A c \in NamedColumns(item, k) : c.name \notin Withheld(item)
    BY <2>2, WithheldNotJudged, Zenon
  <2>4. \A i \in f.locs : item.where[i].column \in Withheld(item)
    BY <2>1 DEF Withheld, Substituted
  <2> QED BY <2>3, <2>4
<1> QED BY <1>1, MadeInit, MadeStep, PTL DEF Spec

---------------------------------------------------------------------------
(* One literal, one verdict. What a finding of the literal rule says.      *)
LEMMA LiteralFields ==
  ASSUME NEW o, NEW status, NEW reason, NEW target
  PROVE  LET f == LiteralFinding(o, status, reason, target)
         IN  f.locs = {o.loc} /\ f.status = status
BY DEF LiteralFinding

(* It contradicts a predicate as a whole, or by the evidence a single      *)
(* comparison for equality.                                                *)
ByEvidence(q, where, select, context, f) ==
  \E o \in Obligations(where) :
    /\ f.locs = {o.loc} /\ o.op = "EQ"
    /\ Substitutions(o, select, context) # {} \/ Mismatches(q, o, Obligations(where), select, context) # {}

(* What conflicts with the words is contradicted, never supported.         *)
LEMMA ConflictsContradict ==
  ASSUME NEW q, NEW marks, NEW where, NEW select, NEW obligations, NEW context,
         NEW f \in Conflicts(q, marks, where, select, obligations, context)
  PROVE  ~Supported(f)
<1>1. \E o, reason : f = LiteralFinding(o, "contradicted", reason, "mapping")
  BY Zenon DEF Conflicts, QuotedConflicts, NearConflicts
<1> QED BY <1>1, LiteralFields DEF Supported

(* Of a single literal.                                                    *)
Single(q, marks, where, select, context, o) ==
  LET instead == Substitutions(o, select, context)
      mismatches == Mismatches(q, o, Obligations(where), select, context)
  IN  IF instead # {} THEN instead
      ELSE IF mismatches # {} THEN mismatches
      ELSE IF License(q, marks, context, o) # "none" THEN
             {LiteralFinding(o, "supported", "licensed", "mapping")}
      ELSE Unlicensed(q, o, context)

(* Every finding of the literal rule is a conflict or of one literal.      *)
LEMMA LiteralOrigin ==
  ASSUME NEW q, NEW marks, NEW where, NEW select, NEW context,
         NEW f \in LiteralFindings(q, marks, where, select, context)
  PROVE  LET conflicts == Conflicts(q, marks, where, select, Obligations(where), context)
         IN  \/ f \in conflicts
             \/ \E o \in Obligations(where) :
                  o.loc \notin UNION {g.locs : g \in conflicts} /\ f \in Single(q, marks, where, select, context, o)
BY Zenon DEF LiteralFindings, Single

(* A literal that nothing licenses is not contradicted.                    *)
LEMMA UnlicensedFields ==
  ASSUME NEW q, NEW o, NEW context, NEW f \in Unlicensed(q, o, context)
  PROVE  f.locs = {o.loc} /\ ~Contradicted(f)
<1> DEFINE Says(status, reason, target) == f = LiteralFinding(o, status, reason, target)
<1>1. \/ Says("supported", "flag", "mapping") \/ Says("unresolved", "flag", "context")
      \/ Says("unresolved", "threshold", "context") \/ Says("unresolved", "filter", "sql")
      \/ Says("unresolved", "unlicensed", "mapping")
  <2>1. ASSUME NEW g \in Flags(q, o, context)
        PROVE  g = LiteralFinding(o, "supported", "flag", "mapping") \/ g = LiteralFinding(o, "unresolved", "flag", "context")
    BY <2>1, Zenon DEF Flags
  <2> QED BY <2>1, Zenon DEF Unlicensed
<1>2. ASSUME NEW status \in {"supported", "unresolved"}, NEW reason, NEW target, Says(status, reason, target)
      PROVE  f.locs = {o.loc} /\ ~Contradicted(f)
  BY <1>2, LiteralFields DEF Contradicted
<1> HIDE DEF Says
<1> QED BY <1>1, <1>2

(* What a finding of one literal says: evidence is weighed before the      *)
(* license.                                                                *)
LEMMA SingleFields ==
  ASSUME NEW q, NEW marks, NEW where, NEW select, NEW context, NEW o \in Obligations(where),
         NEW f \in Single(q, marks, where, select, context, o)
  PROVE  /\ f.locs = {o.loc}
         /\ Contradicted(f) => ByEvidence(q, where, select, context, f)
         /\ Supported(f) => /\ Substitutions(o, select, context) = {}
                            /\ Mismatches(q, o, Obligations(where), select, context) = {}
<1> DEFINE instead == Substitutions(o, select, context)
           mismatches == Mismatches(q, o, Obligations(where), select, context)
<1>1. ASSUME NEW status, NEW reason, NEW target, f = LiteralFinding(o, status, reason, target)
      PROVE  f.locs = {o.loc} /\ f.status = status
  BY <1>1, LiteralFields
<1>2. CASE f \in instead
  <2>1. o.op = "EQ" /\ \/ f = LiteralFinding(o, "unresolved", "aggregate constant", "context")
                       \/ f = LiteralFinding(o, "contradicted", "aggregate substituted", "sql")
    BY <1>2, Zenon DEF Substitutions
  <2>2. f.locs = {o.loc} /\ f.status \in {"unresolved", "contradicted"}
    BY <1>1, <2>1
  <2>3. ByEvidence(q, where, select, context, f)
    BY <1>2, <2>1, <2>2, Zenon DEF ByEvidence
  <2> QED BY <2>2, <2>3 DEF Supported
<1>3. CASE f \in mismatches /\ instead = {}
  <2>1. o.op = "EQ" /\ f = LiteralFinding(o, "contradicted", "evidence value", "sql")
    BY <1>3, Zenon DEF Mismatches
  <2>2. f.locs = {o.loc} /\ f.status = "contradicted"
    BY <1>1, <2>1
  <2>3. ByEvidence(q, where, select, context, f)
    BY <1>3, <2>1, <2>2, Zenon DEF ByEvidence
  <2> QED BY <2>2, <2>3 DEF Supported
<1>4. CASE /\ instead = {} /\ mismatches = {}
           /\ f = LiteralFinding(o, "supported", "licensed", "mapping") \/ f \in Unlicensed(q, o, context)
  <2>1. f.locs = {o.loc} /\ ~Contradicted(f)
    <3>1. ASSUME f = LiteralFinding(o, "supported", "licensed", "mapping") PROVE f.locs = {o.loc} /\ ~Contradicted(f)
      BY <1>1, <3>1 DEF Contradicted
    <3> QED BY <1>4, <3>1, UnlicensedFields
  <2> QED BY <1>4, <2>1
<1> HIDE DEF instead, mismatches
<1>5. \/ f \in instead \/ (f \in mismatches /\ instead = {})
      \/ /\ instead = {} /\ mismatches = {}
         /\ f = LiteralFinding(o, "supported", "licensed", "mapping") \/ f \in Unlicensed(q, o, context)
  BY Zenon DEF Single, instead, mismatches
<1> QED BY <1>2, <1>3, <1>4, <1>5

(* A comparison for equality has one literal.                              *)
LEMMA EqualityIsOne ==
  ASSUME NEW where, NEW o \in Obligations(where), NEW p \in Obligations(where),
         o.op = "EQ", o.loc = p.loc
  PROVE  p = o
<1>1. PICK i \in DOMAIN where : o \in ObligationsOf(i, where[i])
  BY Zenon DEF Obligations
<1>2. PICK j \in DOMAIN where : p \in ObligationsOf(j, where[j])
  BY Zenon DEF Obligations
<1>3. o.loc = i /\ p.loc = j
  <2>1. ASSUME NEW n, NEW r, NEW x \in ObligationsOf(n, r) PROVE x.loc = n
    <3>1. PICK op, value : x = Obligation(n, r, op, value)
      BY <2>1, ObligationCases
    <3> QED BY <3>1, ObligationOf
  <2> QED BY <1>1, <1>2, <2>1
<1> DEFINE r == where[i]
           single == Obligation(i, r, IF r.mirrored THEN Reversed(r.op) ELSE r.op, r.values[1])
<1>4. r.op \notin {"BETWEEN", "IN"} /\ o = single
  <2>1. \A op, value : Obligation(i, r, op, value).op = op
    BY ObligationOf
  <2> HIDE DEF r, single
  <2>2. \/ /\ r.op = "BETWEEN"
           /\ \/ o = Obligation(i, r, "BETWEEN_LOW", r.values[1])
              \/ o = Obligation(i, r, "BETWEEN_HIGH", r.values[2])
        \/ r.op = "IN" /\ \E k \in DOMAIN r.values : o = Obligation(i, r, "IN", r.values[k])
        \/ r.op \notin {"BETWEEN", "IN"} /\ o = single
    BY <1>1, ObligationCases DEF r, single
  <2> QED BY <2>1, <2>2
<1>5. p = single
  <2>1. p \in ObligationsOf(i, r)
    BY <1>2, <1>3
  <2> HIDE DEF r
  <2> QED BY <1>4, <2>1, ObligationCases DEF single
<1> QED BY <1>4, <1>5

(* A predicate with a literal that is called supported has none that is    *)
(* called contradicted: whatever finds a contradiction, in the words or in *)
(* the evidence, stands before the license of each of its literals.        *)
OneVerdictPerPredicate ==
  \A f, g \in findings :
    f.rule = LiteralRule /\ g.rule = LiteralRule /\ Supported(f) /\ Contradicted(g) => f.locs \cap g.locs = {}

(* So a supported and a contradicted literal are of different predicates.  *)
LEMMA VerdictsApart ==
  ASSUME NEW q, NEW marks, NEW where, NEW select, NEW context,
         NEW f \in LiteralFindings(q, marks, where, select, context), Supported(f),
         NEW g \in LiteralFindings(q, marks, where, select, context), Contradicted(g)
  PROVE  f.locs \cap g.locs = {}
<1> DEFINE conflicts == Conflicts(q, marks, where, select, Obligations(where), context)
           claimed == UNION {h.locs : h \in conflicts}
<1>1. PICK o \in Obligations(where) : o.loc \notin claimed /\ f \in Single(q, marks, where, select, context, o)
  <2>1. f \notin conflicts
    BY ConflictsContradict
  <2>2. \/ f \in conflicts
        \/ \E o \in Obligations(where) :
             o.loc \notin UNION {h.locs : h \in conflicts} /\ f \in Single(q, marks, where, select, context, o)
    BY LiteralOrigin
  <2> HIDE DEF conflicts
  <2> QED BY <2>1, <2>2
<1>2. /\ f.locs = {o.loc} /\ Substitutions(o, select, context) = {}
      /\ Mismatches(q, o, Obligations(where), select, context) = {}
  <2> HIDE DEF claimed
  <2> QED BY <1>1, SingleFields
<1>3. CASE g \in conflicts
  <2> HIDE DEF conflicts
  <2> QED BY <1>1, <1>2, <1>3
<1>4. CASE g \notin conflicts
  <2>1. PICK p \in Obligations(where) : g \in Single(q, marks, where, select, context, p)
    BY <1>4, LiteralOrigin, Zenon
  <2>2. ByEvidence(q, where, select, context, g)
    BY <2>1, SingleFields, Zenon
  <2>3. PICK r \in Obligations(where) :
          /\ g.locs = {r.loc} /\ r.op = "EQ"
          /\ Substitutions(r, select, context) # {} \/ Mismatches(q, r, Obligations(where), select, context) # {}
    BY <2>2, Zenon DEF ByEvidence
  <2>4. r.loc # o.loc
    <3>1. r.loc = o.loc => r = o
      BY <2>3, EqualityIsOne, Zenon
    <3> QED BY <1>2, <2>3, <3>1, Zenon
  <2> QED BY <1>2, <2>3, <2>4
<1> QED BY <1>3, <1>4

(* No predicate is called supported for one of its literals and            *)
(* contradicted for another.                                               *)
THEOREM OneVerdictTheorem == Spec => []OneVerdictPerPredicate
<1>1. EveryFindingOfItsRule => OneVerdictPerPredicate
  BY VerdictsApart, Zenon DEF EveryFindingOfItsRule, OneVerdictPerPredicate
<1> QED BY <1>1, OriginTheorem, PTL

---------------------------------------------------------------------------
(* Requests called contradicted. A set of subsets of a finite set has one  *)
(* that holds no other: it stands in for induction over a finite set.      *)
LEMMA SmallestSet ==
  ASSUME NEW S, IsFiniteSet(S), NEW bad, bad \subseteq SUBSET S, bad # {}
  PROVE  \E T \in bad : \A U \in bad : U \subseteq T => U = T
<1> DEFINE smaller == StrictSubsetOrdering(S)
<1>1. IsWellFoundedOn(smaller, FiniteSubsetsOf(S)) /\ FiniteSubsetsOf(S) = SUBSET S
  BY FS_StrictSubsetOrderingWellFounded, FS_FiniteSubsetsOfFinite
<1>2. PICK T \in bad : \A U \in bad : <<U, T>> \notin smaller
  <2> HIDE DEF smaller
  <2>1. IsWellFoundedOn(smaller, SUBSET S)
    BY <1>1
  <2>2. \E T \in bad : \A U \in bad : ~(<<U, T>> \in smaller)
    BY <2>1, WFMin, Zenon
  <2> QED BY <2>2
<1>3. ASSUME NEW U \in bad, U \subseteq T, U # T PROVE <<U, T>> \in smaller
  <2> DEFINE pair == <<U, T>>
  <2>1. pair \in (SUBSET S) \X (SUBSET S) /\ pair[1] = U /\ pair[2] = T
    OBVIOUS
  <2> HIDE DEF pair
  <2>2. pair \in StrictSubsetOrdering(S)
    BY <1>3, <2>1, Zenon DEF StrictSubsetOrdering
  <2> QED BY <2>2 DEF pair
<1> HIDE DEF smaller
<1>4. \A U \in bad : U \subseteq T => U = T
  BY <1>2, <1>3, Zenon
<1> QED BY <1>4

(* A unit comes before another by the primary key.                         *)
Outranks(order, rows, u, v) ==
  /\ order # <<>>
  /\ LET a == ValueOf(order[1].term, u, rows)
         b == ValueOf(order[1].term, v, rows)
     IN  IF order[1].desc THEN a > b ELSE a < b
Comparable(units, order, rows) ==
  order # <<>> => \A u \in units : ValueOf(order[1].term, u, rows) \in Int

LEMMA FirstUnitsAre ==
  ASSUME NEW units, IsFiniteSet(units), NEW order, NEW rows, NEW n \in Nat, NEW cut
  PROVE  cut \in FirstUnits(units, order, n, rows) <=>
           /\ cut \subseteq units
           /\ Cardinality(cut) = IF n <= Cardinality(units) THEN n ELSE Cardinality(units)
           /\ \A u \in cut, v \in units \ cut : ~Outranks(order, rows, v, u)
<1>1. Cardinality(units) \in Nat
  BY FS_CardinalityType
<1>2. Min({n, Cardinality(units)}) = IF n <= Cardinality(units) THEN n ELSE Cardinality(units)
  BY <1>1 DEF Min
<1>3. \A u, v : Outranks(order, rows, u, v) <=>
        /\ order # <<>>
        /\ LET a == ValueOf(order[1].term, u, rows)
               b == ValueOf(order[1].term, v, rows)
           IN  IF order[1].desc THEN a > b ELSE a < b
  BY Zenon DEF Outranks
<1> QED BY <1>2, <1>3 DEF FirstUnits

(* Of some units one is last.                                              *)
LEMMA SomeLast ==
  ASSUME NEW units, IsFiniteSet(units), units # {}, NEW order, NEW rows, Comparable(units, order, rows)
  PROVE  \E w \in units : \A u \in units : ~Outranks(order, rows, w, u)
<1> DEFINE Behind(u, v) == Outranks(order, rows, v, u)
           bad == {T \in SUBSET units : T # {} /\ \A w \in T : \E u \in T : Behind(u, w)}
<1>1. ASSUME NEW u \in units, NEW v \in units, NEW w \in units
      PROVE  ~Behind(u, u) /\ (Behind(u, v) /\ ~Behind(w, v) => ~Behind(w, u))
  BY DEF Outranks, Comparable
<1>2. SUFFICES ASSUME bad # {} PROVE FALSE
  OBVIOUS
<1> HIDE DEF Behind
<1>3. PICK T \in bad : \A U \in bad : U \subseteq T => U = T
  <2>1. bad \subseteq SUBSET units
    OBVIOUS
  <2> HIDE DEF bad
  <2> QED BY <1>2, <2>1, SmallestSet
<1>4. PICK x \in T : TRUE
  BY <1>3
<1>5. T \ {x} \notin bad /\ T \subseteq units
  BY <1>3, <1>4
<1>6. T # {x}
  BY <1>1, <1>3, <1>4, <1>5
<1>7. PICK y \in T \ {x} : \A u \in T \ {x} : ~Behind(u, y)
  BY <1>4, <1>5, <1>6
<1>8. Behind(x, y)
  BY <1>3, <1>7
<1>9. \A u \in T : ~Behind(u, x)
  BY <1>1, <1>4, <1>5, <1>7, <1>8
<1> QED BY <1>3, <1>4, <1>9

(* So there always are first ones.                                         *)
LEMMA SomeFirst ==
  ASSUME NEW units, IsFiniteSet(units), NEW order, NEW rows, Comparable(units, order, rows), NEW n \in Nat
  PROVE  FirstUnits(units, order, n, rows) # {}
<1> DEFINE bad == {T \in SUBSET units : FirstUnits(T, order, n, rows) = {}}
<1>1. SUFFICES ASSUME bad # {} PROVE FALSE
  OBVIOUS
<1>2. PICK T \in bad : \A U \in bad : U \subseteq T => U = T
  <2>1. bad \subseteq SUBSET units
    OBVIOUS
  <2> HIDE DEF bad
  <2> QED BY <1>1, <2>1, SmallestSet
<1>3. T \subseteq units /\ IsFiniteSet(T) /\ Cardinality(T) \in Nat
  BY <1>2, FS_Subset, FS_CardinalityType
<1>4. Cardinality(T) > n
  <2>1. CASE Cardinality(T) <= n
    <3>1. T \in FirstUnits(T, order, n, rows)
      BY <1>3, <2>1, FirstUnitsAre
    <3> QED BY <1>2, <3>1
  <2> QED BY <1>3, <2>1
<1>5. PICK w \in T : \A u \in T : ~Outranks(order, rows, w, u)
  <2>1. T # {}
    BY <1>4, FS_EmptySet
  <2>2. Comparable(T, order, rows)
    BY <1>3 DEF Comparable
  <2> QED BY <1>3, <2>1, <2>2, SomeLast
<1> DEFINE rest == T \ {w}
<1>6. IsFiniteSet(rest) /\ Cardinality(rest) = Cardinality(T) - 1 /\ T = rest \cup {w}
  BY <1>3, FS_RemoveElement
<1>7. PICK cut : cut \in FirstUnits(rest, order, n, rows)
  BY <1>2, <1>3
<1> HIDE DEF rest
<1>8. cut \subseteq rest /\ Cardinality(cut) = n /\ \A u \in cut, v \in rest \ cut : ~Outranks(order, rows, v, u)
  BY <1>3, <1>4, <1>6, <1>7, FirstUnitsAre
<1>9. cut \in FirstUnits(T, order, n, rows)
  BY <1>3, <1>4, <1>5, <1>6, <1>8, FirstUnitsAre
<1> QED BY <1>2, <1>9

---------------------------------------------------------------------------
(* What a request ranks covers the table, each row once.                   *)
Partitions(parts, whole) ==
  /\ UNION parts = whole /\ \A u \in parts : u # {}
  /\ \A u, v \in parts : u # v => u \cap v = {}

LEMMA GroupsPartition ==
  ASSUME NEW columns, NEW kept, NEW rows
  PROVE  Partitions(Groups(columns, kept, rows), kept)
<1> DEFINE Cell(i, k) == rows[i][columns[k]]
           OneGroup(i, j) == \A k \in DOMAIN columns : Cell(j, k) = Cell(i, k)
           Peers(i) == {j \in kept : OneGroup(i, j)}
<1>1. Groups(columns, kept, rows) = {Peers(i) : i \in kept}
  BY Zenon DEF Groups
<1> HIDE DEF Cell
<1>2. \A i \in kept : i \in Peers(i)
  OBVIOUS
<1>3. ASSUME NEW i \in kept, NEW j \in kept, Peers(i) \cap Peers(j) # {} PROVE Peers(i) = Peers(j)
  <2>1. PICK h \in kept : OneGroup(i, h) /\ OneGroup(j, h)
    BY <1>3
  <2> QED BY <2>1
<1>4. \A i \in kept : Peers(i) \subseteq kept
  OBVIOUS
<1> HIDE DEF Peers
<1> QED BY <1>1, <1>2, <1>3, <1>4 DEF Partitions

LEMMA RankedPartition ==
  ASSUME NEW ask, NEW rows
  PROVE  Partitions(Ranked(ask, rows), DOMAIN rows)
<1>1. CASE ask.group = <<>>
  BY <1>1 DEF Ranked, Partitions
<1>2. CASE ask.group # <<>>
  <2>1. Ranked(ask, rows) = Groups(ask.group, DOMAIN rows, rows)
    BY <1>2, Zenon DEF Ranked
  <2>2. Partitions(Groups(ask.group, DOMAIN rows, rows), DOMAIN rows)
    BY GroupsPartition, Zenon
  <2> QED BY <2>1, <2>2
<1> QED BY <1>1, <1>2

LEMMA UnitsCover ==
  ASSUME NEW select, NEW rows
  PROVE  UNION Units(select, rows) = Kept(select, rows)
<1>1. CASE select.group # <<>>
  BY <1>1, GroupsPartition DEF Units, Partitions
<1>2. CASE select.group = <<>> /\ Aggregates(select)
  BY <1>2 DEF Units
<1>3. CASE select.group = <<>> /\ ~Aggregates(select)
  BY <1>3 DEF Units
<1> QED BY <1>1, <1>2, <1>3

(* A request for some, of a table that ranks them, has one right answer:   *)
(* not nothing, and not all the table holds.                               *)
LEMMA OneAnswer ==
  ASSUME NEW ask, NEW rows, IsFiniteSet(DOMAIN rows), Ranks(ask, rows)
  PROVE  \E best :
           /\ Asked(ask, rows) = {best} /\ best \subseteq Ranked(ask, rows)
           /\ Cardinality(best) = Number(ask) /\ Number(ask) \in Nat \ {0}
           /\ UNION best # DOMAIN rows
           /\ \A u \in best, v \in Ranked(ask, rows) \ best :
                IF ask.desc THEN ~(ValueOf(ask.term, v, rows) > ValueOf(ask.term, u, rows))
                ELSE ~(ValueOf(ask.term, v, rows) < ValueOf(ask.term, u, rows))
<1> DEFINE units == Ranked(ask, rows)
           order == <<[term |-> ask.term, desc |-> ask.desc]>>
           n == Number(ask)
           first == FirstUnits(units, order, n, rows)
           V(u) == ValueOf(ask.term, u, rows)
<1>1. IsFiniteSet(units)
  <2>1. units \subseteq SUBSET (DOMAIN rows)
    <3>1. UNION units = DOMAIN rows
      BY RankedPartition, Zenon DEF units, Partitions
    <3> HIDE DEF units
    <3> QED BY <3>1
  <2> HIDE DEF units
  <2> QED BY <2>1, FS_SUBSET, FS_Subset
<1>2. n \in Nat /\ n # 0 /\ Cardinality(units) > n /\ Cardinality(units) \in Nat
  BY <1>1, FS_CardinalityType DEF Ranks, Number
<1>3. \A u, v \in units : V(u) \in Int /\ (V(u) = V(v) => u = v)
  BY DEF Ranks
<1>4. order # <<>> /\ order[1].term = ask.term /\ order[1].desc = ask.desc
  OBVIOUS
<1> HIDE DEF units, order, n, V
<1>5. \A u, v : Outranks(order, rows, u, v) <=> IF ask.desc THEN V(u) > V(v) ELSE V(u) < V(v)
  BY <1>4 DEF Outranks, V
<1>6. Comparable(units, order, rows)
  BY <1>3, <1>4 DEF Comparable, V
<1>7. PICK best : best \in first
  BY <1>1, <1>2, <1>6, SomeFirst
<1>8. ASSUME NEW cut \in first
      PROVE  /\ cut \subseteq units /\ Cardinality(cut) = n /\ IsFiniteSet(cut)
             /\ \A u \in cut, v \in units \ cut : ~Outranks(order, rows, v, u)
  <2>1. /\ cut \subseteq units /\ Cardinality(cut) = n
        /\ \A u \in cut, v \in units \ cut : ~Outranks(order, rows, v, u)
    BY <1>1, <1>2, <1>8, FirstUnitsAre
  <2> QED BY <1>1, <2>1, FS_Subset
<1>9. first = {best}
  <2>1. SUFFICES ASSUME NEW cut \in first, cut # best PROVE FALSE
    BY <1>7
  <2>2. \E u \in cut : u \notin best
    BY <1>7, <1>8, <2>1, FS_Subset
  <2>3. \E v \in best : v \notin cut
    BY <1>7, <1>8, <2>1, FS_Subset
  <2>4. PICK u \in units, v \in units : u \in cut /\ u \notin best /\ v \in best /\ v \notin cut
    BY <1>7, <1>8, <2>2, <2>3
  <2>5. ~Outranks(order, rows, v, u) /\ ~Outranks(order, rows, u, v)
    BY <1>7, <1>8, <2>1, <2>4
  <2> QED BY <1>3, <1>5, <2>4, <2>5
<1>10. UNION best # DOMAIN rows
  <2>1. best # units
    BY <1>2, <1>7, <1>8
  <2>2. PICK v \in units : v \notin best
    BY <1>7, <1>8, <2>1
  <2>3. PICK i \in v : TRUE
    <3>1. v # {}
      BY RankedPartition, <2>2, Zenon DEF units, Partitions
    <3> QED BY <3>1
  <2>4. i \in DOMAIN rows /\ i \notin UNION best
    <3>1. UNION units = DOMAIN rows /\ \A v_1, v_2 \in units : v_1 # v_2 => v_1 \cap v_2 = {}
      BY RankedPartition, Zenon DEF units, Partitions
    <3> HIDE DEF units
    <3>2. i \in DOMAIN rows
      BY <2>2, <2>3, <3>1
    <3>3. \A u \in best : u \in units /\ u # v
      BY <1>7, <1>8, <2>2
    <3>4. i \notin UNION best
      BY <2>2, <2>3, <3>1, <3>3
    <3> QED BY <3>2, <3>4
  <2> QED BY <2>4
<1>11. Asked(ask, rows) = {best}
  <2>1. Asked(ask, rows) = IF ask.n > 0 THEN first ELSE {UNION first}
    BY DEF Asked, units, order, n
  <2> QED BY <1>9, <2>1
<1>12. \A u \in best, v \in units \ best : IF ask.desc THEN ~(V(v) > V(u)) ELSE ~(V(v) < V(u))
  BY <1>5, <1>7, <1>8
<1> QED BY <1>2, <1>7, <1>8, <1>10, <1>11, <1>12 DEF units, n, V

(* A query without OFFSET whose LIMIT is none or computed may return all   *)
(* of its units.                                                           *)
LEMMA ReturnsWhole ==
  ASSUME NEW select, NEW rows, IsFiniteSet(Units(select, rows)),
         select.limit.kind \in {"none", "computed"}, select.offset = 0
  PROVE  Units(select, rows) \in Returns(select, rows)
<1> DEFINE units == Units(select, rows)
           ends == CASE select.limit.kind = "none" -> {Cardinality(units)}
                     [] select.limit.kind = "computed" -> select.offset..Cardinality(units)
                     [] OTHER -> {select.offset + select.limit.n}
           Cuts(n) == FirstUnits(units, Keys(select), n, rows)
           Rest(cut) == {cut \ skipped : skipped \in FirstUnits(cut, Keys(select), select.offset, rows)}
<1>1. Returns(select, rows) = UNION {UNION {Rest(cut) : cut \in Cuts(n)} : n \in ends}
  BY Zenon DEF Returns
<1>2. Cardinality(units) \in Nat
  BY FS_CardinalityType
<1>3. Cardinality(units) \in ends
  BY <1>2
<1>4. units \in Cuts(Cardinality(units))
  BY <1>2, FirstUnitsAre
<1>5. {} \in FirstUnits(units, Keys(select), select.offset, rows)
  BY NothingSkipped
<1>6. units \ {} = units
  OBVIOUS
<1>7. units \in Rest(units)
  BY <1>5, <1>6
<1> HIDE DEF units, ends, Cuts, Rest
<1> QED BY <1>1, <1>3, <1>4, <1>7 DEF units

Unranked(order, rows) == \A u, v : ~Outranks(order, rows, u, v)
LEMMA NoOrderRanks ==
  ASSUME NEW units, NEW order, NEW rows, order = <<>>
  PROVE  Unranked(order, rows) /\ Comparable(units, order, rows)
BY DEF Unranked, Outranks, Comparable

(* Without an order some units or some others may be the first.            *)
LEMMA EitherFirst ==
  ASSUME NEW units, IsFiniteSet(units), NEW order, NEW rows, Unranked(order, rows),
         Comparable(units, order, rows), NEW n \in Nat, n # 0, n < Cardinality(units), NEW best
  PROVE  \E cut \in FirstUnits(units, order, n, rows) : cut # best
<1>1. Cardinality(units) \in Nat 
  BY FS_CardinalityType
<1>2. PICK cut : cut \in FirstUnits(units, order, n, rows)
  BY <1>1, SomeFirst
<1>3. cut \subseteq units /\ Cardinality(cut) = n /\ IsFiniteSet(cut)
  <2>1. cut \subseteq units /\ Cardinality(cut) = n
    BY <1>1, <1>2, FirstUnitsAre
  <2> QED BY <2>1, FS_Subset
<1>4. PICK u \in cut : TRUE
  <2>1. cut # {}
    BY <1>3, FS_EmptySet
  <2> QED BY <2>1
<1>5. PICK v \in units : v \notin cut
  <2>1. cut # units
    BY <1>1, <1>3
  <2> QED BY <1>3, <2>1
<1> DEFINE rest == cut \ {u}
           other == rest \cup {v}
<1>6. IsFiniteSet(rest) /\ Cardinality(rest) = n - 1 /\ v \notin rest
  BY <1>3, <1>4, <1>5, FS_RemoveElement
<1> HIDE DEF rest
<1>7. Cardinality(other) = n
  <2>1. Cardinality(rest \cup {v}) = Cardinality(rest) + 1
    BY <1>6, FS_AddElement
  <2> QED BY <1>6, <2>1
<1>8. other \subseteq units /\ other # cut
  BY <1>3, <1>5 DEF rest
<1>9. \A a, b : ~Outranks(order, rows, a, b)
  BY Zenon DEF Unranked
<1>10. other \in FirstUnits(units, order, n, rows)
  <2> HIDE DEF other
  <2> QED BY <1>1, <1>7, <1>8, <1>9, FirstUnitsAre
<1> QED BY <1>2, <1>8, <1>10

(* The wrong end of the order, or the wrong number.                        *)
Opposed(select, ask) == ask.desc \in BOOLEAN /\ select.order[1].desc \in BOOLEAN /\ select.order[1].desc # ask.desc
(* Ranked by its key, or not at all.                                       *)
ByKey(select, ask) ==
  /\ 1 \in DOMAIN select.order /\ Keys(select)[1].term = ask.term
  /\ select.group = ask.group /\ (Aggregates(select) => select.group # <<>>)
Otherwise(select, ask) ==
  /\ select.offset = 0 /\ select.limit.n \in Nat /\ select.limit.kind \in {"number", "computed", "none"}
  /\ \/ select.order = <<>>
     \/ /\ select.order # <<>> /\ ByKey(select, ask)
        /\ select.limit.kind # "number" \/ select.limit.n # Number(ask) \/ Opposed(select, ask)

(* Such a query returns something else than the one right answer, unless   *)
(* its LIMIT is not reached, and then it returns everything.               *)
LEMMA SomeOther ==
  ASSUME NEW select, NEW ask, NEW rows, IsFiniteSet(DOMAIN rows), Kept(select, rows) = DOMAIN rows,
         Ranks(ask, rows), Otherwise(select, ask)
  PROVE  ~Selects(select, ask, rows)
<1> DEFINE units == Units(select, rows)
           n == Number(ask)
<1>1. IsFiniteSet(units) /\ Cardinality(units) \in Nat /\ UNION units = DOMAIN rows
  BY UnitsAreFinite, UnitsCover, FS_CardinalityType
<1>2. PICK best :
        /\ Asked(ask, rows) = {best} /\ best \subseteq Ranked(ask, rows)
        /\ Cardinality(best) = n /\ n \in Nat \ {0}
        /\ UNION best # DOMAIN rows
        /\ \A u \in best, v \in Ranked(ask, rows) \ best :
             IF ask.desc THEN ~(ValueOf(ask.term, v, rows) > ValueOf(ask.term, u, rows))
             ELSE ~(ValueOf(ask.term, v, rows) < ValueOf(ask.term, u, rows))
  BY OneAnswer
<1>3. ASSUME NEW cut \in Returns(select, rows), cut # best PROVE ~Selects(select, ask, rows)
  BY <1>2, <1>3 DEF Selects
<1>4. units # best
  BY <1>1, <1>2
<1> HIDE DEF units, n
<1>5. CASE select.limit.kind # "number"
  <2>1. units \in Returns(select, rows)
    BY <1>1, <1>5, ReturnsWhole DEF Otherwise, units
  <2> QED BY <1>3, <1>4, <2>1
<1>6. CASE select.limit.kind = "number"
  <2> DEFINE k == select.limit.n
             first == FirstUnits(units, Keys(select), k, rows)
  <2>1. k \in Nat /\ Returns(select, rows) = first
    BY <1>1, <1>6, ReturnsFirst DEF Otherwise, units
  <2> HIDE DEF first
  <2>2. SUFFICES \E cut \in first : cut # best
    BY <1>3, <2>1
  <2>3. CASE Cardinality(units) <= k
    <3>1. units \in first
      BY <1>1, <2>1, <2>3, FirstUnitsAre DEF first
    <3> QED BY <1>4, <3>1
  <2>4. CASE k < Cardinality(units) /\ select.order = <<>>
    <3>1. Unranked(Keys(select), rows) /\ Comparable(units, Keys(select), rows)
      <4>1. Keys(select) = <<>>
        BY <2>4 DEF Keys
      <4> QED BY <4>1, NoOrderRanks
    <3>2. CASE k = 0
      <4>1. PICK cut : cut \in first
        BY <1>1, <2>1, <3>1, SomeFirst DEF first
      <4>2. Cardinality(cut) = k
        BY <1>1, <2>1, <2>4, <4>1, FirstUnitsAre DEF first
      <4> QED BY <1>2, <3>2, <4>1, <4>2
    <3>3. CASE k # 0
      <4> HIDE DEF k
      <4>1. \E cut \in FirstUnits(units, Keys(select), k, rows) : cut # best
        BY <1>1, <2>1, <2>4, <3>1, <3>3, EitherFirst
      <4> QED BY <4>1 DEF first
    <3> QED BY <3>2, <3>3
  <2>5. CASE k < Cardinality(units) /\ select.order # <<>>
    <3>1. /\ ByKey(select, ask)
          /\ k # n \/ Opposed(select, ask)
      BY <1>6, <2>5, Zenon DEF Otherwise, n
    <3>2. units = Ranked(ask, rows)
      BY <3>1 DEF units, Units, Ranked, ByKey
    <3>3. /\ Keys(select) # <<>> /\ Keys(select)[1].term = ask.term
          /\ Keys(select)[1].desc = select.order[1].desc
      <4>1. DOMAIN Keys(select) = DOMAIN select.order
        BY DEF Keys
      <4>2. Keys(select)[1] = [term |-> KeyTerm(select, select.order[1].term), desc |-> select.order[1].desc]
        BY <3>1 DEF Keys, ByKey
      <4> QED BY <3>1, <4>1, <4>2 DEF ByKey
    <3>4. \A u, v \in units :
            /\ ValueOf(ask.term, u, rows) \in Int
            /\ ValueOf(ask.term, u, rows) = ValueOf(ask.term, v, rows) => u = v
      BY <3>2, Zenon DEF Ranks
    <3>5. PICK cut : cut \in first
      <4>1. Comparable(units, Keys(select), rows)
        BY <3>3, <3>4 DEF Comparable
      <4> QED BY <1>1, <2>1, <4>1, SomeFirst DEF first
    <3>6. /\ cut \subseteq units /\ Cardinality(cut) = k
          /\ \A u \in cut, v \in units \ cut : ~Outranks(Keys(select), rows, v, u)
      BY <1>1, <2>1, <2>5, <3>5, FirstUnitsAre DEF first
    <3>7. CASE k # n
      BY <1>2, <3>5, <3>6, <3>7
    <3>8. CASE k = n /\ Opposed(select, ask)
      <4>1. SUFFICES ASSUME cut = best PROVE FALSE
        BY <3>5
      <4>2. PICK u \in cut : TRUE
        <5>1. cut # {}
          BY <1>2, <3>6, <3>8, FS_EmptySet
        <5> QED BY <5>1
      <4>3. PICK v \in units : v \notin cut
        <5>1. cut # units
          BY <1>4, <4>1
        <5> QED BY <3>6, <5>1
      <4>4. /\ ~Outranks(Keys(select), rows, v, u)
            /\ IF ask.desc THEN ~(ValueOf(ask.term, v, rows) > ValueOf(ask.term, u, rows))
               ELSE ~(ValueOf(ask.term, v, rows) < ValueOf(ask.term, u, rows))
        BY <1>2, <3>2, <3>6, <4>1, <4>2, <4>3
      <4>5. IF select.order[1].desc THEN ~(ValueOf(ask.term, v, rows) > ValueOf(ask.term, u, rows))
            ELSE ~(ValueOf(ask.term, v, rows) < ValueOf(ask.term, u, rows))
        BY <3>3, <4>4 DEF Outranks
      <4>6. ValueOf(ask.term, u, rows) = ValueOf(ask.term, v, rows)
        BY <3>4, <3>6, <3>8, <4>2, <4>3, <4>4, <4>5 DEF Opposed
      <4> QED BY <3>4, <3>6, <4>2, <4>3, <4>6
    <3> QED BY <3>1, <3>7, <3>8
  <2> QED BY <1>1, <2>1, <2>3, <2>4, <2>5
<1> QED BY <1>5, <1>6

(* When a request is called contradicted: the order, the direction or the  *)
(* LIMIT is not what is asked for.                                         *)
Reproached(f, cue, select) ==
  \/ select.order = <<>> /\ f.reason = "order missing"
  \/ select.order # <<>> /\ f.reason = "direction" /\ select.order[1].desc # cue.desc
  \/ /\ select.order # <<>> /\ f.reason = "limit"
     /\ select.limit.kind # "number" \/ select.limit.n # cue.n
Seen(select) ==
  /\ select.limit.kind # "fetch" /\ ~(select.offset > 0)
  /\ select.order # <<>> => (Aggregates(select) => select.group # <<>>)

LEMMA ContradictedLimit ==
  ASSUME NEW cue, NEW limit, Contradicted(LimitVerdict(cue, limit))
  PROVE  LimitVerdict(cue, limit).reason = "limit" /\ (limit.kind = "none" \/ limit.n # cue.n)
BY DEF LimitVerdict, Unresolved, NotAssessed, Conflict, TopKSays, Finding, Contradicted

LEMMA ContradictedTopK ==
  ASSUME NEW q, NEW cue, NEW select, NEW conventions,
         Contradicted(TopKFinding(q, cue, select, conventions))
  PROVE  Reproached(TopKFinding(q, cue, select, conventions), cue, select) /\ Seen(select)
<1> DEFINE f == TopKFinding(q, cue, select, conventions)
<1>0. Contradicted(f)
  OBVIOUS
<1>1. ASSUME NEW reason
      PROVE  /\ ~Contradicted(Unresolved(cue, reason)) /\ ~Contradicted(NotAssessed(cue, reason))
             /\ Conflict(cue, reason).reason = reason
  BY DEF Unresolved, NotAssessed, Conflict, TopKSays, Finding, Contradicted
<1>2. Contradicted(UnorderedVerdict(cue, select)) => UnorderedVerdict(cue, select).reason = "order missing"
  BY DEF UnorderedVerdict, Unresolved, NotAssessed, TopKSays, Finding, Contradicted
<1>3. ~UnsupportedShape(select)
  BY <1>1, Zenon DEF TopKFinding
<1>4. ~(/\ Aggregates(select) /\ select.group = <<>>
        /\ select.order # <<>> \/ select.limit.kind # "none")
  BY <1>1, Zenon DEF TopKFinding
<1>5. Seen(select)
  BY <1>3, <1>4 DEF UnsupportedShape, Seen
<1>6. CASE select.order = <<>>
  <2>1. f = UnorderedVerdict(cue, select)
    BY <1>1, <1>6, Zenon DEF TopKFinding
  <2>2. f.reason = "order missing"
    BY <1>2, <2>1, Zenon
  <2> QED BY <1>5, <1>6, <2>2, Zenon DEF Reproached
<1>7. CASE select.order # <<>>
  <2>1. \E b : f = OrderedVerdict(q, cue, b, select, conventions)
    BY <1>1, <1>7, Zenon DEF TopKFinding
  <2>2. PICK b : f = OrderedVerdict(q, cue, b, select, conventions)
    BY <2>1
  <2>3. \/ select.order[1].desc # cue.desc /\ f = Conflict(cue, "direction")
        \/ f = LimitVerdict(cue, select.limit)
    BY <1>1, <2>2, Zenon DEF OrderedVerdict
  <2>4. CASE select.order[1].desc # cue.desc /\ f = Conflict(cue, "direction")
    BY <1>1, <1>5, <1>7, <2>4, Zenon DEF Reproached
  <2>5. CASE f = LimitVerdict(cue, select.limit)
    <3>1. f.reason = "limit" /\ (select.limit.kind = "none" \/ select.limit.n # cue.n)
      <4> HIDE DEF f
      <4>1. Contradicted(LimitVerdict(cue, select.limit))
        BY <1>0, <2>5
      <4>2. LimitVerdict(cue, select.limit).reason = "limit" /\ (select.limit.kind = "none" \/ select.limit.n # cue.n)
        BY <4>1, ContradictedLimit
      <4> QED BY <2>5, <4>2
    <3>2. select.limit.kind = "none" => select.limit.kind # "number"
      OBVIOUS
    <3> QED BY <1>5, <1>7, <3>1, <3>2, Zenon DEF Reproached
  <2> QED BY <2>3, <2>4, <2>5
<1> QED BY <1>6, <1>7

LEMMA CueDirection ==
  ASSUME NEW q, NEW cue \in TopKCues(q)
  PROVE  cue.desc \in BOOLEAN
<1>1. PICK i : cue = TopKCue(q, i)
  BY Zenon DEF TopKCues
<1>2. \A j : TopKCue(q, j).desc \in BOOLEAN
  BY DEF TopKCue
<1> QED BY <1>1, <1>2

(* Where the readings of the question are told apart by some table, a      *)
(* query called a wrong answer is one, in every reading.                   *)
LEMMA TopKConflictRight ==
  ASSUME ReadingsMeant(item), \E family \in Families : item \in family,
         NEW f \in TopKFindings(item.q, item.select, item.conventions), Contradicted(f),
         NEW a \in item.asks
  PROVE  \E rows \in Tables : ~Selects(item.select, a, rows)
<1> DEFINE select == item.select
           cues == TopKCues(item.q)
<1>1. ~(Cardinality(cues) > 1)
  <2>1. ASSUME Cardinality(cues) > 1 PROVE \E at : f = Finding(TopKRule, "not_assessed", "several", "mapping", at, {1})
    BY <2>1, Zenon DEF TopKFindings
  <2>2. ASSUME NEW at, f = Finding(TopKRule, "not_assessed", "several", "mapping", at, {1}) PROVE FALSE
    BY <2>2 DEF Finding, Contradicted
  <2> QED BY <2>1, <2>2
<1>2. PICK cue \in cues : f = TopKFinding(item.q, cue, select, item.conventions)
  BY <1>1, Zenon DEF TopKFindings
<1>3. Reproached(f, cue, select) /\ Seen(select)
  BY <1>2, ContradictedTopK, Zenon
<1>4. /\ \E rows \in Tables : Kept(select, rows) = DOMAIN rows /\ Ranks(a, rows)
      /\ f.reason # "order missing" => a.term = Keys(select)[1].term /\ a.group = select.group
      /\ f.reason = "direction" => a.desc = cue.desc
      /\ f.reason = "limit" => Number(a) = cue.n
  BY <1>1, <1>2, Zenon DEF ReadingsMeant
<1>5. WellFormed(select)
  BY SelectsAreWellFormed, Zenon
<1>6. cue.desc \in BOOLEAN
  BY CueDirection
<1> HIDE DEF select, cues
<1>7. /\ select.order = <<>> \/ (1 \in DOMAIN select.order /\ select.order[1].desc \in BOOLEAN)
      /\ select.limit.kind \in {"number", "computed", "fetch", "none"}
      /\ select.limit.n \in Nat /\ select.offset \in Nat
  BY <1>5, Zenon DEF WellFormed
<1>8. select.offset = 0 /\ select.limit.kind \in {"number", "computed", "none"}
  BY <1>3, <1>7 DEF Seen
<1>9. Otherwise(select, a)
  <2>1. CASE select.order = <<>>
    BY <1>7, <1>8, <2>1 DEF Otherwise
  <2>2. CASE select.order # <<>>
    <3>1. f.reason # "order missing"
      BY <1>3, <2>2 DEF Reproached
    <3>2. ByKey(select, a)
      BY <1>3, <1>4, <1>7, <2>2, <3>1 DEF ByKey, Seen
    <3>3. CASE f.reason = "direction" /\ select.order[1].desc # cue.desc
      BY <1>4, <1>6, <1>7, <1>8, <2>2, <3>2, <3>3 DEF Otherwise, Opposed
    <3>4. CASE f.reason = "limit" /\ (select.limit.kind # "number" \/ select.limit.n # cue.n)
      BY <1>4, <1>7, <1>8, <2>2, <3>2, <3>4 DEF Otherwise
    <3> QED BY <1>3, <2>2, <3>3, <3>4, Zenon DEF Reproached
  <2> QED BY <2>1, <2>2
<1>10. PICK rows \in Tables : Kept(select, rows) = DOMAIN rows /\ Ranks(a, rows)
  BY <1>4
<1>11. ~Selects(select, a, rows)
  BY <1>9, <1>10, TablesAssumption, SomeOther
<1> QED BY <1>10, <1>11 DEF select

(* Of the top and the bottom: where the words mean the key they are bound  *)
(* to, and every reading ranks what some table tells apart, a query called *)
(* right answers the request on every table however ties are broken, and   *)
(* one called wrong answers it wrongly on some table in any reading.       *)
THEOREM TopKTheorem ==
  Spec => [](RequestsMeant(item) /\ ReadingsMeant(item) => TopKVerdictsRight)
<1>1. EveryFindingOfItsRule => (RequestsMeant(item) /\ ReadingsMeant(item) => TopKVerdictsRight)
  BY TopKVerdictRight, TopKConflictRight, Zenon DEF EveryFindingOfItsRule, TopKVerdictsRight
<1> QED BY <1>1, OriginTheorem, PTL
============================================================================
