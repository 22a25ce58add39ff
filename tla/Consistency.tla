---------------------------- MODULE Consistency ----------------------------
(***************************************************************************)
(* The question-SQL consistency analyzer on one item                       *)
(* (consistency_detector.py, _detect_consistency, and                      *)
(* question_sql_consistency_analyzer.py): its rules run in a fixed order   *)
(* over one question and one query, and what they find becomes counts, the *)
(* findings shown and the status of the item.                              *)
(*                                                                         *)
(* The rules never learn what the author of the question meant. Here an    *)
(* item carries it (wants): the spans of the question that ask for         *)
(* something, and what they mean as a set of values. The verdicts are      *)
(* measured against that and against the rows the query returns.           *)
(***************************************************************************)
EXTENDS Literals, StringMatch, Aggregation, TopK

CONSTANTS
  Families, \* the items, in sets of a kind
  Sample,   \* the numbers a column of the examined rows may hold
  Texts,    \* the texts it may hold, as sequences of letters
  Spelling, \* the letters of a word
  Tables    \* the tables a query may meet, as sequences of rows

Modes == {"exact", "prefix", "suffix", "contains"}

(* The texts tell the kinds of match apart, with every word that is        *)
(* spelled, and the numbers tell the comparisons apart.                    *)
ASSUME TextsAssumption ==
  /\ \A text \in Texts : text \in Seq(STRING)
  /\ \A v \in DOMAIN Spelling :
       /\ Spelling[v] \in Texts
       /\ \A m, n \in Modes : Matching(m, Spelling[v], Texts) = Matching(n, Spelling[v], Texts) => m = n
ASSUME SampleAssumption ==
  /\ Sample \subseteq Int
  /\ \A v \in Numerals : (NumberOf[v] - 1)..(NumberOf[v] + 1) \subseteq Sample

(* What the parser gives: a LIKE stands under a path of nodes, a predicate *)
(* compares in one of these ways, a BETWEEN two numbers or no number, a    *)
(* term is of columns. Evidence asserts an operator that some phrase       *)
(* stands for.                                                             *)
SqlOperators == {"EQ", "NEQ", "GT", "GTE", "LT", "LTE", "BETWEEN", "IN"}
WellFormed(select) ==
  /\ DOMAIN select.projections \subseteq Nat /\ IsFiniteSet(DOMAIN select.projections)
  /\ \A k \in DOMAIN select.projections :
       select.projections[k].term.columns \in Seq([name : STRING, table : STRING])
  /\ select.order # <<>> =>
       /\ 1 \in DOMAIN select.order
       /\ select.order[1].term.columns \in Seq([name : STRING, table : STRING])
       /\ select.order[1].desc \in BOOLEAN
  /\ select.limit.kind \in {"number", "computed", "fetch", "none"}
  /\ select.limit.n \in Nat /\ select.offset \in Nat
ASSUME ItemsAssumption == \A family \in Families : \A it \in family :
  /\ \A i \in DOMAIN it.likes : it.likes[i].above \in Seq(STRING)
  /\ \A i \in DOMAIN it.where : LET p == it.where[i] IN
       /\ p.op \in SqlOperators
       /\ p.op = "BETWEEN" => (p.values[1] \in Numerals <=> p.values[2] \in Numerals)
  /\ \A e \in it.evidence : e.op \in DOMAIN Compatible
  /\ WellFormed(it.select)
ASSUME TablesAssumption == \A rows \in Tables :
  /\ IsFiniteSet(DOMAIN rows)
  /\ \A i \in DOMAIN rows : \A c \in DOMAIN rows[i] : rows[i][c] \in Int

VARIABLES
  item,      \* question, query, evidence, and what was meant
  stage,     \* the rule to run next
  findings   \* all findings so far

vars == <<item, stage, findings>>

Init == (\E family \in Families : item \in family) /\ stage = LiteralRule /\ findings = {}

(* A rule that is not selected for the run is passed over.                 *)
Run(rule, next, found) ==
  /\ stage = rule
  /\ findings' = findings \cup IF rule \in item.rules THEN found ELSE {}
  /\ stage' = next /\ UNCHANGED item

RunLiteral ==
  Run(LiteralRule, BoundaryRule,
      LiteralFindings(item.q, item.marks, item.where, item.select, item.context))
RunBoundary ==
  Run(BoundaryRule, StringRule, BoundaryFindings(item.q, item.where, item.evidence))
RunString ==
  Run(StringRule, AggregationRule, StringFindings(item.q, item.likes, item.dialect))

(* What the literal rule says of a column's aggregate is not said twice.   *)
RunAggregation ==
  LET substituted == UNION {f.locs : f \in {f \in findings : f.reason = "aggregate substituted"}}
  IN  Run(AggregationRule, TopKRule,
          AggregationFindings(item.q, item.select, {item.where[i].column : i \in substituted}))
RunTopK ==
  Run(TopKRule, "done", TopKFindings(item.q, item.select, item.conventions))

Next == RunLiteral \/ RunBoundary \/ RunString \/ RunAggregation \/ RunTopK
Spec == Init /\ [][Next]_vars

---------------------------------------------------------------------------
(* Of a predicate that keeps what it names: a literal called supported is  *)
(* a value that some words of the question mean, through the evidence      *)
(* where that is needed, and a flag called supported one that they mean in *)
(* its own column. A value called contradicted is meant by no words in its *)
(* column. A predicate that leaves out what it names (<>, NOT) has its     *)
(* literal called supported all the same where the question names it,      *)
(* which says nothing of the query (consistency_detector.py:161).          *)
LeavesOut(p) == p.op = "NEQ" \/ "not" \in p.under
LiteralVerdictsRight == \A f \in findings : f.rule = LiteralRule =>
  LET asking == {w \in item.wants : f.value \in w.means}
      column == {item.where[i].column : i \in f.locs}
  IN  /\ Supported(f) => asking # {} \/ \A i \in f.locs : LeavesOut(item.where[i])
      /\ Contradicted(f) \/ (Supported(f) /\ f.reason = "flag") =>
           (Supported(f) <=> \E w \in asking : w.column \in column)

Wanted(f) == {w \in item.wants : f.at \in w.from..w.to}
Root(p) == p.clause \in {"WHERE", "HAVING"} /\ ~p.nested
On(column, table) ==
  {i \in DOMAIN item.where : /\ item.where[i].column = column /\ item.where[i].table = table
                             /\ Root(item.where[i])}
Cites(f, w) == \A i \in f.locs : i \in On(w.column, w.table)

(* The rows of the query, seen in one column.                              *)
Returned(column, table) ==
  {x \in Sample : \A i \in On(column, table) : MayPass(item.where[i], x, NumberOf)}
Meant(column, table) ==
  {x \in Sample : \A w \in item.wants : w.column = column /\ w.table = table => x \in w.means}

(* A boundary called supported is one that every row of the query keeps,   *)
(* in the column the question meant; one called contradicted is of a query *)
(* that returns other rows than asked, or follows evidence against the     *)
(* question.                                                               *)
BoundaryKept(f) ==
  \E w \in Wanted(f) : Cites(f, w) /\ Returned(w.column, w.table) \subseteq w.means
BoundaryMissed(f) ==
  \E w \in Wanted(f) : Cites(f, w) /\
    IF f.target = "sql" THEN Returned(w.column, w.table) # Meant(w.column, w.table)
    ELSE \E e \in item.evidence : /\ e.affirmative /\ e.column = w.column
           /\ {x \in Sample : Compares(e.op, x, NumberOf[e.value])} # w.means
BoundaryVerdictsRight == \A f \in findings : f.rule = BoundaryRule =>
  /\ Supported(f) => BoundaryKept(f)
  /\ Contradicted(f) => BoundaryMissed(f)

(* The texts that pass a LIKE of the query.                                *)
LikeAccepts(p) ==
  Passing(Matching(PatternMode(p.pattern), Spelling[p.pattern.payload], Texts), Texts, p.above)

(* A text match called supported selects exactly the texts that the        *)
(* question asks for, in the column it names; one called contradicted      *)
(* selects others.                                                         *)
StringVerdictsRight == \A f \in findings :
  f.rule = StringRule /\ (Supported(f) \/ Contradicted(f)) =>
    \E w \in Wanted(f), i \in f.locs : LET p == item.likes[i] IN
      /\ p.column = w.column /\ p.table = w.table /\ Root(p)
      /\ Supported(f) <=> LikeAccepts(p) = w.means

(* Binding words to a predicate is guesswork, by nearness and by the names *)
(* of columns: that it guessed right can only be a hypothesis. Of LIKEs:   *)
(* the words of a cue mean the column and the text of the LIKE they are    *)
(* bound to, and the kind of match that the phrase says.                   *)
Selection(mode, positive, part) ==
  IF positive THEN Matching(mode, part, Texts) ELSE Texts \ Matching(mode, part, Texts)
TextsMeant(it) ==
  \A cue \in MatchCues(it.q) :
  \A b \in BestBound(it.q, cue, Bindings(it.q, cue, LikeObligations(it.likes, it.dialect))) :
    LET o == b.obligation
    IN  cue.denied \/ WantsWord(it.q, cue, b.span) \/ Coordinated(it.q, b.span) \/
        /\ o.payload \in DOMAIN Spelling
        /\ \E w \in it.wants : /\ cue.span.from \in w.from..w.to
                              /\ w.column = o.column /\ w.table = o.table
                              /\ w.means = Selection(cue.mode, cue.positive, Spelling[o.payload])

(* The predicate that a cue is bound to, if it is bound.                   *)
BoundTo(q, cue, mentions) ==
  LET plain == {m \in Nearest(cue, mentions) : ~CountsEvents(q, cue, m)}
  IN  {m \in Resolved(q, cue, plain) :
         ~NegatedBefore(q, cue.span.from) /\ IsSingleton(Resolved(q, cue, plain))}
Contested(q, cue, m, mentions) ==
  \E c \in BoundaryCues(q) : c.op # cue.op /\ \E n \in BoundTo(q, c, mentions) :
    n.obligation.loc = m.obligation.loc /\ n.obligation.value = m.obligation.value

(* Of comparisons: a phrase means its operator, with the column and value  *)
(* of the predicate that it is bound to and that no other phrase contests; *)
(* a range means its two ends, the smaller one first.                      *)
CuesMeant(it, mentions) ==
  \A cue \in BoundaryCues(it.q) : \A m \in BoundTo(it.q, cue, mentions) : LET o == m.obligation IN
    \/ OrdinalPolarity(cue, o) \/ Contested(it.q, cue, m, mentions)
    \/ \E w \in it.wants :
         /\ cue.span.from \in w.from..w.to /\ w.column = o.column /\ w.table = o.table
         /\ w.means = {x \in Sample : Compares(cue.op, x, NumberOf[o.value])}
RangeMeant(it, at, low, high) ==
  /\ NumberOf[low.value] < NumberOf[high.value]
  /\ \E w \in it.wants :
       /\ at \in w.from..w.to /\ w.column = low.column /\ w.table = low.table
       /\ w.means = {x \in Sample : NumberOf[low.value] <= x /\ x <= NumberOf[high.value]}
RangesMeant(it, mentions) ==
  \A spec \in RangeSpecs : \A s \in RangeOpeners(it.q, spec) : \A e \in Ends(it.q, spec, s.from, mentions) :
    LET pairs == RangePairs(it.q, s.from, e[1], e[2], mentions)
    IN  \/ NegatedBefore(it.q, s.from) \/ ~EndpointsPlain(it.q, spec, s.from) \/ Cardinality(pairs) # 1
        \/ \A p \in pairs : RangeMeant(it, s.from, p[1], p[2])
BoundariesMeant(it) ==
  LET mentions == ValueMentions(it.q, BoundaryCandidates(it.where))
  IN  CuesMeant(it, mentions) /\ RangesMeant(it, mentions)

---------------------------------------------------------------------------
(* Every row that the query returns carries the aggregate of the rows it   *)
(* stands for; a row that is not grouped stands for all of base.           *)
Carried(select, ask, k, unit, base, rows) ==
  LET behind == IF select.group # <<>> \/ Aggregates(select) THEN unit \cap base ELSE base
  IN  ValueOf(select.projections[k].term, unit, rows) =
        ValueOf(Term(ask.fn, <<ask.column>>, "", ""), behind, rows)
Carries(select, ask, rows, base) ==
  \A cut \in Returns(select, rows) : (cut = {} => base = {}) /\
    \E k \in DOMAIN select.projections : \A unit \in cut : Carried(select, ask, k, unit, base, rows)

(* An aggregate called supported is asked of the column it cites and       *)
(* computed, whatever the table, over the rows that the query keeps; one   *)
(* called contradicted leaves something asked that a query over all rows   *)
(* of some table does not return.                                          *)
AggregationVerdictsRight == \A f \in findings : f.rule = AggregationRule =>
  /\ Supported(f) => \E a \in item.asks :
       /\ \E k \in f.locs : a.column \in ColumnsOf(item.select.projections[k].term)
       /\ \A rows \in Tables : Carries(item.select, a, rows, Kept(item.select, rows))
  /\ Contradicted(f) => \E a \in item.asks, rows \in Tables :
       ~Carries(item.select, a, rows, DOMAIN rows)

(* What the rule takes for granted of the query: no LIMIT or OFFSET takes  *)
(* every row away, the aggregate that it cites stands by itself, and so    *)
(* does the column that it found ordered.                                  *)
Undisturbed(f, select) ==
  /\ select.offset = 0
  /\ select.limit.kind = "none" \/ (select.limit.kind = "number" /\ select.limit.n > 0)
  /\ \A k \in f.locs : select.projections[k].term.inner = "" /\ select.projections[k].term.outer = ""
  /\ f.reason = "ordered extreme" =>
       /\ ~Aggregates(select) /\ select.group = <<>>
       /\ \A k \in f.locs : Len(select.projections[k].term.columns) = 1
(* And of the question: the aggregate that the rule finds is the one the   *)
(* words ask for, of the column named nearest, which every table has.      *)
AggregatesMeant(it) ==
  \A cue \in AggregationCues(it.q) :
    LET candidates == Candidates(it.select)
        roles == NearestRoles(it.q, cue.at, candidates)
    IN  ~cue.count /\ ~cue.ratio /\ Cardinality(roles) = 1 => \A c \in roles :
          \/ ~Supported(AggregationVerdict(it.q, cue, c, candidates, it.select))
          \/ /\ [fn |-> cue.kind, column |-> c] \in it.asks /\ c.table # ""
             /\ \A rows \in Tables : \A i \in DOMAIN rows : c \in DOMAIN rows[i]

(* The rows or groups that a request is for; n = 0: all that are best.     *)
Ranked(ask, rows) ==
  IF ask.group = <<>> THEN {{i} : i \in DOMAIN rows} ELSE Groups(ask.group, DOMAIN rows, rows)
Number(ask) == IF ask.n > 0 THEN ask.n ELSE 1
Asked(ask, rows) ==
  LET first == FirstUnits(Ranked(ask, rows), <<[term |-> ask.term, desc |-> ask.desc]>>, Number(ask), rows)
  IN  IF ask.n > 0 THEN first ELSE {UNION first}
Selects(select, ask, rows) == Returns(select, rows) \subseteq Asked(ask, rows)

(* A top-k request called supported is one that the query answers on every *)
(* table, in some reading of the question; one called contradicted is      *)
(* answered wrongly on some table in any reading.                          *)
TopKVerdictsRight == \A f \in findings : f.rule = TopKRule =>
  /\ Supported(f) => \E a \in item.asks : \A rows \in Tables : Selects(item.select, a, rows)
  /\ Contradicted(f) => \A a \in item.asks : \E rows \in Tables : ~Selects(item.select, a, rows)

(* Of the top or bottom: where the rule compares direction and number, the *)
(* words mean the key of the query that they are bound to, of what the     *)
(* query groups and of all rows, as the cue is read.                       *)
RequestsMeant(it) ==
  \A cue \in TopKCues(it.q) :
    \/ Cardinality(TopKCues(it.q)) > 1
    \/ TopKFinding(it.q, cue, it.select, it.conventions).reason \notin {"direction", "limit", "top k"}
    \/ /\ [term |-> Keys(it.select)[1].term, group |-> it.select.group,
           desc |-> cue.desc, n |-> cue.n] \in it.asks
       /\ \A rows \in Tables : Kept(it.select, rows) = DOMAIN rows

(* A table with more rows or groups than are asked for, no two of which    *)
(* are equal in what they are ranked by.                                   *)
Ranks(ask, rows) ==
  /\ ask.n \in Nat /\ Cardinality(Ranked(ask, rows)) > Number(ask)
  /\ \A u, v \in Ranked(ask, rows) :
       /\ ValueOf(ask.term, u, rows) \in Int
       /\ ValueOf(ask.term, u, rows) = ValueOf(ask.term, v, rows) => u = v

(* And where the rule contradicts: some table tells apart what a reading   *)
(* of the question ranks; a reading is of the key that the rule looks at,  *)
(* where there is one, of the direction that it finds wrong and of the     *)
(* number that it finds the LIMIT different from.                          *)
ReadingsMeant(it) ==
  \A cue \in TopKCues(it.q) : LET f == TopKFinding(it.q, cue, it.select, it.conventions) IN
    Contradicted(f) /\ ~(Cardinality(TopKCues(it.q)) > 1) => \A a \in it.asks :
      /\ \E rows \in Tables : Kept(it.select, rows) = DOMAIN rows /\ Ranks(a, rows)
      /\ f.reason # "order missing" => a.term = Keys(it.select)[1].term /\ a.group = it.select.group
      /\ f.reason = "direction" => a.desc = cue.desc
      /\ f.reason = "limit" => Number(a) = cue.n
============================================================================
