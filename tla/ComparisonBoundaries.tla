----------------------- MODULE ComparisonBoundaries -----------------------
(***************************************************************************)
(* comparison_boundary_alignment (comparison_boundaries.py): the words of  *)
(* a question that ask for a comparison ("at least", "between ... and"),   *)
(* bound to the one predicate of the SQL that realizes them, and whether   *)
(* its operator is the one asked for. Wherever the binding is not certain  *)
(* the rule abstains.                                                      *)
(***************************************************************************)
EXTENDS ConsistencyTerms

BoundaryRule == "boundary"

(* BOUNDARY_CUE_SPECS: the operator each phrase stands for.                *)
CuePhrases ==
  [GTE |-> {<<"greater", "than", "or", "equal", "to">>, <<"equal", "to", "or", "greater", "than">>,
            <<"equal", "to", "or", "above">>, <<"equal", "or", "above">>, <<"no", "less", "than">>,
            <<"not", "less", "than">>, <<"no", "younger", "than">>, <<"at", "least">>,
            <<"on", "or", "after">>, <<"not", "before">>, <<"since">>},
   LTE |-> {<<"less", "than", "or", "equal", "to">>, <<"equal", "to", "or", "less", "than">>,
            <<"equal", "to", "or", "below">>, <<"equal", "or", "below">>, <<"no", "more", "than">>,
            <<"not", "more", "than">>, <<"no", "older", "than">>, <<"at", "most">>,
            <<"on", "or", "before">>, <<"no", "later", "than">>, <<"up", "to">>},
   GT  |-> {<<"greater", "than">>, <<"higher", "than">>, <<"more", "than">>, <<"older", "than">>,
            <<"later", "than">>, <<"above">>, <<"over">>, <<"after">>},
   LT  |-> {<<"less", "than">>, <<"lower", "than">>, <<"fewer", "than">>, <<"younger", "than">>,
            <<"earlier", "than">>, <<"under">>, <<"below">>, <<"before">>},
   EQ  |-> {<<"exactly">>, <<"equal", "to">>}]

(* The phrases that follow their value.                                    *)
TrailingPhrases ==
  [GTE |-> {<<"or", "more">>}, LTE |-> {<<"or", "less">>, <<"or", "fewer">>},
   GT |-> {}, LT |-> {}, EQ |-> {}]

BoundaryCue(op, phrase, span, trailing) ==
  [op |-> op, phrase |-> phrase, span |-> span, trailing |-> trailing]

CuesOf(q, op, phrases, trailing) ==
  UNION {{BoundaryCue(op, p, s, trailing) : s \in Occurrences(q, p)} : p \in phrases}
ProposedCues(q) ==
  UNION {CuesOf(q, op, CuePhrases[op], FALSE) \cup CuesOf(q, op, TrailingPhrases[op], TRUE) :
           op \in DOMAIN CuePhrases}

(* _boundary_cues *)
BoundaryCues(q) == LongestCues(ProposedCues(q))

(* _COMPATIBLE_OPERATORS *)
Compatible ==
  [EQ |-> {"EQ"}, GT |-> {"GT"}, GTE |-> {"GTE", "BETWEEN_LOW"},
   LT |-> {"LT"}, LTE |-> {"LTE", "BETWEEN_HIGH"}]
BoundaryOperators == {"EQ", "GT", "GTE", "LT", "LTE", "IN", "BETWEEN_LOW", "BETWEEN_HIGH"}

---------------------------------------------------------------------------
(* Values: a numeral and the ways to write it in words.                    *)
Numerals == {"3", "5", "7", "500"}
NumberOf == [v \in Numerals |-> IF v = "3" THEN 3 ELSE IF v = "5" THEN 5 ELSE IF v = "7" THEN 7 ELSE 500]
NumberWords(v) == CASE v = "5" -> <<"five">> [] v = "7" -> <<"seven">>
                    [] v = "500" -> <<"five", "hundred">> [] v = "1" -> <<"one">>
                    [] v = "2" -> <<"two">> [] OTHER -> <<>>

ScaleWords == {"hundred", "thousand", "million", "point"}
NumberWordTokens == ScaleWords \cup {"and", "five", "seven", "minus", "negative"}

(* _is_number_word_subspan: part of a longer number, of which only a part  *)
(* was found.                                                              *)
PartOfNumber(q, span) ==
  LET neighbours == {i \in DOMAIN q : i \in {span.from - 1, span.to + 1}}
      numeral == \E i \in span.from..span.to : q[i] \in Numerals
  IN  \/ \E i \in DOMAIN q : i = span.from - 1 /\ q[i] \in {"minus", "negative"}
      \/ \E i \in neighbours : q[i] \in IF numeral THEN ScaleWords ELSE NumberWordTokens

(* _value_mentions: where the question gives the value of an obligation,   *)
(* as a numeral or in words.                                               *)
ValuePlaces(q, value) ==
  {s \in Occurrences(q, <<value>>) \cup Occurrences(q, NumberWords(value)) : ~PartOfNumber(q, s)}
MentionsOf(q, o) == {[obligation |-> o, span |-> s] : s \in ValuePlaces(q, o.value)}
ValueMentions(q, obligations) == UNION {MentionsOf(q, o) : o \in obligations}

---------------------------------------------------------------------------
(* Roles: the words of a column's name.                                    *)
RoleWords(column) == CASE column = "shop_code" -> {"shop", "code"}
                       [] column = "id" -> {}
                       [] OTHER -> {column}
IdentifierColumns == {"shop_code"}
IdentifierMarkers == {"code", "codes", "id", "ids", "key", "keys"}

(* _local_role_tokens: two words before the cue and its value, one after.  *)
Window(q, a, b) ==
  {q[i] : i \in {i \in DOMAIN q : i \in (Min({a.from, b.from}) - 2)..
                                        (Max({a.to, b.to}) + 1)}}

(* An age is what is older, a year what is later.                          *)
RoleInCue(q, cue, words) ==
  LET said == {q[i] : i \in cue.from..cue.to}
  IN  \/ "age" \in words /\ {"older", "younger"} \cap said # {}
      \/ {"date", "year", "time"} \cap words # {} /\
         {"after", "before", "earlier", "later", "since"} \cap said # {}

(* _role_matches_question: the predicate's column is named beside the cue, *)
(* and its table somewhere.                                                *)
RoleMatches(q, cue, mention) ==
  LET o == mention.obligation
      words == RoleWords(o.column)
      near == Window(q, cue, mention.span)
  IN  /\ words # {}
      /\ o.column \in IdentifierColumns => near \cap IdentifierMarkers # {}
      /\ RoleInCue(q, cue, words) \/ \E w \in words, n \in near : SameWord(n, w)
      /\ TableWords(o.table) = {} \/ Mentions(q, TableWords(o.table))

---------------------------------------------------------------------------
(* _cue_value_distance: at most two words between a cue and its value.     *)
Gap(cue, m) == IF cue.trailing THEN cue.span.from - m.span.to - 1
                               ELSE m.span.from - cue.span.to - 1
Nearby(cue, mentions) == {m \in mentions : Gap(cue, m) \in 0..2}
Nearest(cue, mentions) ==
  {m \in Nearby(cue, mentions) : \A n \in Nearby(cue, mentions) : Gap(cue, m) <= Gap(cue, n)}

(* _frequency_threshold_requires_aggregate_binding: "more than 5 times"    *)
(* counts events, whatever column holds a 5.                               *)
CountsEvents(q, cue, m) ==
  LET next == Max({cue.span.to, m.span.to}) + 1
  IN  next \in DOMAIN q /\ q[next] \in {"times", "occasions"} /\ m.obligation.column # "count"

(* _resolve_mentions: one obligation must have its role in the question;   *)
(* among several the roles decide, if any is there.                        *)
Resolved(q, cue, nearest) ==
  LET bound == {m \in nearest : RoleMatches(q, cue.span, m)}
  IN  IF Cardinality(nearest) = 1 \/ bound # {} THEN bound ELSE nearest

(* _ordinal_polarity_is_ambiguous: a higher rank may be a smaller number.  *)
OrdinalPolarity(cue, o) ==
  /\ {cue.phrase[i] : i \in DOMAIN cue.phrase} \cap {"above", "below", "higher", "lower"} # {}
  /\ RoleWords(o.column) \cap {"rank", "position", "place"} # {}

(* _evidence_boundary_assertion: the operator the evidence gives for this  *)
(* column and value, if it gives one only. A sentence with a negation      *)
(* asserts nothing.                                                        *)
EvidenceOperators(evidence, o) ==
  {e.op : e \in {e \in evidence : e.affirmative /\ e.value = o.value /\ e.column = o.column}}
EvidenceContradicts(evidence, cue, o) ==
  \E op \in EvidenceOperators(evidence, o) :
    EvidenceOperators(evidence, o) = {op} /\ op # cue.op /\ o.op \in Compatible[op]

Locations(mentions) == {m.obligation.loc : m \in mentions}
OnlyValue(mentions) ==
  LET values == {m.obligation.value : m \in mentions}
  IN  IF Cardinality(values) = 1 THEN CHOOSE v \in values : TRUE ELSE ""

(* A finding about a cue, with the operator it expected and the value of   *)
(* the SQL where it states them: cues compete by these.                    *)
AboutCue(cue, status, reason, target, mentions, op, value) ==
  [rule |-> BoundaryRule, status |-> status, reason |-> reason, target |-> target,
   at |-> cue.span.from, locs |-> Locations(mentions), op |-> op, value |-> value]

(* _single_boundary_finding, once the predicate is found.                  *)
BoundVerdict(cue, m, evidence) ==
  LET o == m.obligation
      Says(status, reason, target) ==
        AboutCue(cue, status, reason, target, {m}, cue.op, o.value)
  IN  IF o.disjunctive THEN
           AboutCue(cue, "not_assessed", "boolean context", "sql", {m}, "", o.value)
      ELSE IF OrdinalPolarity(cue, o) THEN
           AboutCue(cue, "unresolved", "ordinal polarity", "context", {m}, "", o.value)
      ELSE IF o.negated THEN AboutCue(cue, "not_assessed", "sql negation", "sql", {m}, "", "")
      ELSE IF o.op = "IN" \/ (cue.op # "EQ" /\ o.op = "EQ") THEN
           Says("unresolved", "realization", "sql")
      ELSE IF EvidenceContradicts(evidence, cue, o) THEN
           (IF cue.phrase = <<"since">>
            THEN Says("unresolved", "evidence convention", "mapping")
            ELSE Says("contradicted", "evidence against question", "mapping"))
      ELSE Says(IF o.op \in Compatible[cue.op] THEN "supported" ELSE "contradicted",
                "boundary", "sql")

SingleFindings(q, cue, mentions, evidence) ==
  LET nearest == Nearest(cue, mentions)
      counting == {m \in nearest : CountsEvents(q, cue, m)}
      resolved == Resolved(q, cue, nearest \ counting)
  IN  IF nearest = {} THEN {}
      ELSE IF NegatedBefore(q, cue.span.from) THEN
           {AboutCue(cue, "not_assessed", "negation", "mapping", nearest, "", "")}
      ELSE IF nearest = counting THEN {}
      ELSE IF ~IsSingleton(resolved) THEN
           {AboutCue(cue, "unresolved", "role", "mapping", nearest \ counting, cue.op,
                     OnlyValue(nearest \ counting))}
      ELSE {BoundVerdict(cue, m, evidence) : m \in resolved}

\* Mutant: cues that compete for a predicate keep their verdicts.
Demoted_Kept(findings) == findings

(* _demote_competing_cue_bindings: cues of different operators that bind   *)
(* to one value of one predicate are all unresolved; of findings that say  *)
(* the same the first remains.                                             *)
Compete(f, g) == Cardinality(f.locs) = 1 /\ g.locs = f.locs /\ g.value = f.value /\ g.op # f.op
SaysTheSame(f, g) == [f EXCEPT !.at = 0] = [g EXCEPT !.at = 0]
Demoted(findings) ==
  LET settled == {IF \E g \in findings : Compete(f, g)
                  THEN [f EXCEPT !.status = "unresolved", !.reason = "role", !.target = "mapping"]
                  ELSE f : f \in findings}
  IN  {f \in settled : \A g \in settled : SaysTheSame(f, g) => f.at <= g.at}

---------------------------------------------------------------------------
(* RANGE_CUE_SPECS; "until" may or may not include its end.                *)
RangeSpecs == {[opener |-> "between", separators |-> {"and", "to"}],
               [opener |-> "from", separators |-> {"to", "through"}],
               [opener |-> "from", separators |-> {"until"}]}
RelationalWords == {"compare", "comparison", "difference", "ratio", "versus", "vs"}
EndpointWords == {"inclusive", "exclusive"}

(* The first two values after the opener with a separator between them.    *)
Ends(q, spec, at, mentions) ==
  LET spans == {m.span : m \in {m \in mentions : m.span.from > at}}
      Separated(a, b) == \E i \in (a.to + 1)..(b.from - 1) : q[i] \in spec.separators
      pairs == {e \in spans \X spans : e[1].from < e[2].from /\ Separated(e[1], e[2])}
  IN  {e \in pairs : \A f \in pairs :
         \/ e[1].from < f[1].from
         \/ e[1].from = f[1].from /\ e[2].from <= f[2].from}

(* _range_operators: no operators when the endpoints are qualified.        *)
EndpointsPlain(q, spec, at) ==
  /\ "until" \notin spec.separators
  /\ \A i \in (at + 1)..Len(q) : q[i] \notin EndpointWords
  /\ Occurrences(q, <<"and", "including">>) = {}

(* _range_pairs, _range_role_matches_question: obligations of one role,    *)
(* named beside the opener.                                                *)
RangePairs(q, at, lower, upper, mentions) ==
  LET At(s) == {m.obligation : m \in {m \in mentions : m.span = s}}
  IN  {p \in At(lower) \X At(upper) :
         /\ p[1].column = p[2].column /\ p[1].table = p[2].table
         /\ p[1].relevant = p[2].relevant
         /\ RoleMatches(q, Span(at, at), [obligation |-> p[1], span |-> lower])}

RangeFits(low, high) == low.op \in Compatible["GTE"] /\ high.op \in Compatible["LTE"]

(* _resolved_range_finding *)
RangeVerdict(at, low, high) ==
  LET Says(status, reason, target) ==
        Finding(BoundaryRule, status, reason, target, at, {low.loc, high.loc})
  IN  IF low.disjunctive \/ high.disjunctive THEN Says("not_assessed", "range boolean", "sql")
      ELSE IF low.negated \/ high.negated THEN Says("not_assessed", "sql negation", "sql")
      ELSE IF {low.op, high.op} \cap {"EQ", "IN"} # {} THEN
           Says("unresolved", "range realization", "mapping")
      ELSE Says(IF RangeFits(low, high) THEN "supported" ELSE "contradicted",
                "range", "sql")

RangeFinding(q, spec, at, ends, mentions) ==
  LET pairs == RangePairs(q, at, ends[1], ends[2], mentions)
      locs == Locations({m \in mentions : m.span \in {ends[1], ends[2]}})
      Open(status, reason) ==
        Finding(BoundaryRule, status, reason, "mapping", at, locs)
  IN  IF NegatedBefore(q, at) THEN Open("not_assessed", "range negation")
      ELSE IF ~EndpointsPlain(q, spec, at) THEN Open("not_assessed", "range modifier")
      ELSE IF Cardinality(pairs) # 1 THEN Open("unresolved", "range role")
      ELSE LET p == CHOOSE p \in pairs : TRUE IN RangeVerdict(at, p[1], p[2])

(* _range_findings: every opener that does not compare two things.         *)
RangeOpeners(q, spec) ==
  {s \in Occurrences(q, <<spec.opener>>) : \A i \in 1..(s.from - 1) : q[i] \notin RelationalWords}
RangeFindings(q, mentions) ==
  UNION {UNION {{RangeFinding(q, spec, s.from, e, mentions) : e \in Ends(q, spec, s.from, mentions)} :
           s \in RangeOpeners(q, spec)} : spec \in RangeSpecs}

(* detect_comparison_boundaries: of the root query's numeric predicates    *)
(* in WHERE and HAVING.                                                    *)
BoundaryCandidates(where) ==
  {o \in Obligations(where) : /\ o.op \in BoundaryOperators /\ o.value \in Numerals
                              /\ o.clause \in {"WHERE", "HAVING"}
                              /\ o.relevant /\ o.column # ""}
BoundaryFindings(q, where, evidence) ==
  LET mentions == ValueMentions(q, BoundaryCandidates(where))
      singles == UNION {SingleFindings(q, c, mentions, evidence) : c \in BoundaryCues(q)}
  IN  IF BoundaryCandidates(where) = {} THEN {}
      ELSE RangeFindings(q, mentions) \cup Demoted(singles)
============================================================================
