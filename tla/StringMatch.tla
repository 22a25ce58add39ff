---------------------------- MODULE StringMatch ----------------------------
(***************************************************************************)
(* string_match_alignment (string_match_alignment.py): the words of a      *)
(* question that ask for a kind of text match ("starts with", "does not    *)
(* contain"), bound by value and role to one LIKE of the query, and        *)
(* whether the edges of its pattern and its polarity are those asked for.  *)
(*                                                                         *)
(* A LIKE is a record: column and table; side, a "column" or an            *)
(* "expression"; its pattern [front, payload, back, kind], where front and *)
(* back say whether a % is there and kind is "plain", "wild" (an           *)
(* underscore, a backslash or a % inside), "quoted" (in double quotes) or  *)
(* "dynamic"; escape; above, the nodes from it up to the clause, innermost *)
(* first; clause; nested.                                                  *)
(***************************************************************************)
EXTENDS ConsistencyTerms

StringRule == "string"

Not(phrases) == {<<verb, "not">> \o p : verb \in {"does", "do"}, p \in phrases}
                  \cup {<<"doesn't">> \o p : p \in phrases}
MustNot(phrases) == Not(phrases) \cup {<<"must", "not">> \o p : p \in phrases}
Things == {"character", "letter", "string", "text", "word"}
Including(things) == {<<v, "the", t>> : v \in {"includes", "include", "including"}, t \in things}
MatchSpec(mode, positive, phrases) == [mode |-> mode, positive |-> positive, phrases |-> phrases]

(* _CUE_SPECS *)
MatchSpecs ==
  {MatchSpec("exact", FALSE, MustNot({<<"exactly", "match">>, <<"match", "exactly">>})
                          \cup {<<"not", "exactly", "matching">>}),
   MatchSpec("prefix", FALSE, MustNot({<<"start", "with">>, <<"begin", "with">>})
                          \cup {<<"not", "starting", "with">>, <<"not", "beginning", "with">>}),
   MatchSpec("suffix", FALSE, MustNot({<<"end", "with">>}) \cup {<<"not", "ending", "with">>}),
   MatchSpec("contains", FALSE, MustNot({<<"contain">>}) \cup Not({<<"include", "the", t>> : t \in Things})
                          \cup {<<"not", "containing">>} \cup {<<"without", "the", t>> : t \in Things}),
   MatchSpec("exact", TRUE, {<<"exactly", "matching">>, <<"exactly", "matches">>, <<"exact", "match", "for">>}),
   MatchSpec("prefix", TRUE, {<<v, "with">> : v \in {"starts", "start", "starting",
                                                "begins", "begin", "beginning"}}
                          \cup {<<v, "the", "prefix">> : v \in {"contains", "contain", "containing",
                                                                "has", "have", "having"}}),
   MatchSpec("suffix", TRUE, {<<v, "with">> : v \in {"ends", "end", "ending"}}),
   MatchSpec("contains", TRUE, Including(Things \cup {"substring"})
                          \cup {<<v, "the", "substring">> : v \in {"has", "have", "having"}}
                          \cup {<<v>> : v \in {"contains", "contain", "containing", "contained"}})}

MatchNegations == {"avoid", "cannot", "don't", "exclude", "excluding", "except",
                   "never", "no", "not", "without"}

(* _string_match_cues: with whether a negation precedes in the sentence.   *)
MatchCues(q) ==
  LongestCues(UNION {UNION {
    {[mode |-> s.mode, positive |-> s.positive, phrase |-> p, span |-> at,
      denied |-> \E i \in 1..(at.from - 1) : q[i] \in MatchNegations] : at \in Occurrences(q, p)} :
        p \in s.phrases} : s \in MatchSpecs})

---------------------------------------------------------------------------
\* Mutant: what stands above a LIKE and its NOT is not looked at.
Tangled_Never(above) == FALSE

(* _sql_negation: a NOT directly above, parentheses aside, negates the     *)
(* LIKE; whatever else than AND and OR stands above is too complex.        *)
Directly(above) ==
  {i \in DOMAIN above : above[i] = "not" /\ \A j \in 1..(i - 1) : above[j] = "paren"}
Denied(above) == Directly(above) # {}
Tangled(above) ==
  \E i \in DOMAIN above \ Directly(above) : above[i] \notin {"and", "or", "paren"}

(* _static_pattern: SQLite may read double quotes as a string.             *)
Static(pattern, dialect) ==
  pattern.kind # "dynamic" /\ (pattern.kind = "quoted" => dialect = "sqlite")

(* _parse_pattern *)
PatternMode(pattern) ==
  IF pattern.payload = "" \/ pattern.kind = "wild" THEN "none"
  ELSE IF pattern.front /\ pattern.back THEN "contains"
  ELSE IF pattern.back THEN "prefix" ELSE IF pattern.front THEN "suffix" ELSE "exact"

(* What the rule cannot read of a LIKE; the last of the code's checks      *)
(* stands.                                                                 *)
Issue(p, dialect) ==
  IF p.escape THEN "pattern"
  ELSE IF p.side # "column" THEN "wrapper"
  ELSE IF dialect \notin {"duckdb", "postgres", "postgresql", "sqlite"} THEN "dialect"
  ELSE IF ~Static(p.pattern, dialect) THEN "dynamic pattern"
  ELSE IF p.pattern.kind = "quoted" THEN "double quotes"
  ELSE IF PatternMode(p.pattern) = "none" THEN "pattern"
  ELSE ""

(* The text of a predicate stands for it: sql_location.                    *)
Text(p) == <<p.side, p.column, p.pattern, p.escape, p.above # <<>> /\ p.above[1] = "not">>

(* _extract_string_match_obligations *)
LikeObligation(i, p, dialect) ==
  [loc |-> i, text |-> Text(p), issue |-> Issue(p, dialect),
   payload |-> IF Static(p.pattern, dialect) THEN p.pattern.payload ELSE "",
   mode |-> PatternMode(p.pattern), positive |-> ~Denied(p.above), tangled |-> Tangled(p.above),
   disjunctive |-> \E k \in DOMAIN p.above : p.above[k] = "or",
   column |-> IF p.side = "column" THEN p.column ELSE "",
   table |-> IF p.side = "column" THEN p.table ELSE "",
   clause |-> p.clause, relevant |-> ~p.nested]
LikeObligations(likes, dialect) == {LikeObligation(i, likes[i], dialect) : i \in DOMAIN likes}

---------------------------------------------------------------------------
LinkTokens == {"a", "an", "alphabet", "called", "character", "letter", "named", "of", "prefix",
               "string", "substring", "text", "the", "value", "word"}

(* _strict_value_spans, _value_follows_cue: the payload of the pattern,    *)
(* with nothing but four link words between it and the cue. One that is a  *)
(* link word itself is no value.                                           *)
ValueSpans(q, cue, payload) ==
  IF payload \in LinkTokens THEN {}
  ELSE {s \in Occurrences(q, <<payload>>) :
          /\ s.from - cue.span.to - 1 \in 0..4
          /\ \A i \in (cue.span.to + 1)..(s.from - 1) : q[i] \in LinkTokens}

(* _candidate_bindings: by the first of the predicates with the same text, *)
(* each to the first place of its value.                                   *)
FirstSpan(spans) == CHOOSE s \in spans : \A t \in spans : s.from <= t.from
Bindings(q, cue, obligations) ==
  {[obligation |-> o, span |-> FirstSpan(ValueSpans(q, cue, o.payload))] :
     o \in {o \in obligations :
              /\ o.payload # "" /\ ValueSpans(q, cue, o.payload) # {}
              /\ \A p \in obligations : p.text = o.text => o.loc <= p.loc}}

(* The words of a column's name, the head last.                            *)
NameTokens(column) ==
  CASE column = "first_name" -> <<"first", "name">> [] column = "note_text" -> <<"note", "text">>
    [] column = "" -> <<>> [] OTHER -> <<column>>

AttachmentBoundaries == {"and", "by", "for", "in", "of", "on", "or", "where", "whose", "with"}
OwnerKept == {"whose", "with"}
TrailingRelatives == {"that", "which", "who"}
Stopwords == {"all", "any", "are", "avoid", "cannot", "display", "don't", "each", "exactly",
              "exclude", "excluding", "find", "give", "list", "me", "never", "no", "not",
              "one", "only", "return", "show", "that", "the", "those", "two", "what", "which"}
GenericHeads == {"code", "description", "detail", "details", "name", "text", "title", "value"}

(* _local_question_tokens: the words before the cue, up to what the role   *)
(* is attached to.                                                         *)
LocalWords(q, cue) ==
  LET near == SubSeq(q, Max({1, cue.span.from - 10}), cue.span.from - 1)
      kept == {i \in DOMAIN near : near[i] \notin TrailingRelatives}
      words == SubSeq(near, 1, Max({0} \cup kept))
      last == Max({0} \cup {i \in DOMAIN words : words[i] \in AttachmentBoundaries})
      after == SubSeq(words, last + 1, Len(words))
      cut == IF last > 1 /\ words[last] \in OwnerKept THEN <<words[last - 1]>> \o after
             ELSE IF last > 0 /\ after # <<>> THEN after
             ELSE words
  IN  SubSeq(cut, Max({1, Len(cut) - 4}), Len(cut))

(* _role_match_score: nothing that the words say may be about another      *)
(* thing than the column and its table.                                    *)
RoleScore(o, local, cue) ==
  LET words == NameTokens(o.column)
      Heard(w) == \E i \in DOMAIN local : SameWord(local[i], w)
      NamesRole(t) == \E k \in DOMAIN words : SameWord(t, words[k])
      foreign == {local[i] : i \in {i \in DOMAIN local : /\ local[i] \notin Stopwords
                                                         /\ ~NamesRole(local[i])}}
      head == words[Len(words)]
      named == Cardinality({k \in 1..(Len(words) - 1) : Heard(words[k])})
      cueIsHead == /\ head = "text" /\ "text" \in {cue.phrase[i] : i \in DOMAIN cue.phrase}
                   /\ \A w \in GenericHeads : Heard(w) => SameWord(w, head)
      points == named + (IF Heard(head) THEN 1 ELSE 0)
  IN  IF words = <<>> THEN 0
      ELSE IF \E t \in foreign : \A w \in TableWords(o.table) : ~SameWord(t, w) THEN 0
      ELSE IF Len(words) = 1 THEN points
      ELSE IF named = 0 \/ ~(Heard(head) \/ cueIsHead) THEN 0
      ELSE points

(* _resolve_binding *)
BestBound(q, cue, bindings) ==
  LET Score(b) == RoleScore(b.obligation, LocalWords(q, cue), cue)
      best == {b \in bindings : Score(b) > 0 /\ \A c \in bindings : Score(c) <= Score(b)}
  IN  IF Cardinality(best) = 1 THEN best ELSE {}

---------------------------------------------------------------------------
(* _question_requests_word_boundary *)
WantsWord(q, cue, span) ==
  \/ "word" \in {cue.phrase[i] : i \in DOMAIN cue.phrase}
  \/ \E i \in (cue.span.to + 1)..(span.from - 1) : q[i] \in {"word", "words"}
  \/ \E i \in (span.to + 1)..Len(q) : q[i] = "word"

(* _question_match_boolean_is_unresolved *)
Coordinated(q, span) == span.to < Len(q) /\ q[span.to + 1] \in {"and", "or"}

UnreadableFinding(cue, o, reason) ==
  Finding(StringRule, IF reason = "double quotes" THEN "unresolved" ELSE "not_assessed",
          reason, "sql", cue.span.from, {o.loc})
MatchFinding(cue, o, status, reason) ==
  Finding(StringRule, status, reason, "sql", cue.span.from, {o.loc})

(* _evaluate_cue, of the bound LIKE.                                       *)
MatchVerdict(q, cue, b) ==
  LET o == b.obligation
      Unread(reason) == UnreadableFinding(cue, o, reason)
  IN  IF ~o.relevant \/ o.clause \notin {"WHERE", "HAVING"} THEN Unread("scope")
      ELSE IF o.issue # "" THEN Unread(o.issue)
      ELSE IF o.disjunctive THEN Unread("boolean")
      ELSE IF o.tangled THEN Unread("sql negation")
      ELSE IF cue.denied THEN Unread("question negation")
      ELSE IF WantsWord(q, cue, b.span) THEN Unread("word boundary")
      ELSE IF Coordinated(q, b.span) THEN Unread("question boolean")
      ELSE IF cue.positive # o.positive THEN MatchFinding(cue, o, "contradicted", "polarity")
      ELSE IF cue.mode # o.mode THEN MatchFinding(cue, o, "contradicted", "mode")
      ELSE MatchFinding(cue, o, "supported", "match")

(* _evaluate_cue *)
MatchFindings(q, cue, obligations) ==
  LET bindings == Bindings(q, cue, obligations)
      bound == BestBound(q, cue, bindings)
      only == IF bindings = {} THEN obligations ELSE {b.obligation : b \in bindings}
  IN  IF bound # {} THEN {MatchVerdict(q, cue, b) : b \in bound}
      ELSE IF Cardinality(only) = 1 THEN
           {UnreadableFinding(cue, o, o.issue) : o \in {o \in only : o.issue # ""}}
      ELSE IF bindings = {} THEN {}
      ELSE {Finding(StringRule, "unresolved", "role", "mapping", cue.span.from,
                    {b.obligation.loc : b \in bindings})}

(* detect_string_match_alignment *)
StringFindings(q, likes, dialect) ==
  UNION {MatchFindings(q, cue, LikeObligations(likes, dialect)) : cue \in MatchCues(q)}

---------------------------------------------------------------------------
(* What the engine does, over texts that are sequences of letters: what a  *)
(* match of a kind accepts, and what may pass the nodes above a LIKE when  *)
(* nothing is known of the other operand of an AND or OR.                  *)
Matching(mode, part, texts) ==
  {t \in texts : IF mode = "exact" THEN t = part
                 ELSE IF mode = "prefix" THEN IsPrefix(part, t)
                 ELSE IF mode = "suffix" THEN IsSuffix(part, t)
                 ELSE \E i, j \in 0..Len(t) : SubSeq(t, i + 1, j) = part}

Passing(base, texts, above) ==
  LET NotsAbove(i) == Cardinality({k \in DOMAIN above : k > i /\ above[k] = "not"})
      open == \E i \in DOMAIN above :
                above[i] = IF NotsAbove(i) % 2 = 0 THEN "or" ELSE "and"
  IN  IF open THEN texts
      ELSE IF NotsAbove(0) % 2 = 0 THEN base
      ELSE texts \ base
============================================================================
