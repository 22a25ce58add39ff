------------------------------ MODULE Literals ------------------------------
(***************************************************************************)
(* _literal_alignment (consistency_detector.py): every literal a query     *)
(* compares a column with needs a source, a word of the question, of the   *)
(* evidence that comes with it, or an alias. A literal without one is left *)
(* open, unless a word of the question is so near to it that one of the    *)
(* two is a slip, or the evidence says what should stand in its place.     *)
(*                                                                         *)
(* marks says what the words of a question do not: the positions written   *)
(* with a capital, those all in upper case, those followed by more than a  *)
(* blank (breaks), and the spans in quotes. A context has                  *)
(*   hints     the evidence texts: words, and stops, the positions before  *)
(*             a full stop or a semicolon; the aggregates MIN(c) found in  *)
(*             them as [span, fn, column, table]; the assertions "label    *)
(*             means column = value" as [label, column, table, value]      *)
(*   domains   [column, table, values], the values a column may take       *)
(*   aliases   sets of terms for one value                                 *)
(* A table "" is one that is not given.                                    *)
(***************************************************************************)
EXTENDS ComparisonBoundaries, SelectShape

LiteralRule == "literal"

---------------------------------------------------------------------------
(* The dictionary, of the words that occur here.                           *)
FunctionWords == {"the", "of", "in", "is", "are", "with", "and", "or", "not", "no", "us", "who",
                  "to", "a", "whose", "from", "than"}
CommonWords == {"active", "closed", "school", "people", "players", "good", "information", "info"}
KnownWords == CommonWords \cup FunctionWords \cup {"keller", "french", "france", "texan", "texas",
                                                   "named", "martha"}

Slips == {<<"keller", "kellner">>, <<"marta", "martha">>, <<"cooke", "cookes">>,
          <<"french", "france">>, <<"texan", "texas">>, <<"closed", "clossed">>}
NamePlurals == {<<"cookes", "cooke">>}
Pertainyms == {<<"french", "france">>}
Derivations == {<<"closure", "closed">>}
Shortenings == {<<"info", "information">>}
EitherWay(pairs, a, b) == <<a, b>> \in pairs \/ <<b, a>> \in pairs

(* A value as words; the initials of one of several.                       *)
WordsOf(v) == CASE v = "united states" -> <<"united", "states">>
                [] v = "marta keller" -> <<"marta", "keller">>
                [] v = "information desk" -> <<"information", "desk">> [] OTHER -> <<v>>
Initials(words) == IF words = WordsOf("united states") THEN "us" ELSE ""
Numbers == Numerals \cup {"0", "1", "2"}
Technical == {"unknown", "yes", "no", "none", "true", "false"}

(* is_inflectional_variant: a plural in the question stands for a singular *)
(* value; a singular for what looks like a plural only if that is a common *)
(* word, as the nouns of PluralPairs are.                                  *)
Inflected(a, b) == EitherWay(PluralPairs, a, b) \/ <<a, b>> \in NamePlurals

Alike(a, b) == a = b \/ Inflected(a, b)
InflectedWords(c, words) ==
  /\ Len(c) = Len(words) /\ Front(c) = Front(words) /\ Inflected(Last(c), Last(words))

(* near_miss_distance: one word differs, by an edit or two.                *)
Near(c, words) ==
  /\ Len(c) = Len(words)
  /\ \E k \in DOMAIN c : /\ EitherWay(Slips, c[k], words[k])
                         /\ \A j \in DOMAIN c \ {k} : c[j] = words[j]

(* _is_near_miss *)
IsNearMiss(c, words) ==
  /\ Near(c, words)
  /\ ~InflectedWords(c, words)
  /\ \A k \in DOMAIN c : c[k] \notin FunctionWords
  /\ ~(ToSet(c) \cup ToSet(words) \subseteq KnownWords)

---------------------------------------------------------------------------
(* Naming: where a text names a value.                                     *)
Windows(q, width) == {Span(i, i + width - 1) : i \in 1..(Len(q) - width + 1)}
At(q, s) == SubSeq(q, s.from, s.to)
All(s, positions) == s.from..s.to \subseteq positions
ColumnWords(column) == {w \in IdentifierTokens(column) : Len(w) >= 4}

(* _ordinal_span_matches_role: "fifth rank", of a column that is a rank.   *)
OrdinalWord(v) == CASE v = "1" -> <<"first">> [] v = "2" -> <<"second">>
                    [] v = "5" -> <<"fifth">> [] OTHER -> <<>>
Ordinals(q, o) ==
  {s \in Occurrences(q, OrdinalWord(o.value)) :
     \E i \in DOMAIN q \cap {s.from - 1, s.to + 1}, w \in ColumnWords(o.column) :
       Singular(q[i]) = Singular(w)}

Times(v) == CASE v = "1" -> <<"once">> [] v = "2" -> <<"twice">> [] v = "3" -> <<"thrice">>
              [] OTHER -> <<>>
Quantifier(o) == IF o.column = "member_count" /\ o.value = "1" THEN <<"single">> ELSE <<>>

(* is_abbreviation_variant: initials in upper case; shortened words beside *)
(* whole ones; all words but one; a word that is no common one.            *)
Abbreviates(c, words, upper) ==
  \/ Len(c) = 1 /\ upper /\ Len(words) > 1 /\ c[1] = Initials(words)
  \/ /\ Len(c) = Len(words) /\ Len(words) > 1
     /\ \E k \in DOMAIN c : EitherWay(Shortenings, c[k], words[k])
     /\ \A k \in DOMAIN c : Alike(c[k], words[k]) \/ EitherWay(Shortenings, c[k], words[k])
  \/ /\ Len(c) < Len(words)
     /\ \E k \in 0..(Len(words) - Len(c)) :
          \/ Len(c) > 1 /\ Len(c) = Len(words) - 1 /\ \A j \in DOMAIN c : Alike(c[j], words[k + j])
          \/ /\ c = SubSeq(words, k + 1, k + Len(c))
             /\ upper \/ ~(ToSet(c) \subseteq CommonWords)

(* _abbreviation_spans: a misspelling of the whole value keeps its parts   *)
(* from standing for it; of single words, those in no dictionary come      *)
(* first.                                                                  *)
Abbreviations(q, upper, words) ==
  LET Short(s) == Abbreviates(At(q, s), words, All(s, upper))
      whole == Windows(q, Len(words))
      spans == {s \in UNION {Windows(q, width) : width \in 1..Len(words)} :
                  /\ Short(s) /\ ~(ToSet(At(q, s)) \subseteq Numbers)
                  /\ All(s, upper) \/ ~(ToSet(At(q, s)) \subseteq FunctionWords)}
      kept == IF \E s \in whole : Near(At(q, s), words) /\ ~Short(s) THEN spans \cap whole ELSE spans
      maximal == {s \in kept : \A t \in kept : t.from <= s.from /\ s.to <= t.to => t = s}
      unknown == {s \in maximal : s.from = s.to /\ Singular(q[s.from]) \notin KnownWords}
  IN  IF unknown = {} THEN maximal ELSE {s \in maximal : s.from < s.to} \cup unknown

(* _naming_match: the first of the ways in which a value is found.         *)
FirstFound(ways) ==
  LET found == {k \in DOMAIN ways : ways[k] # {}}
  IN  IF found = {} THEN {} ELSE ways[Min(found)]
Kin(q, words, pairs) ==
  {s \in Windows(q, 1) : Len(words) = 1 /\ EitherWay(pairs, q[s.from], words[1])}
Naming(q, upper, o) ==
  LET words == WordsOf(o.value)
  IN  FirstFound(<<Occurrences(q, words)>> \o
        IF o.value \in Numbers
        THEN <<Occurrences(q, NumberWords(o.value)), Occurrences(q, Times(o.value)),
               Occurrences(q, Quantifier(o)), Ordinals(q, o)>>
        ELSE <<{s \in Windows(q, Len(words)) : InflectedWords(At(q, s), words)},
               Kin(q, words, Pertainyms), Kin(q, words, Derivations), Abbreviations(q, upper, words)>>)

---------------------------------------------------------------------------
(* _evidence_range_is_affirmative: no negation within four words, nothing  *)
(* that sets the value aside in the 40 characters before it, and no        *)
(* "isn't" right after it; the last two look no further than a full stop   *)
(* or a semicolon.                                                         *)
AvoidPhrases == {<<"avoid">>, <<"exclude">>, <<"excluding">>, <<"instead", "of">>,
                 <<"rather", "than">>, <<"as", "opposed", "to">>, <<"in", "contrast", "to">>}
Auxiliaries == {"is", "are", "was", "were", "does", "do", "should", "must"}
Refusals == {"not", "never", "isn't", "aren't"}

SetAside(hint, s) ==
  \E p \in AvoidPhrases : \E t \in Occurrences(hint.words, p) :
    /\ t.to < s.from /\ StartOf(hint.words, s.from) - StartOf(hint.words, t.from) <= 40
    /\ t.to..(s.from - 1) \cap hint.stops = {}
Affirmative(hint, s) == LET words == hint.words IN
  /\ ~\E i \in DOMAIN words : /\ i \in (s.from - 4)..(s.to + 4)
                              /\ words[i] \in {"no", "not", "never", "without"}
  /\ ~SetAside(hint, s)
  /\ ~\E i \in DOMAIN words : /\ words[i] \in Refusals /\ s.to..(i - 1) \cap hint.stops = {}
                              /\ i = s.to + 1 \/ (i = s.to + 2 /\ words[s.to + 1] \in Auxiliaries)
Affirmed(hint, spans) == \E s \in spans : Affirmative(hint, s)

\* Mutant: evidence that sets a value aside is a source of it.
License_Denied(q, marks, context, o) ==
  IF Naming(q, marks.upper, o) # {} THEN "question"
  ELSE IF \E k \in DOMAIN context.hints : Naming(context.hints[k].words, {}, o) # {} THEN "evidence"
  ELSE IF \E group \in context.aliases : WordsOf(o.value) \in group
                                      /\ \E t \in group \ {WordsOf(o.value)} : Occurrences(q, t) # {} THEN "alias"
  ELSE "none"

(* _literal_license: the source of a value, the question before the        *)
(* evidence before an alias found in either.                               *)
License(q, marks, context, o) ==
  LET hints == ToSet(context.hints)
      terms == UNION {group \ {WordsOf(o.value)} :
                        group \in {g \in context.aliases : WordsOf(o.value) \in g}}
  IN  IF Naming(q, marks.upper, o) # {} THEN "question"
      ELSE IF \E h \in hints : Affirmed(h, Naming(h.words, {}, o)) THEN "evidence"
      ELSE IF \E t \in terms : \/ Occurrences(q, t) # {}
                               \/ \E h \in hints : Affirmed(h, Occurrences(h.words, t)) THEN "alias"
      ELSE "none"

LiteralFinding(o, status, reason, target) ==
  [rule |-> LiteralRule, status |-> status, reason |-> reason, target |-> target,
   at |-> 0, locs |-> {o.loc}, value |-> o.value]

---------------------------------------------------------------------------
(* Contradictions. The one quoted value of the question against the one    *)
(* text of the query, unless words near the quotes name the column of      *)
(* another predicate (48 characters before, 24 after).                     *)
NamesAnotherRole(q, s, o, obligations) ==
  \E other \in obligations \ {o}, i \in DOMAIN q :
    /\ EndOf(q, i) >= StartOf(q, s.from) - 48 /\ StartOf(q, i) <= EndOf(q, s.to) + 24
    /\ \E w \in ColumnWords(other.column) \ {"code", "identifier", "number", "value"} : SameWord(q[i], w)

(* _quoted_value_contradiction *)
QuotedConflicts(q, marks, obligations, context) ==
  LET texts == {o \in obligations : o.value \notin Numbers}
  IN  {LiteralFinding(o, "contradicted", "quoted", "mapping") :
         o \in {o \in texts : \E s \in marks.quoted :
                  /\ Cardinality(texts) = 1 /\ Cardinality(marks.quoted) = 1
                  /\ ~NamesAnotherRole(q, s, o, obligations)
                  /\ ~(ToSet(At(q, s)) \subseteq Numbers)
                  /\ License(q, marks, context, o) = "none"
                  /\ At(q, s) # WordsOf(o.value)
                  /\ ~InflectedWords(At(q, s), WordsOf(o.value))}}

(* _conjunctive_groups: two predicates of one clause that holds no OR, if  *)
(* the scopes could be told apart. Each join's ON is a clause of its own;  *)
(* a query has one of them here.                                           *)
Together(select, where, i, j) ==
  /\ select.reliable
  /\ where[i].clause = where[j].clause /\ where[i].nested = where[j].nested
  /\ \A k \in DOMAIN where :
       where[k].clause = where[i].clause /\ where[k].nested = where[i].nested
         => "or" \notin where[k].under

(* _adjacent_candidate_span: right before the anchor or right after it,    *)
(* with nothing but a blank between, and in capitals.                      *)
Beside(q, marks, anchor, width) ==
  LET before == Span(anchor.from - width, anchor.from - 1)
      after == Span(anchor.to + 1, anchor.to + width)
  IN  {s \in {before, after} :
         /\ s \in Windows(q, width) /\ s.from \in marks.capital
         /\ (IF s = before THEN s.to ELSE anchor.to) \notin marks.breaks}

(* _strong_pair_near_miss: the value of another column of the same row is  *)
(* named, and the word beside it is nearly this one.                       *)
StrongPair(q, marks, where, select, target, named) ==
  \E o \in named :
    /\ o.table = target.table /\ o.column # target.column /\ o.relevant = target.relevant
    /\ Together(select, where, o.loc, target.loc)
    /\ LET anchors == Naming(q, marks.upper, o)
           first == CHOOSE s \in anchors : \A t \in anchors : s.from <= t.from
           words == WordsOf(target.value)
       IN  \E s \in Beside(q, marks, first, Len(words)) : IsNearMiss(At(q, s), words)

(* _weak_unique_near_miss: of all the question, one place is near.         *)
WeakUnique(q, target) ==
  LET words == WordsOf(target.value)
  IN  Cardinality({s \in Windows(q, Len(words)) : IsNearMiss(At(q, s), words)}) = 1

(* _near_miss_contradictions *)
NearConflicts(q, marks, where, select, obligations, context) ==
  LET Source(o) == License(q, marks, context, o)
      texts == {o \in obligations : o.value \notin Numbers \cup Technical /\ o.op \in {"EQ", "IN"}}
      named == {o \in texts : Source(o) = "question"}
      targets == {o \in texts : Source(o) = "none" /\ Len(o.value) >= 4}
  IN  {LiteralFinding(o, "contradicted", "near miss", "mapping") :
         o \in {o \in targets : \/ StrongPair(q, marks, where, select, o, named)
                                \/ Cardinality(targets) = 1 /\ WeakUnique(q, o)}}

(* _explicit_literal_contradictions: what the quotes say comes first.      *)
Conflicts(q, marks, where, select, obligations, context) ==
  LET quoted == QuotedConflicts(q, marks, obligations, context)
      claimed == UNION {f.locs : f \in quoted}
  IN  quoted \cup NearConflicts(q, marks, where, select, {o \in obligations : o.loc \notin claimed}, context)

---------------------------------------------------------------------------
(* _evidence_aggregate_substitution_finding: the evidence asks for an      *)
(* aggregate of the column and the query has a constant in its place.      *)
TermsOf(select) ==
  {select.projections[k].term : k \in DOMAIN select.projections}
    \cup {select.order[k].term : k \in DOMAIN select.order}
SourceMatches(c, reference, o) ==
  c.name = o.column /\ c.table = IF reference.table = "" THEN o.table ELSE reference.table

(* _aggregate_realized_in_sql: anywhere in the scope of the literal or     *)
(* around it, a sum divided by a count being an average; or by the first   *)
(* row of an ORDER BY.                                                     *)
Realized(select, reference, o) ==
  LET terms == TermsOf(select) \cup IF o.relevant THEN {} ELSE {f.term : f \in select.nested}
      Matches(t) == \E c \in ColumnsOf(t) : SourceMatches(c, reference, o)
  IN  \/ \E t \in terms : t.fn = reference.fn /\ Matches(t)
      \/ \E t \in terms : reference.fn = "AVG" /\ t.fn = "SUM" /\ t.outer = "per count" /\ Matches(t)
      \/ /\ reference.fn # "AVG" /\ o.relevant
         /\ select.limit.kind = "number" /\ select.limit.n = 1
         /\ \E k \in DOMAIN select.order :
              /\ Column(o.column, o.table) \in ColumnsOf(select.order[k].term)
              /\ select.order[k].desc <=> reference.fn = "MAX"

ReferencesIn(hint, o) ==
  {a \in hint.aggregates : /\ Affirmative(hint, a.span)
                           /\ a.column = o.column /\ a.table \in {"", o.table}}

(* The first evidence text that asks for one decides; MIN(rank) = 1 may be *)
(* what the ranking guarantees.                                            *)
Substitutions(o, select, context) ==
  LET asking == {k \in DOMAIN context.hints : ReferencesIn(context.hints[k], o) # {}}
      hint == context.hints[Min(asking)]
      ranking == {"place", "position", "rank", "ranking"} \cap ToSet(hint.words) # {}
  IN  IF o.op # "EQ" \/ ~select.reliable \/ asking = {} THEN {}
      ELSE {IF r.fn = "MIN" /\ o.value = "1" /\ ranking
            THEN LiteralFinding(o, "unresolved", "aggregate constant", "context")
            ELSE LiteralFinding(o, "contradicted", "aggregate substituted", "sql") :
              r \in {r \in ReferencesIn(hint, o) : ~Realized(select, r, o)}}

(* _evidence_label_question_alignment: the label's first content word is   *)
(* in the question, and half of them are, as often denied as in the label. *)
Semantic == {"no", "not", "never", "without", "doesn't", "don't", "isn't", "aren't", "wasn't", "weren't"}
LabelAgrees(label, q) ==
  LET denials == {i \in DOMAIN label : label[i] \in Semantic}
      last == IF denials = {} THEN 0 ELSE Max(denials)
      content == {i \in DOMAIN label : i > last /\ label[i] \notin FunctionWords}
      Places(i) == {j \in DOMAIN q : Alike(q[j], label[i])}
      anchors == Places(Min(content))
      met == {label[i] : i \in {i \in content : Places(i) # {}}}
      Rejected(j) == \E i \in DOMAIN q : i \in (j - 4)..(j - 1) /\ q[i] \in Semantic
  IN  /\ content # {} /\ anchors # {}
      /\ 2 * Cardinality(met) >= Cardinality({label[i] : i \in content})
      /\ \A j \in anchors : Rejected(j) <=> denials # {}

(* _evidence_literal_alignment_finding: 0 where the evidence says 1.       *)
Mismatches(q, o, obligations, select, context) ==
  LET all == UNION {h.mappings : h \in ToSet(context.hints)}
      qualified == {m \in all : m.column = o.column /\ m.table # "" /\ m.table = o.table}
      owners == {<<p.relevant, p.table>> : p \in {p \in obligations : p.op = "EQ" /\ p.column = o.column}}
      matches == IF qualified # {} THEN qualified
                 ELSE {m \in all : m.column = o.column /\ m.table = "" /\ Cardinality(owners) = 1}
      expected == {m.value : m \in {m \in matches : LabelAgrees(m.label, q)}}
  IN  IF /\ o.op = "EQ" /\ select.reliable /\ Cardinality(expected) = 1
         /\ expected \cup {o.value} \subseteq {"0", "1"} /\ o.value \notin expected
      THEN {LiteralFinding(o, "contradicted", "evidence value", "sql")} ELSE {}

---------------------------------------------------------------------------
(* A literal without a source. A column that holds 0 and 1 says yes or no  *)
(* to what its name says.                                                  *)
DomainOf(context, o) ==
  LET Given(tables) == {d.values : d \in {d \in context.domains : d.column = o.column /\ d.table \in tables}}
      qualified == Given({o.table} \ {""})
      candidates == IF qualified # {} THEN qualified ELSE Given({""})
  IN  IF candidates = {} THEN "unknown"
      ELSE IF candidates = {{"0", "1"}} THEN "boolean"
      ELSE "other"
LooksBoolean(column) == IdentifierTokens(column) \cap {"is", "has", "can"} # {}

(* _span_is_negated: within three words before.                            *)
FeatureDenied(q, i) ==
  LET before == {q[j] : j \in DOMAIN q \cap (i - 3)..(i - 1)}
  IN  \/ before \cap {"except", "exclude", "excluding", "no", "not", "never", "without"} # {}
      \/ {"other", "than"} \subseteq before

(* _role_reference_spans: the column's word as it is, or in another form.  *)
RolePlaces(q, column) ==
  UNION {LET exact == {i \in DOMAIN q : q[i] = w}
         IN  IF exact # {} THEN exact ELSE {i \in DOMAIN q : SameWord(q[i], w)} :
         w \in ColumnWords(column) \ FunctionWords}

(* _boolean_flag_finding *)
Flags(q, o, context) ==
  LET domain == DomainOf(context, o)
      places == RolePlaces(q, o.column)
      applies == /\ o.op = "EQ" /\ o.value \in {"0", "1"} /\ domain # "other"
                 /\ domain = "boolean" \/ LooksBoolean(o.column)
                 /\ places # {} /\ (o.value = "0" <=> FeatureDenied(q, Min(places)))
  IN  IF ~applies THEN {}
      ELSE {IF domain = "boolean" THEN LiteralFinding(o, "supported", "flag", "mapping")
            ELSE LiteralFinding(o, "unresolved", "flag", "context")}

(* _is_unrequested_filter_candidate: ordinary words that nothing in the    *)
(* question resembles, and no evidence that might mean them.               *)
Resembles(c, words) ==
  \A k \in DOMAIN c : \/ SameWord(c[k], words[k]) \/ Alike(c[k], words[k])
                      \/ \E pairs \in {Slips, Pertainyms, Derivations, Shortenings} :
                           EitherWay(pairs, c[k], words[k])
Unrequested(q, o, context) ==
  LET words == WordsOf(o.value)
  IN  /\ context.hints = <<>> /\ o.op = "EQ" /\ o.value \notin Numbers \cup Technical
      /\ ToSet(words) \subseteq CommonWords /\ \A k \in DOMAIN words : Len(words[k]) >= 4
      /\ ~\E s \in Windows(q, Len(words)) : Near(At(q, s), words) \/ Resembles(At(q, s), words)

(* _unlicensed_literal_finding *)
Unlicensed(q, o, context) ==
  LET vague == /\ o.value \in Numbers /\ o.op \in {"GT", "GTE", "LT", "LTE"}
               /\ \E i \in DOMAIN q : q[i] \in {"good", "major"}
  IN  IF Flags(q, o, context) # {} THEN Flags(q, o, context)
      ELSE IF vague THEN {LiteralFinding(o, "unresolved", "threshold", "context")}
      ELSE IF Unrequested(q, o, context) THEN {LiteralFinding(o, "unresolved", "filter", "sql")}
      ELSE {LiteralFinding(o, "unresolved", "unlicensed", "mapping")}

(* _literal_alignment: one verdict for every literal of a predicate that   *)
(* is not contradicted as a whole.                                         *)
LiteralFindings(q, marks, where, select, context) ==
  LET obligations == Obligations(where)
      conflicts == Conflicts(q, marks, where, select, obligations, context)
      claimed == UNION {f.locs : f \in conflicts}
      Of(o) == LET instead == Substitutions(o, select, context)
                   mismatches == Mismatches(q, o, obligations, select, context)
               IN  IF instead # {} THEN instead
                   ELSE IF mismatches # {} THEN mismatches
                   ELSE IF License(q, marks, context, o) # "none" THEN
                          {LiteralFinding(o, "supported", "licensed", "mapping")}
                   ELSE Unlicensed(q, o, context)
  IN  conflicts \cup UNION {Of(o) : o \in {o \in obligations : o.loc \notin claimed}}
============================================================================
