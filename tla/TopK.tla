------------------------------- MODULE TopK -------------------------------
(***************************************************************************)
(* ordering_topk_alignment (ordering_topk_alignment.py): a question that   *)
(* asks for the top or bottom n of something, or for what is highest or    *)
(* lowest, bound by role to the first ORDER BY key of the root query, and  *)
(* whether its direction and the LIMIT are those asked for. Most of the    *)
(* rule decides when not to decide.                                        *)
(*                                                                         *)
(* Conventions are what the evidence says an extremum is:                  *)
(*   [phrase, extremum, term], "highest rank refers to MIN(rank)"          *)
(***************************************************************************)
EXTENDS SelectShape

TopKRule == "topk"

DescendingCues == {"top", "highest", "best"}
AscendingCues == {"bottom", "lowest", "worst"}
CueWords == DescendingCues \cup AscendingCues
ImplicitOneCues == {"highest", "lowest"}
WeakPolarityCues == {"top", "bottom"}
AscendingSignals == {"alphabetical", "ascending", "earliest", "least", "lowest", "shortest",
                     "smallest", "worst"}
DescendingSignals == {"best", "descending", "greatest", "highest", "largest", "latest", "most"}
EntityOpeners == {"which", "who", "whose"}
RelationMarkers == EntityOpeners \cup {"has", "have", "having", "that", "with"}
LeadingCountOpeners == {"give", "identify", "indicate", "list", "name", "provide", "return",
                        "show", "state"}
FilterPrepositions == {"above", "after", "at", "before", "below", "fewer", "less", "more",
                       "over", "than", "under"}

Has(q, phrase) == Occurrences(q, phrase) # {}
Counts == [w \in {"1", "2", "3", "one", "two", "three"} |->
  CASE w \in {"1", "one"} -> 1 [] w \in {"2", "two"} -> 2 [] w \in {"3", "three"} -> 3]

(* _number_at, of the numbers up to nineteen: one word each.               *)
NumberAt(q, i) == i \in DOMAIN q /\ q[i] \in DOMAIN Counts

---------------------------------------------------------------------------
(* _is_full_order_request: not the best, but all of them in order.         *)
FullOrder(q) ==
  \/ \E way \in {"ascending", "descending"} : Has(q, <<way, "order">>)
  \/ \E verb \in {"order", "ordered", "sort", "sorted"} : Has(q, <<verb, "by">>)
  \/ \E i, j \in DOMAIN q : /\ i < j /\ q[i] \in {"highest", "lowest", "sort", "sorted"}
                            /\ q[j] \in {"first", "last"} /\ StartOf(q, j) - EndOf(q, i) <= 64
  \/ \E the \in {<<>>, <<"the">>}, w \in ImplicitOneCues : Has(q, <<"starting", "with">> \o the \o <<w>>)
  \/ Has(q, <<"highest", "to", "lowest">>) \/ Has(q, <<"lowest", "to", "highest">>)

(* _count_left_context_allowed: what may stand before a number that counts *)
(* results.                                                                *)
CountAllowed(q, i, immediate) ==
  LET Before(k) == IF i > k THEN q[i - k] ELSE ""
  IN  CASE Before(1) \in FilterPrepositions -> FALSE
        [] Before(1) = "the" ->
             /\ Before(2) # "of"
             /\ immediate \/ Before(2) \notin {"across", "among", "at", "between", "for", "from",
                                               "in", "on", "out", "within", "with"}
        [] OTHER -> \/ Before(1) \in {"any", "what", "which"} \cup LeadingCountOpeners
                    \/ Before(1) = "out" /\ Before(2) \in LeadingCountOpeners

(* The word that ties what is ranked to the cue.                           *)
Relation(q, at) == Max({0} \cup {i \in 1..(at - 1) : q[i] \in RelationMarkers})

(* _count_immediately_before_cue *)
CountBefore(q, at) == {i \in {at - 1} : i > 0 /\ NumberAt(q, i) /\ CountAllowed(q, i, TRUE)}

(* _leading_result_count, _is_result_count_candidate: "list 3 players who  *)
(* have the highest".                                                      *)
LeadingCount(q, at) ==
  LET relation == Relation(q, at)
      fits == {i \in Max({1, relation - 8})..(relation - 1) :
                 /\ NumberAt(q, i) /\ CountAllowed(q, i, FALSE)
                 /\ relation - i - 1 \in 1..3 /\ q[i + 1] \in Plurals
                 /\ \A k \in (i + 1)..(relation - 1) : q[k] \notin {"and", "of", "or"}}
  IN  IF at <= 2 \/ relation = 0 \/ fits = {} THEN {} ELSE {Min(fits)}

(* _implicit_extremum_is_entity_request: what has the highest value is     *)
(* asked for, not the value.                                               *)
EntityRequest(q, at) ==
  LET Ends(phrase) == \E the \in {<<>>, <<"the">>} : IsSuffix(phrase \o the, SubSeq(q, 1, at - 1))
  IN  /\ \A v \in {"is", "was", "are", "were"} : ~Ends(<<"what", v>>)
      /\ ~Ends(<<"is", "it", "true", "that">>)
      /\ q[1] \in EntityOpeners \/ \E i \in Max({1, at - 8})..(at - 1) : q[i] \in RelationMarkers

(* _plural_entity_head_before_cue *)
PluralHead(q, at) == Relation(q, at) > 1 /\ q[Relation(q, at) - 1] \in Plurals

(* _has_plain_cardinal_before_cue: a number that counts something else.    *)
CardinalBefore(q, at) == \E i \in 1..(at - 1) : NumberAt(q, i)

(* _signal_direction *)
Signal(q, i) ==
  CASE q[i] \in AscendingSignals -> "asc" [] q[i] \in DescendingSignals -> "desc"
    [] q[i] = "fastest" /\ \E k \in (i + 1)..(i + 3) : k \in DOMAIN q /\ q[k] \in {"lap", "time", "times"} -> "asc"
    [] OTHER -> ""

(* _direction_signals: after the cue, up to a word that opens another      *)
(* clause or the second word after "by".                                   *)
Signals(q, from) ==
  LET LastBy(i) == Max({0} \cup {k \in from..(i - 1) : q[k] = "by"})
      Closes(i) == \/ q[i] = "then"
                   \/ LastBy(i) > 0 /\ q[i] \in {"choose", "find", "has", "have", "having", "select",
                                                 "that", "which", "who"}
                   \/ LastBy(i) > 0 /\ i - LastBy(i) > 2 /\ Signal(q, i) # ""
  IN  {i \in from..Len(q) : Signal(q, i) # "" /\ \A k \in from..i : ~Closes(k)}

(* The last word of a cue, its number included.                            *)
CueEnd(q, i) == IF NumberAt(q, i + 1) THEN i + 1 ELSE i

(* "top three lowest": the second word gives the direction of the first.   *)
Absorbed(q) ==
  UNION {LET signals == Signals(q, CueEnd(q, i) + 1)
         IN  {j \in signals : j = Min(signals) /\ q[j] \in CueWords} :
         i \in {i \in DOMAIN q : q[i] \in WeakPolarityCues /\ NumberAt(q, i + 1)}}

(* _topk_cues, at one word.                                                *)
TopKCue(q, i) ==
  LET numbered == NumberAt(q, i + 1)
      full == q[i] \in ImplicitOneCues /\ FullOrder(q)
      entity == ~numbered /\ EntityRequest(q, i)
      before == IF CountBefore(q, i) # {} THEN CountBefore(q, i) ELSE LeadingCount(q, i)
      leading == IF numbered THEN {} ELSE before
      signals == Signals(q, CueEnd(q, i) + 1)
      base == IF q[i] \in DescendingCues THEN "desc" ELSE "asc"
      directions == {Signal(q, j) : j \in signals} \cup IF q[i] \in WeakPolarityCues THEN {} ELSE {base}
  IN  [at |-> i, end |-> CueEnd(q, i),
       n |-> IF numbered THEN Counts[q[i + 1]]
             ELSE IF leading # {} THEN Counts[q[CHOOSE j \in leading : TRUE]] ELSE 1,
       desc |-> IF Cardinality(directions) = 1 THEN directions = {"desc"} ELSE base = "desc",
       conflicting |-> Cardinality(directions) > 1,
       implicit |-> ~numbered /\ leading = {} /\ ~full,
       scalar |-> ~numbered /\ ~full /\ ~entity,
       full |-> full,
       anchor |-> IF signals = {} THEN CueEnd(q, i) ELSE Min(signals),
       explicit |-> q[i] \in ImplicitOneCues \/ signals # {},
       uncounted |-> leading = {} /\ (CardinalBefore(q, i) \/ (entity /\ PluralHead(q, i)))]

(* _topk_cues: a word without a number is a cue only if it implies one.    *)
TopKCues(q) ==
  {TopKCue(q, i) : i \in {i \in DOMAIN q : /\ q[i] \in ImplicitOneCues \/ (q[i] \in CueWords /\ NumberAt(q, i + 1))
                                           /\ i \notin Absorbed(q)}}

---------------------------------------------------------------------------
TopKSkipped == {"code", "column", "id", "identifier", "key", "num", "number", "the", "value"}

(* _span_is_local_to_cue: within 32 characters after the cue or the word   *)
(* that gives its direction.                                               *)
Local(q, cue, i) ==
  \E anchor \in {StartOf(q, cue.at), EndOf(q, cue.end), EndOf(q, cue.anchor)} :
    StartOf(q, i) - anchor \in 0..32

(* A column the primary key of the query may be about, the words that say  *)
(* so, whether the key is that column itself and whether it is surely the  *)
(* one asked for.                                                          *)
Binding(role, said, plain, explicit, tokens) ==
  [role |-> role, said |-> said, plain |-> plain, explicit |-> explicit, tokens |-> tokens]

(* _order_bindings *)
OrderBindings(q, cue, term) ==
  {b \in {Binding(c, {i \in RoleAt(q, c.name, TopKSkipped) : Local(q, cue, i)}, IsColumn(term), FALSE,
                  IdentifierTokens(c.name)) : c \in {c \in ColumnsOf(term) : c.table # ""}} :
     b.said # {}}

(* _count_table_order_binding: COUNT( * ) of the groups of one table, for  *)
(* "the number of <table>" at the end of the question.                     *)
CountBinding(q, cue, select) ==
  LET named == {i \in DOMAIN q : q[i] \in TableWords(select.tables[1])}
      inflected == {i \in DOMAIN q : \E w \in TableWords(select.tables[1]) : SameWord(q[i], w)}
      said == {i \in IF named # {} THEN named ELSE inflected :
                 /\ i > cue.end /\ i = Len(q) /\ Local(q, cue, i)
                 /\ \E what \in {"count", "number"}, the \in {<<>>, <<"the">>} :
                      IsSuffix(<<what, "of">> \o the, SubSeq(q, cue.end + 1, i - 1))}
  IN  IF /\ select.order[1].term = Term("COUNT", <<>>, "", "")
         /\ select.group # <<>> /\ Len(select.tables) = 1 /\ said # {}
      THEN {Binding(Column("count", select.tables[1]), said, TRUE, TRUE, TableWords(select.tables[1]))} ELSE {}

---------------------------------------------------------------------------
(* _sql_order_signature, _functional_order_signature: terms of which the   *)
(* evidence and the query can be compared.                                 *)
Signed(t) == t.fn \in {"", "COUNT"} /\ t.inner = "" /\ t.outer \in {"", "divide"}
Signature(t) == <<t.fn, t.outer, [k \in DOMAIN t.columns |-> t.columns[k].name]>>

UnheardWords == {"amount", "ascending", "average", "best", "bottom", "by", "count", "descending",
  "highest", "in", "least", "lowest", "max", "min", "most", "number", "of", "the", "top", "total",
  "value", "worst"}
GenericEntities == {"book", "customer", "employee", "entity", "film", "item", "movie", "people",
  "person", "player", "product", "record", "row", "team"}
Content(words) == {Singular(words[i]) : i \in DOMAIN words} \ UnheardWords

(* _evidence_phrase_matches_question: three quarters of the phrase stand   *)
(* in the clause of the cue, and not only the kind of entity.              *)
PhraseFits(q, cue, c) ==
  LET closing == {i \in (cue.end + 1)..Len(q) : q[i] \in {"among", "and", "but", "whereas", "while"}}
      said == Content(c.phrase)
      shared == said \cap Content(SubSeq(q, cue.at, Min(closing \cup {Len(q) + 1}) - 1))
      meant == UNION {IdentifierTokens(k.name) : k \in ColumnsOf(c.term)}
  IN  /\ said # {} /\ 4 * Cardinality(shared) >= 3 * Cardinality(said)
      /\ shared \subseteq GenericEntities => shared \cap meant # {}

(* _evidence_phrase_direction, of a phrase with words of one side only.    *)
PhraseAgrees(cue, c) ==
  LET said == {c.phrase[i] : i \in DOMAIN c.phrase}
      up == said \cap {"bottom", "least", "lowest", "worst"} # {}
      down == said \cap {"best", "highest", "most", "top"} # {}
  IN  (up <=> down) \/ (cue.desc <=> down)

(* _context_order_evidence *)
Applying(q, cue, conventions) ==
  {c \in conventions : /\ PhraseAgrees(cue, c) /\ PhraseFits(q, cue, c)
                       /\ Signed(c.term) /\ c.term.columns # <<>>}
Directions(conventions) == {c.extremum = "max" : c \in conventions}

(* _context_order_binding: a key that the evidence gives for this cue.     *)
ContextBinding(q, cue, term, conventions) ==
  LET same == {c \in Applying(q, cue, conventions) : Signed(term) /\ Signature(c.term) = Signature(term)}
      tables == {c.table : c \in ColumnsOf(term)}
  IN  IF Cardinality(Directions(same)) = 1 /\ "" \notin tables
      THEN {Binding(Column("expression", ""), {}, TRUE, TRUE,
                    UNION {IdentifierTokens(c.name) : c \in ColumnsOf(term)})}
      ELSE {}

(* The bindings of the primary key: by its role, by the evidence unless    *)
(* the role is unique, and by the table that is counted.                   *)
Bound(q, cue, select, conventions) ==
  LET direct == OrderBindings(q, cue, select.order[1].term)
      given == ContextBinding(q, cue, select.order[1].term, conventions)
      chosen == IF Cardinality(direct) # 1 /\ given # {} THEN given ELSE direct
  IN  IF chosen = {} THEN CountBinding(q, cue, select) ELSE chosen

---------------------------------------------------------------------------
(* _has_group_quantifier: the best of each group is asked for.             *)
GroupQuantifier(q, select) ==
  \/ \E i \in DOMAIN q : q[i] \in {"each", "every", "respective"}
  \/ Has(q, <<"for", "all">>)
  \/ \E k \in DOMAIN select.group, which \in {<<>>, <<"each">>, <<"the">>, <<"their">>},
       to \in {"across", "by", "per", "within"} :
       \E w \in IdentifierTokens(select.group[k].name), p \in DOMAIN q :
         /\ Singular(q[p]) = w \/ q[p] = w
         /\ IsSuffix(<<to>> \o which, SubSeq(q, 1, p - 1))

\* Mutant: OFFSET is overlooked.
UnsupportedShape_Offset(select) == select.limit.kind = "fetch" \/ select.ranked

(* _has_unsupported_shape, _has_window_ranking *)
UnsupportedShape(select) == select.offset > 0 \/ select.limit.kind = "fetch" \/ select.ranked

(* _has_extremum_selection *)
HasExtremum(select) ==
  \/ \E f \in select.nested : f.term.fn \in {"MIN", "MAX"}
  \/ \E k \in DOMAIN select.projections : select.projections[k].term.fn \in {"MIN", "MAX"}

(* _binding_is_by_target *)
ByTarget(q, cue, b) ==
  \E i \in b.said, the \in {<<>>, <<"the">>} :
    i > cue.end /\ IsSuffix(<<"by">> \o the, SubSeq(q, cue.end + 1, i - 1))

OrdinalWords == {"grid", "place", "position", "rank", "ranking", "seed", "standing"}

TopKSays(cue, status, reason, target) == Finding(TopKRule, status, reason, target, cue.at, {1})
Unresolved(cue, reason) == TopKSays(cue, "unresolved", reason, "mapping")
NotAssessed(cue, reason) == TopKSays(cue, "not_assessed", reason, "sql")
Conflict(cue, reason) == TopKSays(cue, "contradicted", reason, "mapping")

(* _evaluate_cue, without an ORDER BY.                                     *)
UnorderedVerdict(cue, select) ==
  IF select.nestedOrder THEN Unresolved(cue, "scope")
  ELSE IF cue.implicit \/ select.rankPredicate \/ HasExtremum(select) THEN NotAssessed(cue, "selection")
  ELSE IF ~cue.explicit THEN Unresolved(cue, "role")
  ELSE TopKSays(cue, "contradicted", "order missing", "sql")

(* _evaluate_cue, of the LIMIT: one that differs from a number which the   *)
(* question does not give is no defect.                                    *)
LimitVerdict(cue, limit) ==
  LET differs == IF cue.implicit /\ cue.uncounted THEN Unresolved(cue, "role") ELSE Conflict(cue, "limit")
  IN  IF limit.kind = "none" THEN differs
      ELSE IF limit.kind = "computed" \/ limit.n = 0 THEN NotAssessed(cue, "limit")
      ELSE IF limit.n # cue.n THEN differs
      ELSE TopKSays(cue, "supported", "top k", "mapping")

(* _evaluate_cue, of the key that is bound: the evidence may give another  *)
(* key or direction, then nothing is decided.                              *)
OrderedVerdict(q, cue, b, select, conventions) ==
  LET key == select.order[1]
      evidence == Applying(q, cue, conventions)
      signatures == {Signature(c.term) : c \in evidence}
      ordinal == \E w \in b.tokens : Singular(w) \in OrdinalWords
  IN  IF ~(cue.explicit \/ b.explicit \/ ByTarget(q, cue, b)) THEN Unresolved(cue, "role")
      ELSE IF evidence # {} /\ ~(Signed(key.term) /\ signatures = {Signature(key.term)}) THEN
             Unresolved(cue, "convention")
      ELSE IF evidence # {} /\ Directions(evidence) # {cue.desc} THEN Unresolved(cue, "convention")
      ELSE IF evidence = {} /\ ordinal THEN Unresolved(cue, "ordinal")
      ELSE IF ~b.plain THEN NotAssessed(cue, "expression")
      ELSE IF key.desc # cue.desc THEN Conflict(cue, "direction")
      ELSE LimitVerdict(cue, select.limit)

(* _evaluate_cue *)
TopKFinding(q, cue, select, conventions) ==
  LET bound == Bound(q, cue, select, conventions)
  IN  IF cue.scalar \/ cue.conflicting THEN Unresolved(cue, "role")
      ELSE IF ~select.reliable THEN Unresolved(cue, "scope")
      ELSE IF GroupQuantifier(q, select) THEN NotAssessed(cue, "per group")
      ELSE IF cue.full THEN NotAssessed(cue, "full order")
      ELSE IF UnsupportedShape(select) THEN NotAssessed(cue, "shape")
      ELSE IF /\ Aggregates(select) /\ select.group = <<>>
              /\ select.order # <<>> \/ select.limit.kind # "none" THEN NotAssessed(cue, "one row")
      ELSE IF select.order = <<>> THEN UnorderedVerdict(cue, select)
      ELSE IF Cardinality({b.role : b \in bound}) # 1 THEN Unresolved(cue, "role")
      ELSE OrderedVerdict(q, cue, CHOOSE b \in bound : TRUE, select, conventions)

(* detect_ordering_topk_alignment: of several cues none is assessed.       *)
TopKFindings(q, select, conventions) ==
  LET cues == TopKCues(q)
  IN  IF Cardinality(cues) > 1
      THEN {Finding(TopKRule, "not_assessed", "several", "mapping", Min({c.at : c \in cues}), {1})}
      ELSE {TopKFinding(q, c, select, conventions) : c \in cues}
============================================================================
