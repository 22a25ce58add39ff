------------------------- MODULE ConsistencyTerms -------------------------
(***************************************************************************)
(* What the question-SQL consistency rules share: the words of a question  *)
(* and the places a phrase occurs in it (question_normalization.py), the   *)
(* choice among overlapping cue phrases, the obligations the literals of a *)
(* query leave to the question (consistency_detector.py), and the finding  *)
(* a rule returns.                                                         *)
(*                                                                         *)
(* A question is the sequence of its normalized tokens; a span is a range  *)
(* of positions. Characters are counted only where the code orders phrases *)
(* by their length; its other limits in characters (32 between a cue and   *)
(* its value, 96 after a range opener) are wider than any question here.   *)
(***************************************************************************)
EXTENDS Integers, Sequences, SequencesExt

IsSingleton(S) == \E x \in S : S = {x}
Span(from, to) == [from |-> from, to |-> to]
Overlap(a, b) == a.from <= b.to /\ b.from <= a.to

(* find_exact_spans: every place where the words of a phrase follow each   *)
(* other; an empty phrase is found nowhere.                                *)
Occurrences(q, phrase) ==
  IF phrase = <<>> THEN {}
  ELSE {Span(i, i + Len(phrase) - 1) :
          i \in {i \in 1..(Len(q) - Len(phrase) + 1) :
                  SubSeq(q, i, i + Len(phrase) - 1) = phrase}}

(* Nouns and verbs that differ in number or derivation only, of those the  *)
(* questions use.                                                          *)
PluralPairs == {<<"votes", "vote">>, <<"ages", "age">>, <<"years", "year">>, <<"shops", "shop">>,
                <<"names", "name">>, <<"prices", "price">>, <<"players", "player">>,
                <<"towns", "town">>, <<"ranks", "rank">>}
Plurals == {p[1] : p \in PluralPairs}
Singular(w) == IF w \in Plurals THEN (CHOOSE p \in PluralPairs : p[1] = w)[2] ELSE w
Variants == PluralPairs \cup {<<"ranked", "rank">>, <<"people", "person">>}

(* is_inflectional_variant, is_derivational_variant: exact words otherwise.*)
SameWord(a, b) == a = b \/ <<a, b>> \in Variants \/ <<b, a>> \in Variants
Mentions(q, words) == \E i \in DOMAIN q : \E w \in words : SameWord(q[i], w)

(* The words of a table's name. *)
TableWords(table) == CASE table = "people" -> {"people"} [] table = "dogs" -> {"dogs"}
                       [] OTHER -> {}

(* The length of a phrase in characters, blanks between words included.    *)
Chars(phrase) == FoldLeft(LAMBDA n, w : n + Len(w) + 1, -1, phrase)

(* Cues compete for the words of the question, the longest first.          *)
Precedes(a, b) ==
  \/ Chars(a.phrase) > Chars(b.phrase)
  \/ Chars(a.phrase) = Chars(b.phrase) /\ a.span.from < b.span.from

(* _boundary_cues, _string_match_cues: a cue is taken unless it shares a   *)
(* word with one taken before it. Only one set of cues is like that.       *)
LongestCues(proposed) ==
  LET Taken(cues) == \A c \in proposed :
        c \in cues <=> ~\E t \in cues : Precedes(t, c) /\ Overlap(t.span, c.span)
  IN  UNION {cues \in SUBSET proposed : Taken(cues)}

NegationWords == {"no", "not", "never", "without", "except", "excluding"}

(* A negation anywhere before, in the same sentence: the questions here    *)
(* are one sentence.                                                       *)
NegatedBefore(q, i) == \E j \in DOMAIN q : j < i /\ q[j] \in NegationWords

(* A finding of a rule: which cue it is about (0: none), the predicates it *)
(* cites and what it decides.                                              *)
Finding(rule, status, reason, target, at, locs) ==
  [rule |-> rule, status |-> status, reason |-> reason, target |-> target,
   at |-> at, locs |-> locs]
Supported(f) == f.status = "supported"
Contradicted(f) == f.status = "contradicted"

---------------------------------------------------------------------------
(* The WHERE, HAVING and ON predicates of a query, as a sequence:          *)
(*   column, table   of the side that is no literal                        *)
(*   op, values      as written, the literals in order                     *)
(*   mirrored        the literal is on the left                            *)
(*   under           "not" and "or" nodes above it, up to the clause       *)
(*   clause          WHERE, HAVING or JOIN_ON                              *)
(*   nested          in a subquery or an arm of a UNION                    *)

(* _reverse_operator *)
Reversed(op) == CASE op = "GT" -> "LT" [] op = "GTE" -> "LTE"
                  [] op = "LT" -> "GT" [] op = "LTE" -> "GTE" [] OTHER -> op

(* _make_obligation, of one literal. Only the scopes without a parent are  *)
(* relevant to the question.                                               *)
Obligation(i, p, op, value) ==
  [loc |-> i, column |-> p.column, table |-> p.table, op |-> op, value |-> value,
   negated |-> "not" \in p.under, disjunctive |-> "or" \in p.under,
   clause |-> p.clause, relevant |-> ~p.nested]

(* _extract_literal_obligations: one per literal, two for BETWEEN.         *)
ObligationsOf(i, p) ==
  CASE p.op = "BETWEEN" -> {Obligation(i, p, "BETWEEN_LOW", p.values[1]),
                            Obligation(i, p, "BETWEEN_HIGH", p.values[2])}
    [] p.op = "IN" -> {Obligation(i, p, "IN", p.values[k]) : k \in DOMAIN p.values}
    [] OTHER -> {Obligation(i, p, IF p.mirrored THEN Reversed(p.op) ELSE p.op, p.values[1])}

Obligations(where) == UNION {ObligationsOf(i, where[i]) : i \in DOMAIN where}

---------------------------------------------------------------------------
(* What the engine does with a predicate: whether a row with the number x  *)
(* in the column may pass it. A predicate beside an OR, of another scope   *)
(* or of a join says nothing about x alone.                                *)
Compares(op, x, v) ==
  CASE op = "EQ" -> x = v [] op = "NEQ" -> x # v
    [] op = "GT" -> x > v [] op = "GTE" -> x >= v
    [] op = "LT" -> x < v [] op = "LTE" -> x <= v

Accepts(p, x, number) ==
  LET bare == IF p.op = "BETWEEN" THEN number[p.values[1]] <= x /\ x <= number[p.values[2]]
              ELSE IF p.op = "IN" THEN \E k \in DOMAIN p.values : x = number[p.values[k]]
              ELSE IF p.mirrored THEN Compares(p.op, number[p.values[1]], x)
              ELSE Compares(p.op, x, number[p.values[1]])
  IN  IF "not" \in p.under THEN ~bare ELSE bare
MayPass(p, x, number) == Accepts(p, x, number) \/ "or" \in p.under \/ p.nested
============================================================================
