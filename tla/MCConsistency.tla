--------------------------- MODULE MCConsistency ---------------------------
EXTENDS MCLiteralItems

MCSample == UNION {(n - 1)..(n + 1) : n \in {3, 5, 7, 500}}

---------------------------------------------------------------------------
(* What a phrase means to the author of a question.                        *)
Meaning(phrase) ==
  CASE phrase \in {<<"more", "than">>, <<"over">>, <<"above">>, <<"after">>, <<"older", "than">>,
                   <<"higher", "than">>} -> "GT"
    [] phrase \in {<<"less", "than">>, <<"under">>, <<"below">>, <<"before">>, <<"younger", "than">>,
                   <<"lower", "than">>} -> "LT"
    [] phrase \in {<<"at", "least">>, <<"no", "less", "than">>, <<"since">>, <<"no", "younger", "than">>,
                   <<"greater", "than", "or", "equal", "to">>, <<"equal", "or", "above">>,
                   <<"not", "before">>, <<"more", "than", "or", "equal", "to">>} -> "GTE"
    [] phrase \in {<<"at", "most">>, <<"no", "more", "than">>, <<"up", "to">>, <<"not", "more", "than">>,
                   <<"less", "than", "or", "equal", "to">>, <<"no", "older", "than">>} -> "LTE"
    [] phrase \in {<<"exactly">>, <<"equal", "to">>} -> "EQ"
Allows(op, n) == {x \in MCSample : Compares(op, x, n)}

(* A clause of the question: its words, and what they ask of which column. *)
Clause(words, column, means) == [words |-> words, column |-> column, means |-> means]
ColumnFirst(c, p, v) == Clause(<<c>> \o p \o <<v>>, c, Allows(Meaning(p), NumberOf[v]))
ColumnLast(c, p, v) == Clause(p \o <<v, c>>, c, Allows(Meaning(p), NumberOf[v]))
Trailing(c, v, p, op) == Clause(<<v>> \o p \o <<c>>, c, Allows(op, NumberOf[v]))
Named(c, clause) == [clause EXCEPT !.column = c]
Negated(clause) == Clause(<<"not">> \o clause.words, clause.column, MCSample \ clause.means)
Nothing == Clause(<<>>, "", {})

Want(clause, table, first) ==
  [from |-> first, to |-> first + Len(clause.words) - 1, column |-> clause.column,
   table |-> table, means |-> clause.means]
Item(opening, a, b, table, where, evidence) ==
  LET first == Len(opening) + 1
      joined == IF b.words = <<>> THEN <<>> ELSE <<"and">> \o b.words
  IN  [q |-> opening \o a.words \o joined, where |-> where, evidence |-> evidence,
       likes |-> <<>>, dialect |-> "sqlite", select |-> Everything, asks |-> {},
       conventions |-> {}, rules |-> AllRules \ {LiteralRule}, marks |-> NoMarks, context |-> NoContext,
       wants |-> {Want(a, table, first)} \cup
                 IF b.words = <<>> THEN {} ELSE {Want(b, table, first + Len(a.words) + 1)}]

Predicate(column, table, op, values, mirrored, under, clause, nested) ==
  [column |-> column, table |-> table, op |-> op, values |-> values, mirrored |-> mirrored,
   under |-> under, clause |-> clause, nested |-> nested]
Plain(c, op, v) == Predicate(c, "people", op, <<v>>, FALSE, {}, "WHERE", FALSE)
Mirrored(c, op, v) == [Plain(c, op, v) EXCEPT !.mirrored = TRUE]
Under(p, S) == [p EXCEPT !.under = S]
Spread(c, a, b) == Predicate(c, "people", "BETWEEN", <<a, b>>, FALSE, {}, "WHERE", FALSE)

Ask == <<"people", "with">>
Phrases == {<<"more", "than">>, <<"over">>, <<"since">>, <<"at", "least">>, <<"no", "less", "than">>,
  <<"greater", "than", "or", "equal", "to">>, <<"equal", "or", "above">>, <<"not", "before">>,
  <<"less", "than">>, <<"under">>, <<"at", "most">>, <<"no", "more", "than">>, <<"up", "to">>,
  <<"not", "more", "than">>, <<"less", "than", "or", "equal", "to">>, <<"exactly">>, <<"equal", "to">>}
Simple == {<<"over">>, <<"less", "than">>, <<"at", "least">>, <<"exactly">>}
Ops == {"EQ", "NEQ", "GT", "GTE", "LT", "LTE"}

Singles(c) == {Plain(c, op, "5") : op \in Ops} \cup {Mirrored(c, op, "5") : op \in Ops}
  \cup {Spread(c, "5", "7"), Spread(c, "3", "5"),
        Predicate(c, "people", "IN", <<"3", "5">>, FALSE, {}, "WHERE", FALSE)}
Wrapped(c) ==
  {Under(Plain(c, op, "5"), S) : op \in {"GT", "GTE", "LT"}, S \in SUBSET {"not", "or"}}
  \cup {[Plain(c, op, "5") EXCEPT !.nested = TRUE] : op \in {"GT", "LT"}}
  \cup {[Plain(c, op, "5") EXCEPT !.clause = "JOIN_ON"] : op \in {"GT", "LT"}}

(* Every phrase against every operator.                                    *)
PhraseItems ==
  {Item(Ask, f, Nothing, "people", <<p>>, {}) :
     f \in {ColumnFirst("age", p, "5") : p \in Phrases} \cup {ColumnLast("votes", p, "5") : p \in Phrases}
        \cup {Trailing("votes", "5", <<"or", "more">>, "GTE"), Trailing("votes", "5", <<"or", "less">>, "LTE")},
     p \in Singles("age") \cup Singles("votes") \cup {[s EXCEPT !.table = "dogs"] : s \in Singles("age")}}

(* Negations and ORs on either side, numbers in words, counted events,     *)
(* ranks and identifiers.                                                  *)
Years == ColumnFirst("year", <<"over">>, "5")
OddItems ==
  {Item(Ask, f, Nothing, "people", <<p>>, {}) :
     f \in {ColumnFirst("age", p, "5") : p \in Simple} \cup {Negated(ColumnFirst("age", p, "5")) : p \in Simple}
       \cup {Clause(<<"older", "than", "5">>, "age", Allows("GT", 5)),
             Clause(<<"age", "over", "five">>, "age", Allows("GT", 5)),
             Clause(<<"age", "over", "five", "hundred">>, "age", Allows("GT", 500)),
             Clause(<<"age", "over", "minus", "five">>, "age", MCSample),
             Clause(<<"age", "over", "5", "times">>, "", {}),
             Clause(<<"at", "least", "5", "or", "more", "age">>, "age", Allows("GTE", 5)),
             Clause(<<"shops", "over", "5">>, "", {}),
             Clause(<<"shop", "code", "over", "5">>, "shop_code", Allows("GT", 5))},
     p \in Wrapped("age") \cup {Plain("age", "GT", "500"), Plain("shop_code", "GT", "5"), Plain("shop_code", "LT", "5")}}
  \cup {Item(Ask, [f EXCEPT !.means = m], Nothing, "people", <<p>>, {}) :
     f \in {ColumnFirst("rank", p, "5") : p \in {<<"above">>, <<"higher", "than">>}},
     m \in {Allows("GT", 5), Allows("LT", 5)},
     p \in {Plain("rank", "GT", "5"), Plain("rank", "LT", "5")}}

(* Two clauses, none of which follows from the other, and one predicate or *)
(* two.                                                                    *)
Independent(a, b) ==
  a.column = b.column => ~(a.means \subseteq b.means) /\ ~(b.means \subseteq a.means)
FirstClauses ==
  {ColumnFirst(c, p, "5") : c \in {"age", "votes"}, p \in {<<"over">>, <<"at", "most">>}}
  \cup {ColumnLast("votes", <<"over">>, "5"), ColumnLast("votes", <<"no", "more", "than">>, "5")}
LastClauses ==
  {ColumnFirst("age", p, v) : p \in {<<"under">>, <<"at", "least">>}, v \in {"5", "7"}}
  \cup {ColumnLast("votes", <<"under">>, "5"), Trailing("votes", "5", <<"or", "more">>, "GTE")}
PairItems ==
  {Item(Ask, e[1], e[2], "people", where, {}) :
     e \in {e \in FirstClauses \X LastClauses : Independent(e[1], e[2])},
     where \in {<<Plain(c, op, "5")>> : c \in {"age", "votes"}, op \in Ops \ {"NEQ"}}
          \cup {<<Plain(c, op, "5"), Plain("age", op2, v)>> :
                  c \in {"age", "votes"}, op \in {"GT", "LTE"}, op2 \in {"LT", "GTE"}, v \in {"5", "7"}}}

RangeClause(c, opener, separator, last) ==
  Clause(<<c, opener, "3", separator, "7">> \o last, c, 3..7 \cap MCSample)
Ranges ==
  {RangeClause("age", "between", "and", <<>>), RangeClause("votes", "from", "to", <<>>),
   Negated(RangeClause("age", "between", "and", <<>>)),
   Clause(<<"age", "between", "3", "and", "7", "exclusive">>, "age", {x \in MCSample : 3 < x /\ x < 7}),
   Clause(<<"age", "from", "3", "until", "7">>, "age", {x \in MCSample : 3 <= x /\ x < 7}),
   Clause(<<"difference", "in", "age", "between", "3", "and", "7">>, "", {})}
RangeItems ==
  {Item(Ask, f, Nothing, "people", where, {}) : f \in Ranges,
     where \in {<<Spread(c, "3", "7")>> : c \in {"age", "votes"}} \cup {<<Spread("age", "7", "3")>>}
       \cup {<<Under(Spread("age", "3", "7"), S)>> : S \in SUBSET {"not", "or"}}
       \cup {<<Plain(c, a, "3"), Plain("age", b, "7")>> : c \in {"age", "votes"},
               a \in {"GT", "GTE", "EQ", "LTE"}, b \in {"LT", "LTE", "EQ", "GT"}}}

Evidence(column, op, v, affirmative) ==
  [column |-> column, op |-> op, value |-> v, affirmative |-> affirmative]
EvidenceItems ==
  {Item(Ask, ColumnFirst("age", p, "5"), Nothing, "people", <<Plain("age", op, "5")>>, e) :
     p \in {<<"over">>, <<"at", "least">>, <<"since">>, <<"under">>}, op \in Ops,
     e \in SUBSET {Evidence("age", "GT", "5", TRUE), Evidence("age", "GTE", "5", TRUE),
                   Evidence("votes", "LT", "5", TRUE), Evidence("age", "LT", "5", FALSE)}}

BoundaryItems == {PhraseItems, OddItems, PairItems, RangeItems, EvidenceItems}

---------------------------------------------------------------------------
(* Text matches: texts of up to three letters.                             *)
MCTexts == UNION {[1..n -> {"a", "l"}] : n \in 0..3}
MCSpelling == [w \in {"al", "la", "a"} |->
  CASE w = "al" -> <<"a", "l">> [] w = "la" -> <<"l", "a">> [] w = "a" -> <<"a">>]
Texting(mode, positive, w) ==
  LET matched == Matching(mode, MCSpelling[w], MCTexts)
  IN  IF positive THEN matched ELSE MCTexts \ matched

(* A role, a phrase and a value.                                           *)
TextClause(role, column, phrase, mode, positive, value, w) ==
  Clause(role \o phrase \o value, column, Texting(mode, positive, w))
Phrase(phrase, mode, positive) == [phrase |-> phrase, mode |-> mode, positive |-> positive]
MatchPhrases ==
  {Phrase(<<"starts", "with">>, "prefix", TRUE), Phrase(<<"begins", "with">>, "prefix", TRUE),
   Phrase(<<"does", "not", "start", "with">>, "prefix", FALSE),
   Phrase(<<"ends", "with">>, "suffix", TRUE), Phrase(<<"doesn't", "end", "with">>, "suffix", FALSE),
   Phrase(<<"contains">>, "contains", TRUE), Phrase(<<"does", "not", "contain">>, "contains", FALSE),
   Phrase(<<"contains", "the", "prefix">>, "prefix", TRUE),
   Phrase(<<"includes", "the", "text">>, "contains", TRUE),
   Phrase(<<"exactly", "matches">>, "exact", TRUE)}
NameClause(f, value, w) == TextClause(<<"name">>, "name", f.phrase, f.mode, f.positive, value, w)

Pattern(front, payload, back, kind) ==
  [front |-> front, payload |-> payload, back |-> back, kind |-> kind]
Edges(w) == {Pattern(front, w, back, "plain") : front \in BOOLEAN, back \in BOOLEAN}
LikeOf(column, pattern, above) ==
  [column |-> column, table |-> "people", side |-> "column", pattern |-> pattern, escape |-> FALSE,
   above |-> above, clause |-> "WHERE", nested |-> FALSE]
Starts == Pattern(FALSE, "al", TRUE, "plain")
Within == Pattern(TRUE, "al", TRUE, "plain")
Aboves == {<<>>, <<"and">>, <<"not">>, <<"paren", "not", "and">>, <<"not", "not">>, <<"or">>,
           <<"and", "not">>, <<"not", "and", "not">>, <<"or", "not">>}

TextItem(opening, a, b, likes, dialect) ==
  [Item(opening, a, b, "people", <<>>, {}) EXCEPT !.likes = likes, !.dialect = dialect]
Whose == <<"people", "whose">>

MatchItems ==
  {TextItem(Whose, NameClause(f, <<"al">>, "al"), Nothing, <<LikeOf("name", pattern, above)>>, "sqlite") :
     f \in MatchPhrases, pattern \in Edges("al"), above \in Aboves}
OneLike ==
  {LikeOf(c, p, <<>>) : c \in {"name", "first_name", "note_text"}, p \in {Starts, Within}}
  \cup {LikeOf("name", Pattern(TRUE, w, TRUE, kind), <<>>) :
          w \in {"al", ""}, kind \in {"wild", "quoted", "dynamic"}}
  \cup {[LikeOf("name", Within, <<>>) EXCEPT !.side = "expression"],
        [LikeOf("name", Within, <<>>) EXCEPT !.escape = TRUE],
        [LikeOf("name", Within, <<>>) EXCEPT !.nested = TRUE],
        [LikeOf("name", Within, <<>>) EXCEPT !.clause = "JOIN_ON"],
        [LikeOf("name", Within, <<>>) EXCEPT !.table = "dogs"],
        LikeOf("name", Pattern(TRUE, "a", TRUE, "plain"), <<>>),
        LikeOf("name", Pattern(FALSE, "la", TRUE, "plain"), <<>>)}
TwoLikes ==
  {LikeOf("name", Within, <<>>), LikeOf("town", Within, <<>>),
   [LikeOf("name", Within, <<>>) EXCEPT !.nested = TRUE, !.table = "dogs"],
   LikeOf("first_name", Within, <<>>)}
BoundTexts ==
  {TextItem(o, c, Nothing, likes, d) :
     o \in {Whose, <<"people", "not", "those", "whose">>},
     c \in {NameClause(Phrase(<<"contains">>, "contains", TRUE), v, "al") :
              v \in {<<"al">>, <<"the", "letter", "al">>, <<"the", "word", "al">>, <<"al", "as", "a", "word">>}}
       \cup {NameClause(Phrase(<<"starts", "with">>, "prefix", TRUE), <<"la", "or", "al">>, "la"),
             TextClause(<<"first", "name">>, "first_name", <<"contains">>, "contains", TRUE, <<"al">>, "al"),
             TextClause(<<"town">>, "town", <<"contains">>, "contains", TRUE, <<"al">>, "al"),
             TextClause(<<"note">>, "note_text", <<"includes", "the", "text">>, "contains", TRUE, <<"al">>, "al"),
             NameClause(Phrase(<<"contains">>, "contains", TRUE), <<"the", "letter", "a">>, "a")},
     likes \in {<<l>> : l \in OneLike} \cup {<<l, m>> : l \in TwoLikes, m \in TwoLikes},
     d \in {"sqlite", "postgres", "mysql"}}
PairTexts ==
  {TextItem(Whose, NameClause(f, <<"al">>, "al"),
            TextClause(role, "town", g.phrase, g.mode, g.positive, <<v>>, v), likes, "sqlite") :
     f \in {f \in MatchPhrases : f.mode = "prefix"}, g \in {g \in MatchPhrases : g.mode = "suffix"},
     role \in {<<"town">>, <<"whose", "town">>}, v \in {"al", "la"},
     likes \in {<<LikeOf(c, Pattern(FALSE, "al", TRUE, "plain"), a)>> : c \in {"name", "town"}, a \in {<<"and">>, <<"not", "and">>}}
          \cup {<<LikeOf("name", p, a), LikeOf("town", r, a)>> :
                  p \in Edges("al"), r \in Edges("la"), a \in {<<"and">>, <<"not", "and">>}}}
StringItems == {MatchItems, BoundTexts, PairTexts}
MCFamilies == BoundaryItems \cup StringItems \cup {AggregateItems, TopKItems, ConventionItems} \cup LiteralFamilies

(* In every item the rules' guesses are right.                             *)
ASSUME GuessesAreRight == \A family \in MCFamilies : \A it \in family :
  /\ TextsMeant(it) /\ BoundariesMeant(it) /\ AggregatesMeant(it)
  /\ RequestsMeant(it) /\ ReadingsMeant(it)
  /\ \A f \in AggregationFindings(it.q, it.select, {}) : Supported(f) => Undisturbed(f, it.select)
============================================================================
