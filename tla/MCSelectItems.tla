--------------------------- MODULE MCSelectItems ---------------------------
(* Items for the rules about the root SELECT, and the tables their queries *)
(* meet.                                                                   *)
EXTENDS Consistency

Own(name) == Column(name, "people")
Age == Own("age")
Votes == Own("votes")
Town == Own("town")
RankColumn == Own("rank")
Computed == {Own("avg_age"), Own("max_votes")}
PeopleColumns == {Age, Votes, Town, RankColumn} \cup Computed
Cells(a, v, t) ==
  [c \in PeopleColumns |-> CASE c = Age -> a [] c = Votes -> v [] c = Town -> t
                             [] c = RankColumn -> 4 - a [] OTHER -> 5 + v]
MCTables ==
  {[i \in 1..3 |-> Cells(a[i], v[i], t[i])] :
     a \in {<<1, 2, 3>>, <<1, 1, 2>>, <<1, 2, 2>>}, v \in {<<4, 6, 5>>, <<3, 1, 2>>, <<2, 2, 1>>},
     t \in {<<1, 1, 2>>, <<1, 2, 2>>}}

Plainly(c) == Term("", <<c>>, "", "")
Of(fn, c) == Term(fn, <<c>>, "", "")
Projected(t) == [term |-> t, alias |-> ""]
Aliased(t, a) == [term |-> t, alias |-> a]
NoLimit == [kind |-> "none", n |-> 0]
Limit(n) == [kind |-> "number", n |-> n]
Key(t, desc) == [term |-> t, desc |-> desc]
Select(projections, group, order, limit) ==
  [projections |-> projections, tables |-> <<"people">>, group |-> group, order |-> order,
   limit |-> limit, offset |-> 0, ranked |-> FALSE, rankPredicate |-> FALSE,
   nestedOrder |-> FALSE, nested |-> {}, reliable |-> TRUE]
Everything == Select(<<Projected(Plainly(Town))>>, <<>>, <<>>, NoLimit)

NoMarks == [capital |-> {}, upper |-> {}, breaks |-> {}, quoted |-> {}]
NoContext == [hints |-> <<>>, domains |-> {}, aliases |-> {}]
AllRules == {LiteralRule, BoundaryRule, StringRule, AggregationRule, TopKRule}
Numeric(c, op, v) ==
  [column |-> c, table |-> "people", op |-> op, values |-> <<v>>, mirrored |-> FALSE,
   under |-> {}, clause |-> "WHERE", nested |-> FALSE]
SelectItem(q, select, asks, conventions) ==
  [q |-> q, where |-> <<>>, evidence |-> {}, likes |-> <<>>, dialect |-> "sqlite", wants |-> {},
   select |-> select, asks |-> asks, conventions |-> conventions, rules |-> AllRules,
   marks |-> NoMarks, context |-> NoContext]
\* An aggregate that the evidence asks for, and a constant in its place.
CallWord == [AVG |-> "avg", MIN |-> "min", MAX |-> "max"]
Asserts(words, fn, column, table) ==
  [words |-> words \o <<CallWord[fn], column>>, stops |-> {}, mappings |-> {},
   aggregates |-> {[span |-> Span(Len(words) + 1, Len(words) + 2), fn |-> fn, column |-> column, table |-> table]}]
Instead(i, fn) ==
  [i EXCEPT !.where = <<Numeric("age", "EQ", "5")>>,
            !.context.hints = <<Asserts(<<"the", "years", "refers", "to">>, fn, "age", "")>>]

---------------------------------------------------------------------------
(* Aggregates: every request against every aggregate, and against the      *)
(* first row of every order.                                               *)
AskFor(fn, c) == [fn |-> fn, column |-> c]
AggregateWord == [AVG |-> "average", MIN |-> "minimum", MAX |-> "maximum"]
Functions3 == {"AVG", "MIN", "MAX"}
AllFunctions == Functions3 \cup {"SUM", "COUNT", ""}

Bare(ps) == Select(ps, <<>>, <<>>, NoLimit)
FirstBy(ps, t, desc, n) == Select(ps, <<>>, <<Key(t, desc)>>, n)
Extremes ==
  {FirstBy(<<Projected(Plainly(Age))>>, Plainly(c), desc, n) :
     c \in {Age, Votes}, desc \in BOOLEAN, n \in {Limit(1), Limit(2), NoLimit, [kind |-> "computed", n |-> 0]}}
  \cup {FirstBy(<<Aliased(Plainly(Age), "years")>>, Plainly(Column("years", "")), desc, Limit(1)) : desc \in BOOLEAN}
  \cup {FirstBy(<<Aliased(Term("", <<Age, Votes>>, "", "plus"), "years")>>, Plainly(Column("years", "")), desc, Limit(1)) : desc \in BOOLEAN}
  \cup {FirstBy(<<Projected(Plainly(Age))>>, Term("", <<Age, Votes>>, "", "plus"), desc, Limit(1)) : desc \in BOOLEAN}
AggregateSelects ==
  {Bare(<<Projected(Term(fn, <<Age>>, inner, outer))>>) : fn \in {"AVG", "SUM"}, inner \in {"", "plus"}, outer \in {"", "plus"}}
  \cup {Bare(<<Projected(Of(fn, c))>>) : fn \in AllFunctions, c \in {Age, Votes}}
  \cup {Bare(<<Projected(Of(fn, Age)), Projected(Of(gn, Votes))>>) : fn \in AllFunctions \ {""}, gn \in Functions3}
  \cup {Bare(<<Projected(Term(fn, <<Age, Votes>>, "plus", ""))>>) : fn \in Functions3}
  \cup {Bare(<<Projected(Of(fn, Column("age", "dogs"))), Projected(Of(fn, Age))>>) : fn \in Functions3}
  \cup {Select(<<Projected(Plainly(Town)), Projected(Of(fn, Age))>>, <<Town>>, <<>>, NoLimit) : fn \in AllFunctions \ {""}}
  \cup {Bare(<<Projected(Plainly(c))>>) : c \in Computed}
  \cup {Bare(<<Projected(Plainly(Age)), Projected(Plainly(c))>>) : c \in Computed}
  \cup {[Bare(<<Projected(Plainly(Age))>>) EXCEPT !.nested = {[on |-> c, term |-> Of(fn, d)]}] :
          c \in {Age, Votes}, fn \in Functions3, d \in {Age, Votes}}
  \cup {[Bare(<<Projected(Plainly(Town))>>) EXCEPT !.nested = {[on |-> c, term |-> Of(fn, Age)]}] : c \in {Age}, fn \in {"MIN", "MAX"}}
  \cup {[FirstBy(<<Projected(Plainly(Age))>>, Plainly(Age), desc, Limit(1)) EXCEPT !.offset = 1] : desc \in BOOLEAN}
  \cup {[FirstBy(<<Projected(Plainly(Age))>>, Plainly(Age), desc, Limit(1))
           EXCEPT !.nested = {[on |-> Age, term |-> Of(fn, Age)]}] : desc \in BOOLEAN, fn \in {"MIN", "MAX"}}
  \cup {[Bare(<<Projected(Of("AVG", Age))>>) EXCEPT !.reliable = FALSE], Bare(<<>>)}
  \cup Extremes

Request(opening, fn, rest, columns) ==
  [q |-> opening \o <<AggregateWord[fn]>> \o rest, asks |-> {AskFor(fn, c) : c \in columns}]
Requests(fn) ==
  {Request(o, fn, t, {Age}) : o \in {<<"what", "is", "the">>, <<"find">>, <<"what", "are", "the">>},
     t \in {<<"age">>, <<"age", "of", "players">>, <<"ages">>}}
  \cup {Request(<<"find">>, fn, <<"players", "age", "and", "votes">>, {Age, Votes}),
        Request(<<"show", "me", "the">>, fn, <<"votes">>, {Votes}),
        Request(<<"which", "players", "have", "the">>, fn, <<"age">>, {Age})}
  \cup {Request(<<"show", "the">>, fn, t, {Age}) :
     t \in {<<"number", "of", "players">>, <<"age", "per", "town">>, <<"people">>, <<"votes", "ratio">>}}
AggregateItems ==
  UNION {{SelectItem(r.q, s, r.asks, {}) : r \in Requests(fn), s \in AggregateSelects}
         \cup {Instead(SelectItem(r.q, s, r.asks, {}), fn) :
                 r \in {r \in Requests(fn) : Len(r.q) = 5},
                 s \in {Bare(<<Projected(Of(gn, c))>>) : gn \in Functions3, c \in {Age, Votes}}} : fn \in Functions3}

---------------------------------------------------------------------------
(* The top and the bottom: what is asked for, and the ways to read it.     *)
AskTop(t, group, desc, n) == [term |-> t, group |-> group, desc |-> desc, n |-> n]
AskRows(c, desc, n) == AskTop(Plainly(c), <<>>, desc, n)
CountAll == Term("COUNT", <<>>, "", "")
Wish(words, asks) == [q |-> words, asks |-> asks]
Every(c, n) == {AskRows(c, desc, n) : desc \in BOOLEAN}
Only(c, desc, n) == {AskRows(c, desc, n)}

(* A number, a direction, or one of them.                                  *)
NumberWishes ==
  {Wish(<<"show", "the">> \o cue[1] \o <<"players">> \o by, Only(Age, cue[2], cue[3])) :
     cue \in {<<<<"top", "2">>, TRUE, 2>>, <<<<"top", "two">>, TRUE, 2>>, <<<<"bottom", "1">>, FALSE, 1>>,
              <<<<"best", "2">>, TRUE, 2>>, <<<<"worst", "2">>, FALSE, 2>>, <<<<"highest", "2">>, TRUE, 2>>},
     by \in {<<"by", "age">>, <<"by", "the", "age">>, <<"with", "age">>, <<>>}}
  \cup {Wish(<<"show", "the", "top", "2", w, "age">>, Only(Age, d, 2)) :
     <<w, d>> \in {<<"highest", TRUE>>, <<"lowest", FALSE>>, <<"largest", TRUE>>, <<"smallest", FALSE>>}}
  \cup {Wish(<<"top", "2", "players", "by", "age", w>>, Only(Age, d, 2)) :
     <<w, d>> \in {<<"descending", TRUE>>, <<"ascending", FALSE>>, <<"then", TRUE>>}}
  \cup {Wish(<<"top", "2", "players", "by", "votes", "in", "town", "descending">>, Only(Votes, TRUE, 2)),
        Wish(<<"show", "the", "best", "2", "with", "the", "lowest", "age">>, Every(Age, 2)),
        Wish(<<"top", "2", "players", "and", "bottom", "2", "players", "by", "age">>, Every(Age, 2)),
        Wish(<<"top", "2", "players", "by", "age", "of", "each", "town">>, {}),
        Wish(<<"top", "2", "players", "by", "rank">>, Every(RankColumn, 2)),
        Wish(<<"top", "2", "by", "age", "for", "all", "players">>, Every(Age, 2))}

(* One by implication, of which the question may mean more.                *)
SuperlativeWishes ==
  UNION {
    {Wish(<<"which", "player", "has", "the", w, "age">>, Only(Age, d, 1)),
     Wish(<<"name", "the", "player", "with", "the", w, "votes">>, Only(Votes, d, 1)),
     Wish(<<"which", "players", "have", "the", w, "age">>, Only(Age, d, 1) \cup Only(Age, d, 0)),
     Wish(<<"list", "2", "players", "who", "have", "the", w, "age">>, Only(Age, d, 2)),
     Wish(<<"of", "the", "2", "players", "which", "has", "the", w, "age">>, Only(Age, d, 1) \cup Only(Age, d, 2)),
     Wish(<<"show", "the", "2", w, "age", "players", "with", "age">>, Only(Age, d, 2)),
     Wish(<<"what", "is", "the", w, "age">>, Every(Age, 1)),
     Wish(<<"is", "it", "true", "that", "the", w, "age">>, Every(Age, 1)),
     Wish(<<"which", "players", "have", "the", w, "age", "first">>, Only(Age, d, 3)),
     Wish(<<"players", "with", "age", "sorted", "by", w>>, Only(Age, d, 3)),
     Wish(<<"which", "player", "has", "the", w, "rank">>, Only(RankColumn, TRUE, 1) \cup Only(RankColumn, FALSE, 1)),
     Wish(<<"which", "town", "has", "the", w, "number", "of", "people">>,
          {AskTop(CountAll, <<Town>>, d, 1)}),
     Wish(<<"which", "people", "living", "by", "the", "sea", "and", "without", "any", "other", "home",
            "have", "the", w, "income", "and", "which", "of", "these", "have", "an", "age">>, Every(Age, 5))} :
    <<w, d>> \in {<<"highest", TRUE>>, <<"lowest", FALSE>>}}

Listed(order, limit) == Select(<<Projected(Plainly(Town))>>, <<>>, order, limit)
Limits == {Limit(n) : n \in 0..3} \cup {NoLimit}
ByColumn == {Listed(<<Key(Plainly(c), desc)>>, limit) : c \in {Age, Votes, RankColumn}, desc \in BOOLEAN, limit \in Limits}
OddOrders ==
  {Listed(<<Key(t, desc)>>, Limit(n)) : desc \in BOOLEAN, n \in 1..2,
     t \in {Term("", <<Age, Votes>>, "", "divide"), Term("", <<Age, Votes>>, "", "plus"), Plainly(Column("score", ""))}}
  \cup {Listed(<<Key(Plainly(Age), TRUE), Key(Plainly(Votes), FALSE)>>, Limit(2)),
        Listed(<<Key(Plainly(Age), TRUE)>>, [kind |-> "computed", n |-> 0]),
        Listed(<<Key(Plainly(Age), TRUE)>>, [kind |-> "fetch", n |-> 1]),
        [Listed(<<Key(Plainly(Age), TRUE)>>, Limit(1)) EXCEPT !.offset = 1],
        [Listed(<<Key(Plainly(Age), TRUE)>>, Limit(1)) EXCEPT !.ranked = TRUE],
        [Listed(<<Key(Plainly(Age), TRUE)>>, Limit(1)) EXCEPT !.reliable = FALSE]}
Unordered ==
  {Listed(<<>>, limit) : limit \in {Limit(1), Limit(2), NoLimit}}
  \cup {[Listed(<<>>, NoLimit) EXCEPT !.nestedOrder = TRUE], [Listed(<<>>, NoLimit) EXCEPT !.rankPredicate = TRUE],
        [Listed(<<>>, NoLimit) EXCEPT !.nested = {[on |-> Age, term |-> Of("MAX", Age)]}],
        Bare(<<Projected(Of("MAX", Age))>>)}
OfTowns(ps, t, desc, limit) == Select(ps, <<Town>>, <<Key(t, desc)>>, limit)
Towns ==
  {OfTowns(<<Projected(Plainly(Town))>>, CountAll, desc, limit) : desc \in BOOLEAN, limit \in {Limit(1), Limit(2), NoLimit}}
  \cup {[OfTowns(<<Projected(Plainly(Town))>>, CountAll, TRUE, Limit(1)) EXCEPT !.tables = <<"people", "dogs">>],
        FirstBy(<<Projected(Of("COUNT", Age))>>, CountAll, TRUE, Limit(1)),
        OfTowns(<<Projected(Plainly(Town))>>, Of("COUNT", Age), TRUE, Limit(1)),
        OfTowns(<<Projected(Plainly(Town))>>, Of("MAX", Age), TRUE, Limit(1))}

Convention(phrase, extremum, t) == [phrase |-> phrase, extremum |-> extremum, term |-> t]
Conventions ==
  {{Convention(<<w, c.name>>, e, Plainly(d))} : w \in {"highest", "lowest"}, e \in {"max", "min"},
     c \in {Age, RankColumn}, d \in {Age, RankColumn}}
  \cup {{Convention(<<"highest", "rank">>, "max", Plainly(RankColumn)),
         Convention(<<"highest", "rank">>, e, Plainly(d))} : e \in {"max", "min"}, d \in {Age, RankColumn}}
  \cup {{Convention(<<"highest", "rank", "players", "ever">>, "max", Plainly(RankColumn))},
        {Convention(<<"highest", "age">>, "max", Term("", <<Age, Votes>>, "", "divide"))},
        {Convention(<<"highest", "age">>, "max", Term("", <<Age, Votes>>, "", "plus"))}}
PerTown ==
  {Wish(<<"top", "2", "players", "by", "votes", "per", "town">>, {}),
   Wish(<<"which", "town", "has", "the", "highest", "number", "of", "people", "within", "the", "town">>, {})}
TopKItems ==
  {SelectItem(w.q, s, w.asks, {}) : w \in NumberWishes \cup SuperlativeWishes,
     s \in ByColumn \cup OddOrders \cup Unordered \cup Towns}
  \cup {SelectItem(w.q, s, w.asks, {}) : w \in PerTown, s \in Towns}
\* Evidence the rule cannot read, MAX(age + votes), is taken as not given.
Given(words, conventions) ==
  {AskTop(c.term, <<>>, c.extremum = "max", 1) :
     c \in {c \in conventions : Signed(c.term) /\ IsSuffix(SubSeq(c.phrase, 1, 2), words)}}
ConventionItems ==
  {SelectItem(w.q, s, IF Given(w.q, cs) = {} THEN w.asks ELSE Given(w.q, cs), cs) :
     w \in {Wish(<<"which", "player", "has", "the", "highest", "rank">>, Every(RankColumn, 1)),
            Wish(<<"which", "player", "has", "the", "highest", "age">>, Only(Age, TRUE, 1))},
     s \in {s \in ByColumn \cup OddOrders : s.limit \in {Limit(1), Limit(2)}}, cs \in Conventions}
============================================================================
