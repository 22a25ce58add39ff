--------------------------- MODULE MCLiteralItems ---------------------------
(* Items for the literal rule: what a question and its evidence mean, value *)
(* by value, against predicates with these and other values.               *)
EXTENDS MCSelectItems

Compare(c, op, values, under) ==
  [column |-> c, table |-> "people", op |-> op, values |-> values, mirrored |-> FALSE,
   under |-> under, clause |-> "WHERE", nested |-> FALSE]
Equals(c, v) == Compare(c, "EQ", <<v>>, {})

(* The words from..to of a question ask for one of the values of a column. *)
Means(from, to, column, values) ==
  [from |-> from, to |-> to, column |-> column, table |-> "people", means |-> values]
Say(words, wants) == [q |-> words, wants |-> wants, marks |-> NoMarks]
LiteralItem(said, where, context) ==
  [SelectItem(said.q, Everything, {}, {}) EXCEPT
     !.rules = {LiteralRule}, !.where = where, !.marks = said.marks, !.wants = said.wants, !.context = context]
Capitals(said, positions) == [said EXCEPT !.marks.capital = positions]
Upper(said, positions) == [said EXCEPT !.marks.upper = positions]
Broken(said, positions) == [said EXCEPT !.marks.breaks = positions]
Quoting(said, spans) == [said EXCEPT !.marks.quoted = spans]

---------------------------------------------------------------------------
(* One value, in every way of naming one.                                  *)
One(words, column, v) == Say(words, {Means(Len(words), Len(words), column, {v})})
PlainSayings ==
  {One(<<"people", "named", w>>, "name", w) : w \in {"kellner", "cooke"}}
  \cup {Say(<<"people", "named", w>>, {Means(3, 3, "name", {w, "marta keller"})}) : w \in {"keller", "marta"}}
  \cup {One(<<"people", "from", w>>, "country", v) : <<w, v>> \in {<<"france", "france">>, <<"texas", "texas">>}}
  \cup {Say(<<w, "people">>, {Means(1, 1, "country", {v})}) : <<w, v>> \in {<<"french", "france">>, <<"texan", "texas">>}}
  \cup {Say(<<"the", "cookes">>, {Means(2, 2, "name", {"cooke", "cookes"})})}
  \cup {One(<<"people", "with", "rank", w>>, "rank", "5") : w \in {"5", "five"}}
OtherSayings ==
  {Say(<<"people", "of", "the", "fifth", "rank">>, {Means(4, 5, "rank", {"5"})}),
   Say(<<"players", "who", "won", "twice">>, {Means(4, 4, "votes", {"2"})}),
   Say(<<"people", "with", "a", "single", "member">>, {Means(4, 5, "member_count", {"1"})}),
   Say(<<"the", "first", "name", "of", "players">>, {}), Say(<<"tell", "us", "the", "people">>, {}),
   Upper(Say(<<"people", "in", "us">>, {Means(3, 3, "country", {"united states"})}), {3}),
   Say(<<"people", "named", "marta", "kellner">>, {Means(3, 4, "name", {"marta", "kellner", "marta kellner"})}),
   Say(<<"people", "of", "the", "keller", "family">>, {Means(4, 4, "name", {"keller", "marta keller"})}),
   Say(<<"people", "at", "the", "info", "desk">>, {Means(4, 5, "name", {"information desk"})}),
   Say(<<"active", "people">>, {Means(1, 1, "status", {"active"})}),
   Say(<<"people", "after", "the", "closure">>, {Means(4, 4, "status", {"closed"})}),
   Say(<<"people", "with", "good", "votes">>, {Means(3, 4, "votes", {"7", "500"})})}
TextValues == {"keller", "kellner", "marta", "martha", "cooke", "cookes", "france", "texas",
               "united states", "marta keller", "information desk", "active", "closed", "unknown"}
NamingItems ==
  {LiteralItem(s, where, NoContext) : s \in PlainSayings \cup OtherSayings,
     where \in {<<Compare(c, op, <<v>>, {})>> : c \in {"name", "country"}, op \in {"EQ", "NEQ"}, v \in TextValues}
          \cup {<<Compare("name", "IN", <<v, w>>, {})>> : v \in {"keller", "cookes"}, w \in {"kellner", "martha"}}
          \cup {<<Equals(c, v)>> : c \in {"rank", "votes", "member_count"}, v \in {"1", "2", "5"}}
          \cup {<<Compare(c, op, <<"7">>, {})>> : c \in {"votes"}, op \in {"GT", "LTE"}}}

---------------------------------------------------------------------------
(* Two columns of one row, and quotes.                                     *)
Family == Say(<<"people", "named", "marta", "kellner", "from", "texas">>,
              {Means(3, 3, "first_name", {"marta"}), Means(4, 4, "name", {"kellner"}),
               Means(6, 6, "country", {"texas"})})
First(v) == Equals("first_name", v)
RowItems ==
  {LiteralItem(s, where, NoContext) :
     s \in {Capitals(Broken(Family, b), c) : b \in SUBSET {3, 4}, c \in SUBSET {3, 4}},
     where \in {<<[First(a) EXCEPT !.under = u, !.table = t], [Equals("name", b) EXCEPT !.nested = n]>> :
                  a \in {"marta", "martha"}, b \in {"keller", "kellner", "cooke"}, u \in {{}, {"or"}},
                  t \in {"people", "dogs"}, n \in BOOLEAN}
          \cup {<<First("marta"), Equals("name", "keller"), Equals("country", v)>> : v \in {"texas", "france"}}
          \cup {<<First("marta"), Compare("name", "IN", <<"keller", "kellner">>, {})>>}}
  \cup {[LiteralItem(Capitals(Family, {3, 4}), <<First("marta"), Equals("name", b)>>, NoContext)
          EXCEPT !.select.reliable = FALSE] : b \in {"keller", "kellner"}}
QuotedItems ==
  {LiteralItem(Quoting(Say(<<"people", "with", role, "active">>, {Means(4, 4, role, {"active"})}), {Span(4, 4)}),
               where, NoContext) : role \in {"status", "rank"},
     where \in {<<Equals("status", v)>> : v \in {"active", "closed", "keller"}}
          \cup {<<Equals("status", v), Equals("rank", "5")>> : v \in {"active", "closed"}}
          \cup {<<Equals("status", v), Equals("name", "keller")>> : v \in {"active", "closed"}}}

---------------------------------------------------------------------------
(* Evidence: what the north is, and aliases for it.                        *)
Hint(words) == [words |-> words, stops |-> {}, aggregates |-> {}, mappings |-> {}]
Stopped(e, positions) == [e EXCEPT !.hints[1].stops = positions]
North(words, v) ==
  [hints |-> <<Hint(words)>>, meant |-> IF v = "" THEN {} ELSE {Means(1, 4, "country", {v})}]
Evidences ==
  {North(<<"north", "refers", "to", "france">>, "france"), North(<<"north", "is", "not", "france">>, ""),
   North(<<"north", "means", "texas", "instead", "of", "france">>, "texas"),
   North(<<"france", "isn't", "the", "north">>, ""), North(<<"france", "is", "not", "the", "north">>, ""),
   North(<<"never", "use", "france">>, ""), North(<<"exclude", "france">>, ""),
   North(<<"north", "means", "french">>, "france"),
   Stopped(North(<<"exclude", "texas", "north", "means", "france">>, "france"), {2}),
   Stopped(North(<<"north", "means", "france", "never", "add", "texas">>, "france"), {3}),
   North(<<"avoid", "all", "abbreviations", "and", "write", "the", "north", "as", "france">>, "france"),
   North(<<"avoid", "abbreviations", "of", "the", "north", "as", "france">>, "")}
EvidencedItems ==
  {LiteralItem(Say(<<"people", "in", "the", "north">>, e.meant), <<p>>, [NoContext EXCEPT !.hints = e.hints]) :
     e \in Evidences, p \in {Compare(c, op, <<v>>, {}) : c \in {"country", "name"}, op \in {"EQ", "NEQ"},
                               v \in {"france", "texas", "united states", "5"}}}
AliasItems ==
  {LiteralItem(Say(<<"people", "in", "the", a>>, IF u = "" THEN {} ELSE {Means(4, 4, "country", {u})}), <<p>>,
               [hints |-> h, domains |-> {}, aliases |-> {{<<"france">>, <<"north">>}, {<<"texas">>, <<"south">>}}]) :
     <<a, h, u>> \in {<<"north", <<>>, "france">>, <<"south", <<>>, "texas">>, <<"cold", <<>>, "">>,
                      <<"cold", <<Hint(<<"cold", "means", "north">>)>>, "france">>,
                      <<"cold", <<Hint(<<"cold", "is", "not", "north">>)>>, "">>},
     p \in {Equals("country", v) : v \in {"france", "texas"}}}

---------------------------------------------------------------------------
(* Flags: is_member, in any encoding that the evidence gives it.           *)
Flip(v) == IF v = "0" THEN "1" ELSE "0"
Member(positive) == IF positive THEN "1" ELSE "0"
FlagSayings ==
  {<<<<"people", "who", "are", "member">>, TRUE>>, <<<<"people", "who", "are", "not", "member">>, FALSE>>,
   <<<<"people", "other", "than", "a", "member">>, FALSE>>, <<<<"people", "without", "a", "member">>, FALSE>>}
Domain(table, values) == [column |-> "is_member", table |-> table, values |-> values]
Binary == {"0", "1"}
Domains == {{}, {Domain("", Binary)}, {Domain("people", Binary)}, {Domain("dogs", Binary)},
            {Domain("", Binary), Domain("people", {"0", "1", "2"})}, {Domain("", Binary), Domain("", {"0"})}}
FlagItems ==
  {LiteralItem(Say(f[1], {Means(1, Len(f[1]), "is_member", {Member(f[2])})}), <<p>>, [NoContext EXCEPT !.domains = d]) :
     f \in FlagSayings, d \in Domains,
     p \in {Compare("is_member", op, <<v>>, {}) : op \in {"EQ", "NEQ"}, v \in {"0", "1"}}}

Labelled(label, v, table) ==
  [words |-> label \o <<"refers", "to", "is_member", v>>, stops |-> {}, aggregates |-> {},
   mappings |-> {[label |-> label, column |-> "is_member", table |-> table, value |-> v]}]
Labels == {<<<<"insured">>, TRUE>>, <<<<"not", "insured">>, FALSE>>, <<<<"insured", "persons">>, TRUE>>,
           <<<<"insured", "persons", "ever">>, TRUE>>, <<<<"club", "insured">>, TRUE>>}
MappingItems ==
  {LiteralItem(Say(f[1], {Means(1, Len(f[1]), "is_member", {IF f[2] = l[2] THEN v ELSE Flip(v)}),
                          Means(0, 0, "", {v})}),
               where, [NoContext EXCEPT !.hints = <<Labelled(l[1], v, t)>>]) :
     f \in {<<<<"insured", "people">>, TRUE>>, <<<<"people", "not", "insured">>, FALSE>>}, l \in Labels,
     v \in Binary, t \in {"", "people", "dogs"},
     where \in {<<Equals("is_member", u)>> : u \in Binary}
          \cup {<<Equals("is_member", u), [Equals("is_member", u) EXCEPT !.table = "dogs"]>> : u \in Binary}}

---------------------------------------------------------------------------
(* An aggregate that the evidence asks for, in and out of the query.       *)
AggregateHints ==
  {Asserts(<<"oldest", "refers", "to">>, fn, "age", t) : fn \in Functions3, t \in {"", "people", "dogs"}}
  \cup {Asserts(<<"oldest", "is", "not">>, "MAX", "age", ""), Asserts(<<"best", "rank", "refers", "to">>, "MIN", "rank", "")}
SubstitutionItems ==
  {[LiteralItem(Say(<<"the", "oldest", "people">>, {}), <<[Equals(c, v) EXCEPT !.nested = n]>>,
                [NoContext EXCEPT !.hints = h]) EXCEPT !.select = s] :
     h \in {<<a>> : a \in AggregateHints}, c \in {"age", "rank"}, v \in {"1", "5"}, n \in BOOLEAN,
     s \in Extremes \cup {Everything, Bare(<<Projected(Of("MAX", Age))>>), Bare(<<Projected(Of("AVG", Age))>>),
                          Bare(<<Projected(Term("SUM", <<Age>>, "", "per count"))>>),
                          Bare(<<Projected(Term("SUM", <<Age>>, "", "divide"))>>),
                          [Everything EXCEPT !.nested = {[on |-> Age, term |-> Of("MAX", Age)]}],
                          [Everything EXCEPT !.reliable = FALSE]}}
LiteralFamilies == {NamingItems, RowItems, QuotedItems, EvidencedItems, AliasItems, FlagItems,
                    MappingItems, SubstitutionItems}
============================================================================
