------------------------ MODULE MCCartesianProducts ------------------------
(* The SELECTs of MCKeyReasoning, and others that may be products: of      *)
(* derived tables of several shapes, with joins ON FALSE, and with         *)
(* conditions of every form.                                               *)
EXTENDS MCKeyReasoning, CartesianProducts

NoLimit == [kind |-> "none", n |-> 0]
Plain == [union |-> FALSE, from |-> TRUE, aggregate |-> FALSE, grouped |-> FALSE,
          expands |-> FALSE, limit |-> NoLimit]
Limited(kind, n) == [Plain EXCEPT !.limit = [kind |-> kind, n |-> n]]
Total == [Plain EXCEPT !.aggregate = TRUE]
Shapes ==
  { Total, [Total EXCEPT !.grouped = TRUE], [Total EXCEPT !.union = TRUE],
    [Plain EXCEPT !.from = FALSE], [Plain EXCEPT !.from = FALSE, !.expands = TRUE],
    Limited("number", 1), Limited("number", 0), Limited("number", 2), Limited("ties", 1),
    Limited("ties", 0), Limited("percent", 1), Limited("by", 1), Limited("computed", 1) }

(* Beside the contents of MCKeyReasoning: some rows in t, and some in the  *)
(* tables it is joined with.                                               *)
Some(n) == SubSeq(<<Row(lower, lower), Row(upper, upper)>>, 1, n)
Few(n) == SubSeq(<<Row(None, lower), Row(None, None)>>, 1, n)
PlainDatabases ==
  {[y \in MCTables |-> CASE y = t -> Some(n) [] y = dv -> Few(m) [] OTHER -> Some(m)] : n, m \in 0..2}
AllDatabases == MCDatabases \cup PlainDatabases

---------------------------------------------------------------------------
Silent == [said |-> [i \in 1..3 |-> {}], never |-> {}, shape |-> [i \in 1..3 |-> Plain]]
Whole(tables, joins, where) == Distinct(tables, joins, where, {<<1, x>>})
Free(kind) == Joined(kind, "on", {}, Anything)
Guess(kind) == Joined(kind, "on", {}, Perhaps({}, {}))

(* What a condition may mean: nothing, that the row numbers are equal or   *)
(* that they are not, or that one combination passes.                      *)
MeaningsOf(c) ==
  LET cells == [Touches(c) -> 0..2]
      Equal(f) == \A a, b \in DOMAIN f : f[a] = f[b]
  IN  {{}, {f \in cells : Equal(f)}, {f \in cells : ~Equal(f)}, {[a \in Touches(c) |-> 1]}}
Telling(select, said, contents) ==
  LET conditions == UNION {said.said[i] : i \in 1..3}
  IN  [select |-> select, words |-> said, contents |-> contents,
       meanings |-> {f \in [conditions -> UNION {MeaningsOf(c) : c \in conditions}] :
                       \A c \in conditions : f[c] \in MeaningsOf(c)}]
Quiet(select, contents) == Telling(select, Silent, contents)

(* A SELECT whose joins have any kind, those of never being ON FALSE.      *)
Falsely(tables, kinds, never) ==
  Telling(Whole(tables, [i \in 1..(Len(tables) - 1) |->
                  IF i + 1 \in never THEN Guess(kinds[i]) ELSE Free(kinds[i])], Anything),
          [Silent EXCEPT !.never = never], PlainDatabases)
FalseJoins ==
  {Falsely(<<t, u, t>>, <<a, b>>, never) :
     a \in Kinds \ {"cross"}, b \in Kinds \ {"cross"}, never \in {{2}, {3}, {2, 3}}}

(* A derived table that is joined, or is joined to.                        *)
Derived(shape, select) ==
  Telling(select, [Silent EXCEPT !.shape = [i \in 1..3 |-> shape]],
          {d \in PlainDatabases : MayReturn(shape, Len(d[dv]))})
ScalarJoins ==
  {Derived(y, Whole(tables, <<Guess(kind)>>, Anything)) :
     y \in Shapes, tables \in {<<t, dv>>, <<dv, t>>}, kind \in Kinds \ {"cross"}}
  \cup {Derived(y, Whole(<<t, dv, u>>, <<Free("inner"), Joined("left", "on", {}, Only({<<<<1, k>>, <<3, k>>>>}, {}))>>,
                         Anything)) : y \in Shapes}
  \cup {Derived(y, Whole(<<dv, t, dv>>, <<Guess(a), Guess(b)>>, Anything)) :
          y \in Shapes, a, b \in {"inner", "left", "full"}}

(* Conditions on t, u and t: where each is said, and what it names.        *)
Saying(on2, on3, where) ==
  LET Clause_(S) == IF S = {} THEN Anything ELSE Perhaps({}, {})
      Inner(S) == Joined("inner", "on", {}, Clause_(S))
  IN  Telling(Whole(<<t, u, t>>, <<Inner(on2), Inner(on3)>>, Clause_(where)),
              [Silent EXCEPT !.said = <<where, on2, on3>>], PlainDatabases)
Naming(S) == [left |-> {}, alternatives |-> {S}, list |-> FALSE, within |-> {}]
Among(left, alternatives) ==
  [left |-> left, alternatives |-> alternatives, list |-> TRUE, within |-> {}]
Inside(S) == [Naming({}) EXCEPT !.within = S]
SaidJoins ==
  {Saying(on2, on3, where) :
     on2 \in {{}, {{Naming({1, 2})}}, {{Naming({2})}}},
     on3 \in {{}, {{Naming({1, 3})}}, {{Naming({1}), Naming({3})}}},
     where \in {{}, {{Naming({2, 3})}}, {{Among({2}, {{1}, {1, 2}})}}, {{Among({2}, {{1}, {1, 3}})}}, {{Among({1}, {{2}, {}})}}, {{Inside({1, 2})}}}}

(* USING behind a product, or behind a connected prefix.                   *)
UsingJoins ==
  {Quiet(Whole(<<t, u, w>>, <<first, Joined(kind, "using", {n}, Anything)>>, Anything), PlainDatabases) :
     first \in {Free("inner"), OnKey("inner", 2)}, kind \in {"inner", "left", "full"}, n \in {k, x}}
  \cup {Telling(Whole(<<dv, t, w>>, <<Free("inner"), Joined("inner", "using", {k}, Anything)>>, Perhaps({}, {})),
                [Silent EXCEPT !.said[1] = {{Naming({1, 3})}}], PlainDatabases)}

AllSelects == {Quiet(q, MCDatabases) : q \in MCQueries} \cup FalseJoins \cup ScalarJoins \cup SaidJoins \cup UsingJoins
AllQueries == {s.select : s \in AllSelects}
============================================================================
