-------------------------- MODULE MCKeyReasoning --------------------------
(* Two keyed tables, one with a key of two columns and a derived table,    *)
(* every content of at most two rows over two values that a NOCASE column  *)
(* does not tell apart.                                                    *)
EXTENDS KeyReasoning, FiniteSets, SequencesExt

CONSTANTS t, u, w, dv, k, x, lower, upper, binary, nocase

MCTables == {t, u, w, dv}
MCNames == {k, x}
MCValues == {lower, upper}
MCSignatures == {binary, nocase}
MCCanon == [s \in MCSignatures |->
             [v \in MCValues |-> IF s = nocase THEN lower ELSE v]]

Meta_(names, key, notnull, derived, onX) ==
  [names |-> names, star |-> IF derived THEN {} ELSE names, key |-> key,
   notnull |-> notnull, derived |-> derived,
   signature |-> [n \in MCNames |-> CASE derived -> None [] n = k -> binary [] OTHER -> onX]]

MCCatalog ==
  [y \in MCTables |->
     CASE y = t -> Meta_({k, x}, {k}, {k}, FALSE, binary)
       [] y = u -> Meta_({k, x}, {k}, {}, FALSE, nocase)
       [] y = w -> Meta_({k, x}, {k, x}, {}, FALSE, binary)
       [] y = dv -> Meta_({x}, {}, {}, TRUE, binary)]

Row(vk, vx) == [n \in MCNames |-> IF n = k THEN vk ELSE vx]
RowsOf(y) ==
  CASE y = t -> {Row(a, b) : a \in MCValues, b \in MCValues \cup {None}}
    [] y = u -> {Row(a, b) : a \in MCValues, b \in {upper, None}}
    [] y = w -> {Row(a, b) : a, b \in MCValues}
    [] y = dv -> {Row(None, b) : b \in {lower, None}}
Contents(y) == {SetToSeq(S) : S \in
  {S \in SUBSET RowsOf(y) : /\ Cardinality(S) <= 2
                            /\ y \in {t, u} => \A a, b \in S : a[k] = b[k] => a = b}}

(* The contents of t and of one other table; the others are empty.         *)
MCDatabases ==
  UNION {{[y \in MCTables |-> IF y = t THEN a ELSE IF y = z THEN b ELSE <<>>] :
             a \in Contents(t), b \in Contents(z)} : z \in MCTables \ {t}}

Only(equal, rejects) == [equal |-> equal, rejects |-> rejects, opaque |-> FALSE]
Perhaps(equal, rejects) == [equal |-> equal, rejects |-> rejects, opaque |-> TRUE]
Anything == Only({}, {})

Joined(kind, form, using, on) == [kind |-> kind, form |-> form, using |-> using, on |-> on]
OnKey(kind, i) == Joined(kind, "on", {}, Only({<<<<i - 1, k>>, <<i, k>>>>}, {}))

(* SELECT columns FROM tables ... GROUP BY group, and SELECT DISTINCT.     *)
Query(tables, joins, where, grouped, group, columns, all) ==
  [size |-> Len(tables), from |-> [i \in 1..3 |-> IF i <= Len(tables) THEN tables[i] ELSE t],
   join |-> [i \in 1..3 |-> IF i > 1 /\ i <= Len(tables) THEN joins[i - 1]
                            ELSE Joined("cross", "on", {}, Anything)],
   where |-> where, grouped |-> grouped, group |-> group,
   aggregate |-> FALSE, having |-> {},
   columns |-> columns, stars |-> {}, all |-> all]
Grouping(tables, joins, where, group, columns) ==
  Query(tables, joins, where, TRUE, group, columns, FALSE)
Distinct(tables, joins, where, columns) ==
  Query(tables, joins, where, FALSE, {}, columns, FALSE)
Stars(S, q) == [q EXCEPT !.stars = S]
All(q) == [q EXCEPT !.all = TRUE]
Having(cols, q) == [q EXCEPT !.having = cols]
Aggregate(q) == [q EXCEPT !.aggregate = TRUE]
Using(kind, n) == Joined(kind, "using", {n}, Anything)

MCQueries ==
  { \* inner join: a grouped foreign key determines the other table
    Grouping(<<t, u>>, <<OnKey("inner", 2)>>, Anything, {<<2, k>>}, {<<1, x>>, <<2, x>>}),
    \* the same from WHERE, of a comma join
    Grouping(<<t, u>>, <<Joined("cross", "on", {}, Anything)>>,
             Only({<<<<1, k>>, <<2, k>>>>}, {}), {<<2, k>>}, {<<1, x>>}),
    \* a LEFT JOIN determines its own side only
    Grouping(<<t, u>>, <<OnKey("left", 2)>>, Anything, {<<2, k>>}, {<<1, x>>}),
    Grouping(<<t, u>>, <<OnKey("left", 2)>>, Anything, {<<2, k>>}, {<<2, x>>}),
    \* across collations, nothing
    Grouping(<<t, u>>, <<Joined("inner", "on", {}, Perhaps({<<<<1, x>>, <<2, x>>>>}, {}))>>,
             Anything, {<<1, x>>, <<2, k>>}, {<<2, x>>}),
    \* a qualified star asks for the key of its own source alone
    Stars({2}, Grouping(<<t, u>>, <<OnKey("left", 2)>>, Anything, {<<2, k>>}, {})),
    Stars({1}, Distinct(<<t, u>>, <<OnKey("left", 2)>>, Anything, {})),
    Stars({1}, Grouping(<<t, u>>, <<OnKey("inner", 2)>>, Anything, {<<1, x>>, <<2, k>>}, {})),
    \* half a key
    Grouping(<<t, w>>, <<OnKey("inner", 2)>>, Anything, {<<2, k>>}, {<<2, x>>}),
    Grouping(<<t, w>>, <<Joined("inner", "on", {}, Only({<<<<1, k>>, <<2, k>>>>,
             <<<<1, x>>, <<2, x>>>>}, {}))>>, Anything, {<<1, k>>, <<1, x>>}, {<<2, x>>}),
    \* a chain whose right end pads both sides of an equality
    Grouping(<<t, u, t>>, <<OnKey("inner", 2), OnKey("right", 3)>>, Anything,
             {<<1, k>>}, {<<2, x>>}),
    Grouping(<<t, u, t>>, <<OnKey("left", 2), OnKey("inner", 3)>>, Anything,
             {<<3, k>>}, {<<1, x>>, <<2, x>>}),
    All(Grouping(<<t, u>>, <<Joined("full", "using", {k}, Anything)>>, Anything,
             {<<1, k>>, <<2, k>>}, {})),
    All(Grouping(<<t, u>>, <<Joined("right", "using", {k}, Anything)>>, Anything,
             {<<1, k>>}, {})),
    \* DISTINCT over a projected key
    Distinct(<<t, u>>, <<OnKey("left", 2)>>, Perhaps({}, {<<1, x>>}), {<<1, k>>, <<1, x>>}),
    Distinct(<<t, u>>, <<OnKey("right", 2)>>, Anything, {<<1, k>>}),
    Distinct(<<t, u, t>>, <<OnKey("inner", 2), OnKey("left", 3)>>, Anything, {<<2, k>>}),
    Distinct(<<t, w>>, <<OnKey("left", 2)>>, Anything, {<<1, k>>}),
    All(Distinct(<<t, u>>, <<Joined("left", "using", {k}, Anything)>>, Anything, {})),
    Distinct(<<t, u>>, <<Joined("inner", "natural", {}, Perhaps({}, {}))>>, Anything, {<<2, k>>, <<1, k>>}),
    Distinct(<<t, dv>>, <<Joined("inner", "on", {}, Perhaps({<<<<1, x>>, <<2, x>>>>}, {}))>>,
             Anything, {<<1, k>>}),
    \* columns that are, or only seem, never NULL
    Distinct(<<t, u>>, <<Joined("inner", "on", {}, Perhaps({}, {<<1, x>>, <<2, x>>}))>>,
             Anything, {<<1, x>>, <<2, x>>, <<1, k>>}),
    Distinct(<<t, u>>, <<Joined("right", "on", {}, Perhaps({}, {<<1, x>>}))>>,
             Anything, {<<1, x>>, <<1, k>>}),
    Distinct(<<t, u>>, <<Joined("full", "on", {}, Perhaps({}, {<<1, x>>}))>>,
             Only({}, {<<2, x>>}), {<<1, k>>, <<2, x>>}),
    Having({<<1, x>>}, Grouping(<<t, u>>, <<OnKey("inner", 2)>>, Anything,
             {<<1, x>>, <<2, k>>}, {<<1, x>>, <<2, x>>})),
    \* the one row of an aggregate, with and without a HAVING that names its columns
    Aggregate(Distinct(<<t>>, <<>>, Only({}, {<<1, x>>}), {<<1, k>>, <<1, x>>})),
    Aggregate(Having({<<1, k>>, <<1, x>>}, Distinct(<<t>>, <<>>, Anything, {<<1, k>>, <<1, x>>}))),
    \* names merged behind other joins: of one source, of several, of a derived one
    Grouping(<<t, u, t>>, <<Using("inner", k), Using("inner", x)>>, Anything, {<<1, x>>}, {<<3, x>>}),
    Grouping(<<t, t, w>>, <<Using("full", k), Using("inner", k)>>, Anything, {<<3, k>>}, {<<1, x>>}),
    Grouping(<<t, dv, t>>, <<Joined("inner", "on", {}, Anything), Using("inner", x)>>,
             Anything, {<<3, k>>}, {<<3, x>>}),
    Grouping(<<dv, t, t>>, <<Joined("inner", "on", {}, Anything), Joined("inner", "using", {x}, Perhaps({}, {}))>>,
             Anything, {<<2, k>>, <<3, k>>}, {<<2, x>>, <<3, x>>}),
    Grouping(<<dv, t, t>>, <<Joined("inner", "on", {}, Anything), Using("left", k)>>,
             Anything, {<<2, k>>}, {<<3, x>>}) }
============================================================================
