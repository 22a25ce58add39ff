--------------------------- MODULE KeyReasoning ---------------------------
(***************************************************************************)
(* What the antipattern detector concludes about a SELECT from verified    *)
(* keys and from the equalities its conditions guarantee                   *)
(* (antipattern_detector.py): that a GROUP BY determines the projected     *)
(* columns (_detect_missing_group_by), that a DISTINCT removes no row      *)
(* (_detect_redundant_distinct), that a column is never NULL               *)
(* (_select_output_nullability).                                           *)
(*                                                                         *)
(* The detector never sees a row. Here the query runs beside it on one     *)
(* database: every step of its walk over the joins, the WHERE clause and   *)
(* the equalities is taken together with what the clause does to the rows  *)
(* joined so far. A clause may hold conditions the detector does not read  *)
(* (opaque): then any of the candidate rows may pass.                      *)
(*                                                                         *)
(* Sources are numbered in the order of FROM and JOIN; a column is a       *)
(* source and a name, as _resolve_column returns it.                       *)
(***************************************************************************)
EXTENDS SqlValues, Naturals

CONSTANTS
  Tables,      \* tables and derived tables of the catalog
  Names,       \* column names
  Signatures,  \* (affinity, collation) of a column
  Canon,       \* per signature, the value each value compares as
  Catalog,     \* per table, what the metadata says of it
  Queries,     \* the SELECTs
  Databases,   \* the contents the SELECTs run on
  MaxSources   \* bound: sources of a SELECT

Entry == [names : SUBSET Names, star : SUBSET Names, key : SUBSET Names,
          notnull : SUBSET Names, derived : BOOLEAN,
          signature : [Names -> Signatures \cup {None}]]

Kinds == {"inner", "cross", "left", "right", "full"}
Forms == {"on", "using", "natural"}
Sources == 1..MaxSources
Col == Sources \X Names

(* Of a HAVING only the columns it rejects when NULL are read. A SELECT    *)
(* that is not grouped is an aggregate if its HAVING or ORDER BY says so.  *)
Clause == [equal : SUBSET (Col \X Col), rejects : SUBSET Col, opaque : BOOLEAN]
Join == [kind : Kinds, form : Forms, using : SUBSET Names, on : Clause]
Select == [size : Sources, from : [Sources -> Tables], join : [Sources -> Join],
           where : Clause, grouped : BOOLEAN, group : SUBSET Col,
           aggregate : BOOLEAN, having : SUBSET Col,
           columns : SUBSET Col, stars : SUBSET Sources, all : BOOLEAN]

Cells == Values \cup {None}

(* What a cell compares as under a signature. A NULL is like no value; the *)
(* value itself where the catalog does not know the signature.             *)
Canonical(signature, cell) ==
  IF cell = None \/ signature = None THEN cell ELSE Canon[signature][cell]

(* _load_schema_metadata takes a key only if no column of it holds NULL    *)
(* now, and its collation is that of its columns: no two rows compare      *)
(* equal on it. A column counts as not nullable only if it is declared so. *)
KeyVerified(d) == \A t \in Tables :
  LET Same(r1, r2) == \A n \in Catalog[t].key :
        Canonical(Catalog[t].signature[n], d[t][r1][n]) =
          Canonical(Catalog[t].signature[n], d[t][r2][n])
  IN  /\ \A r \in DOMAIN d[t] : \A n \in Catalog[t].key \cup Catalog[t].notnull :
           d[t][r][n] # None
      /\ Catalog[t].key # {} =>
           \A r1, r2 \in DOMAIN d[t] : Same(r1, r2) => r1 = r2

InQuery(q, c, last) == c[1] \in 1..last /\ c[2] \in Catalog[q.from[c[1]]].names
ClauseWithin(q, clause, last) ==
  /\ \A e \in clause.equal : InQuery(q, e[1], last) /\ InQuery(q, e[2], last)
  /\ \A c \in clause.rejects : InQuery(q, c, last)

(* A query the engine accepts: a join condition speaks of the sources      *)
(* joined so far.                                                          *)
WellFormed(q) ==
  /\ \A i \in 2..q.size : ClauseWithin(q, q.join[i].on, i)
  /\ ClauseWithin(q, q.where, q.size)
  /\ \A c \in q.group \cup q.having \cup q.columns : InQuery(q, c, q.size)
  /\ q.stars \subseteq 1..q.size

ASSUME KeyAssumption ==
  /\ MaxSources \in Nat /\ None \notin Signatures
  /\ Catalog \in [Tables -> Entry]
  /\ \A t \in Tables : Catalog[t].derived => \A n \in Names : Catalog[t].signature[n] = None
  /\ Queries \subseteq Select /\ \A q \in Queries : WellFormed(q)
  /\ \A d \in Databases : \A t \in Tables :
       /\ DOMAIN d[t] \subseteq Nat \ {0}
       /\ \A r \in DOMAIN d[t] : d[t][r] \in [Names -> Cells]
  /\ \A d \in Databases : KeyVerified(d)
  /\ \A s \in Signatures : \A v \in Values : Canon[s][v] # None

VARIABLES
  query, db,  \* the SELECT and the contents of the tables
  at,         \* sources joined so far
  rows,       \* the joined rows: per source a row number, 0 if padded with NULLs
  filtered,   \* WHERE has been applied
  todo,       \* equalities read and not united yet
  equated,    \* the class of each column
  grain       \* _joins_preserve_grain so far

vars == <<query, db, at, rows, filtered, todo, equated, grain>>

Meta(s) == Catalog[query.from[s]]
Signature(c) == Meta(c[1]).signature[c[2]]
Cell(j, c) == IF j[c[1]] = 0 THEN None ELSE db[query.from[c[1]]][j[c[1]]][c[2]]
Key(j, c) == Canonical(Signature(c), Cell(j, c))
Agree(j, c, d) == Key(j, c) = Key(j, d)

(* Two columns compare as a key does when their signatures are known and   *)
(* the same: _columns_compare_compatibly.                                  *)
Compatible(c, d) == Signature(c) # None /\ Signature(c) = Signature(d)
Readable(pairs) == {e \in pairs : Compatible(e[1], e[2])}

TypeOK ==
  /\ query \in Queries /\ db \in Databases
  /\ at \in 1..query.size
  /\ rows \subseteq [1..at -> Nat]
  /\ \A j \in rows : \A s \in 1..at :
       j[s] = 0 \/ j[s] \in DOMAIN db[query.from[s]]
  /\ filtered \in BOOLEAN /\ grain \in BOOLEAN
  /\ todo \subseteq Col \X Col
  /\ equated \in [Col -> SUBSET Col]

---------------------------------------------------------------------------
(* The columns a join merges by name. Of the sources to the left the       *)
(* detector counts as owners those in the catalog, and reads an equality   *)
(* if there is one such owner.                                             *)
Bearers(i, n) == {s \in 1..(i - 1) : n \in Meta(s).names}
Shared(i) ==
  {n \in Meta(i).names : Bearers(i, n) # {} /\
     (query.join[i].form = "natural" \/ n \in query.join[i].using)}
Merged(i) == {<<<<s, n>>, <<i, n>>>> : s \in 1..(i - 1), n \in Shared(i)}
Owners(i, n) == {s \in Bearers(i, n) : ~Meta(s).derived}
MergedByOne(i) == {e \in Merged(i) : Owners(i, e[2][2]) = {e[1][1]}}
ReadEqualities(i) ==
  IF query.join[i].form = "on" THEN query.join[i].on.equal ELSE MergedByOne(i)

(* The engine joins by the leftmost source that bears the name, derived or *)
(* not. Behind a RIGHT or FULL JOIN, by the first of several that has a    *)
(* value: then any of the rows may match.                                  *)
Coalesced(i, n) ==
  /\ \E k \in 2..(i - 1) : query.join[k].kind \in {"right", "full"}
  /\ \E s, t \in Bearers(i, n) : s # t
Leftmost(i) == {e \in Merged(i) :
  /\ e[1][1] \in Bearers(i, e[2][2]) /\ ~Coalesced(i, e[2][2])
  /\ \A s \in Bearers(i, e[2][2]) : e[1][1] <= s}
JoinEqualities(i) ==
  IF query.join[i].form = "on" THEN query.join[i].on.equal ELSE Leftmost(i)
Uncertain(i) ==
  \/ query.join[i].on.opaque
  \/ query.join[i].form # "on" /\ \E n \in Shared(i) : Coalesced(i, n)

\* Mutant: a RIGHT JOIN pads nothing.
NullExtends_LeftOnly(i) == query.join[i].kind = "left"

(* Of these, _equated_columns reads those of an inner join's ON and USING. *)
NullExtends(i) == query.join[i].kind \in {"left", "right", "full"}
\* Mutant: equalities of an outer join are read as well.
ReadFromJoin_Outer(i) ==
  IF query.join[i].form = "natural" THEN {} ELSE Readable(ReadEqualities(i))

ReadFromJoin(i) ==
  IF NullExtends(i) \/ query.join[i].form = "natural" THEN {}
  ELSE Readable(ReadEqualities(i))

(* Every driving row finds at most one partner: the source is joined on    *)
(* its whole key.                                                          *)
Pinned(i, n) == \E e \in Readable(ReadEqualities(i)) :
  \/ e[1] = <<i, n>> /\ e[2][1] < i
  \/ e[2] = <<i, n>> /\ e[1][1] < i
\* Mutant: the kind of the join is not looked at.
JoinKeepsGrain_AnyKind(i) ==
  /\ Meta(i).key # {}
  /\ \A n \in Meta(i).key : Pinned(i, n)

JoinKeepsGrain(i) ==
  /\ query.join[i].kind \in {"inner", "left"}
  /\ Meta(i).key # {}
  /\ \A n \in Meta(i).key : Pinned(i, n)

(* The rows a clause may let through. Between columns of one signature the *)
(* engine compares as it does for a key; across signatures by rules of its *)
(* own, under which any pair may be equal.                                 *)
Passes(j, equalities, rejects) ==
  /\ \A e \in equalities :
       Signature(e[1]) = Signature(e[2]) /\ Signature(e[1]) # None => Agree(j, e[1], e[2])
  /\ \A c \in rejects : Cell(j, c) # None
Chosen(candidates, opaque) == IF opaque THEN SUBSET candidates ELSE {candidates}

Extend(j, i, r) == [s \in 1..i |-> IF s = i THEN r ELSE j[s]]
Pad(i, r) == [s \in 1..i |-> IF s = i THEN r ELSE 0]

Candidates(i) ==
  {j \in {Extend(k, i, r) : k \in rows, r \in DOMAIN db[query.from[i]]} :
     Passes(j, JoinEqualities(i),
            IF query.join[i].form = "on" THEN query.join[i].on.rejects ELSE {})}

PaddedRight(i, matched) ==
  IF query.join[i].kind \in {"left", "full"}
  THEN {Extend(k, i, 0) : k \in {k \in rows :
          \A r \in DOMAIN db[query.from[i]] : Extend(k, i, r) \notin matched}}
  ELSE {}
PaddedLeft(i, matched) ==
  IF query.join[i].kind \in {"right", "full"}
  THEN {Pad(i, r) : r \in {r \in DOMAIN db[query.from[i]] :
          \A k \in rows : Extend(k, i, r) \notin matched}}
  ELSE {}

(* The engine's rows of the driving source; no column is equated yet.      *)
Init ==
  /\ query \in Queries /\ db \in Databases
  /\ at = 1 /\ filtered = FALSE /\ todo = {}
  /\ rows = {[s \in 1..1 |-> r] : r \in DOMAIN db[query.from[1]]}
  /\ equated = [c \in Col |-> {c}]
  /\ grain = TRUE

(* One join: its rows, its equalities for _equated_columns, its key for    *)
(* _joins_preserve_grain.                                                  *)
JoinNext ==
  /\ at < query.size
  /\ \E matched \in Chosen(Candidates(at + 1), Uncertain(at + 1)) :
       rows' = matched \cup PaddedRight(at + 1, matched) \cup PaddedLeft(at + 1, matched)
  /\ at' = at + 1
  /\ todo' = todo \cup ReadFromJoin(at + 1)
  /\ grain' = (grain /\ JoinKeepsGrain(at + 1))
  /\ UNCHANGED <<query, db, filtered, equated>>

(* WHERE comes after all joins.                                            *)
Filter ==
  /\ at = query.size /\ ~filtered
  /\ rows' \in Chosen({j \in rows : Passes(j, query.where.equal, query.where.rejects)},
                      query.where.opaque)
  /\ filtered' = TRUE
  /\ todo' = todo \cup Readable(query.where.equal)
  /\ UNCHANGED <<query, db, at, equated, grain>>

(* union(left, right) of _equated_columns, in any order.                   *)
United(c, d) == [x \in Col |-> IF x \in equated[c] \cup equated[d]
                               THEN equated[c] \cup equated[d] ELSE equated[x]]
Unite == \E e \in todo :
  /\ equated' = United(e[1], e[2])
  /\ todo' = todo \ {e}
  /\ UNCHANGED <<query, db, at, rows, filtered, grain>>

Next == JoinNext \/ Filter \/ Unite
Spec == Init /\ [][Next]_vars

Done == filtered /\ todo = {}

---------------------------------------------------------------------------
\* Mutant: one column of the key is enough.
KeyGrouped_Some(s) == \E n \in Meta(s).key : equated[<<s, n>>] \cap query.group # {}

(* _source_key_is_grouped, through a column equated to the key's if need be.*)
KeyGrouped(s) ==
  /\ Meta(s).key # {}
  /\ \A n \in Meta(s).key : equated[<<s, n>>] \cap query.group # {}

(* _detect_missing_group_by: a projected column that is neither grouped    *)
(* nor determined. A qualified star is a column of its source that no      *)
(* GROUP BY names, an unqualified one stands for every source.             *)
MissingGroupBy ==
  \/ \E c \in query.columns : c \notin query.group /\ ~KeyGrouped(c[1])
  \/ \E s \in query.stars : ~KeyGrouped(s)
  \/ query.all /\ \E s \in 1..query.size : ~KeyGrouped(s)

(* _group_key_is_projected: two groups never give one projected row. An    *)
(* unqualified star shows a column merged by USING once only.              *)
MergesColumns == \E i \in 2..query.size : query.join[i].form # "on"
StarCovers(c) ==
  /\ c[1] \in query.stars \/ (query.all /\ ~MergesColumns)
  /\ c[2] \in Meta(c[1]).star
GroupKeyProjected == query.group # {} /\ \A c \in query.group :
  equated[c] \cap query.columns # {} \/ StarCovers(c)

(* _projection_pins_key of the leading relation.                           *)
ProjectionPinsKey == \A n \in Meta(1).key :
  \/ equated[<<1, n>>] \cap query.columns # {}
  \/ (query.all \/ 1 \in query.stars) /\ n \in Meta(1).star

RedundantDistinct ==
  IF query.grouped THEN GroupKeyProjected
  ELSE /\ \A s \in 1..query.size : ~Meta(s).derived
       /\ Meta(1).key # {} /\ grain /\ ProjectionPinsKey

(* _select_output_nullability of a projected column.                       *)
RejectedNulls == query.where.rejects \cup query.having \cup
  UNION {query.join[i].on.rejects : i \in {i \in 2..query.size :
           ~NullExtends(i) /\ query.join[i].form = "on"}}
NonNull(c) ==
  /\ \A s \in 1..query.size : ~Meta(s).derived
  /\ \A i \in 2..query.size : ~NullExtends(i)
  /\ c \in RejectedNulls \/ c[2] \in Meta(c[1]).notnull

(* What the SELECT shows of a row: a star leaves out the right hand of a   *)
(* merged pair, and a RIGHT or FULL join puts the right hand's value in    *)
(* the column of the left hand's.                                          *)
StarShows(c) ==
  /\ c[2] \in Meta(c[1]).star
  /\ c[1] > 1 => query.join[c[1]].form = "on" \/ c[2] \notin Shared(c[1])
  /\ \A i \in (c[1] + 1)..query.size :
       query.join[i].kind \in {"right", "full"} /\ query.join[i].form # "on"
         => c[2] \notin Shared(i)
Shown(c) ==
  \/ c \in query.columns
  \/ c[1] \in query.stars /\ c[2] \in Meta(c[1]).star
  \/ query.all /\ c[1] \in 1..query.size /\ StarShows(c)

SameOn(j, k, c) == Key(j, c) = Key(k, c)
SameGroup(j, k) == \A c \in query.group : SameOn(j, k, c)
SameProjection(j, k) == \A c \in Col : Shown(c) => SameOn(j, k, c)

---------------------------------------------------------------------------
(* Of the sources a USING or NATURAL may take a column from, all are in    *)
(* the catalog. Of a derived one the detector does not know the columns:   *)
(* it takes FROM (SELECT ... AS x) v JOIN t ON ... JOIN u USING (x) to     *)
(* equate t.x with u.x, where the engine compares v.x.                     *)
MergesKnown == \A i \in 2..query.size : query.join[i].form # "on" =>
  \A n \in Shared(i) : \A s \in Bearers(i, n) : ~Meta(s).derived

(* The columns of a class have the same value in every row of the result,  *)
(* whatever outer joins padded: _equated_columns "forces to be equal".     *)
EquatedAgree == Done /\ MergesKnown => \A c \in Col : InQuery(query, c, query.size) =>
  \A d \in equated[c] : \A j \in rows : Agree(j, c, d)

(* A query not reported for its GROUP BY returns no arbitrary value: two   *)
(* rows of one group agree on all that is projected, a star's source rows  *)
(* included.                                                               *)
GroupsAreDetermined == Done /\ MergesKnown /\ query.grouped /\ ~MissingGroupBy =>
  \A j, k \in rows : SameGroup(j, k) =>
    /\ \A c \in query.columns : SameOn(j, k, c)
    /\ \A s \in query.stars : j[s] = k[s]
    /\ query.all => j = k

(* A DISTINCT reported as redundant removes nothing: rows, or groups, that *)
(* differ stay different in the projection.                                *)
DistinctRemovesNothing == Done /\ MergesKnown /\ RedundantDistinct =>
  \A j, k \in rows : SameProjection(j, k) =>
    IF query.grouped THEN SameGroup(j, k) ELSE j = k

(* The rows a result may show after HAVING: any row of a group may stand   *)
(* for it, and for the one group of an aggregate over nothing a row of     *)
(* NULLs.                                                                  *)
Nothing == [s \in 1..query.size |-> 0]
Standing == {j \in rows \cup (IF query.aggregate /\ rows = {} THEN {Nothing} ELSE {}) :
               Passes(j, {}, query.having)}

(* A projected column proved non-NULL is not NULL in any row of the        *)
(* result, so a NOT IN over it is rightly left without a warning. Only in  *)
(* the row an aggregate makes of nothing may it be, if no HAVING speaks of *)
(* it: SELECT k FROM t HAVING COUNT( * ) = 0, with k NOT NULL.             *)
NonNullSound == Done => \A c \in query.columns : NonNull(c) =>
  \A j \in Standing : j # Nothing \/ c \in query.having => Cell(j, c) # None

============================================================================
