------------------------- MODULE CartesianProducts -------------------------
(***************************************************************************)
(* Which SELECTs the antipattern detector reports as a Cartesian product   *)
(* (_detect_cartesian_product of antipattern_detector.py), and which       *)
(* sources it lets pass because they cannot multiply rows: derived ones    *)
(* that yield one row at most, and the sides of a JOIN ... ON FALSE that   *)
(* contribute nothing.                                                     *)
(*                                                                         *)
(* The rule looks at the SELECT of KeyReasoning, so this module adds to    *)
(* that one: the walk over the joins and the rows are the same, every step *)
(* here is a step there. What the other rules do not read of a condition   *)
(* is told here: the sources it names, and an arbitrary relation of their  *)
(* rows as its meaning.                                                    *)
(*                                                                         *)
(* Sources have different aliases, columns are qualified, and no subquery  *)
(* of an ON compares two sources of the SELECT around it.                  *)
(***************************************************************************)
EXTENDS KeyReasoning

CONSTANTS
  Selects, \* the SELECTs, with their words, what these may mean,
           \* and the contents they run on
  Many     \* bound: rows of a derived table

(* A predicate names sources on its left, and on its right in one or more  *)
(* alternatives: those of an IN list, which may be passed over (list), or  *)
(* the operands of any other predicate or boolean function. A comparison   *)
(* of tuples is one predicate per position. Sources named in a subquery    *)
(* only are not seen (within). A condition is what AND joins: predicates   *)
(* below OR and NOT are together in one.                                   *)
Predicate == [left : SUBSET Sources, alternatives : SUBSET SUBSET Sources,
              list : BOOLEAN, within : SUBSET Sources]
Conditions == SUBSET Predicate
Touches(c) == UNION {p.left \cup p.within \cup UNION p.alternatives : p \in c}

(* The query of a derived table: a set operation, with a FROM, aggregates, *)
(* GROUP BY, projections that emit several rows per row (expands), and a   *)
(* LIMIT or FETCH: none, a number (of rows, or per cent, with ties, or by  *)
(* group), or computed.                                                    *)
Limit == [kind : {"none", "number", "percent", "ties", "by", "computed"}, n : Nat]
Shape == [union : BOOLEAN, from : BOOLEAN, aggregate : BOOLEAN, grouped : BOOLEAN,
          expands : BOOLEAN, limit : Limit]

(* said[i]: the conditions of the ON of source i, and of WHERE for i = 1;  *)
(* never: the sources joined ON FALSE; shape: of those that are derived.   *)
Words == [said : [Sources -> SUBSET Conditions], never : SUBSET Sources,
          shape : [Sources -> Shape]]

(* The rows such a query may return: HAVING, WHERE and OFFSET may drop     *)
(* some, and nothing is known of a set operation.                          *)
Cut(limit, n) ==
  /\ limit.kind = "number" => n <= limit.n
  /\ limit.kind \in {"percent", "ties", "by"} /\ limit.n = 0 => n = 0
MayReturn(shape, n) == \E read, made \in 0..Many :
  /\ ~shape.from => read <= 1
  /\ ~shape.union /\ ~shape.expands =>
       IF shape.aggregate /\ ~shape.grouped THEN made <= 1 ELSE made <= read
  /\ n <= made /\ Cut(shape.limit, n)

ToldOf(w, i) == i \in w.never \/ w.said[i] # {}

ASSUME ProductAssumption ==
  /\ Many \in Nat
  /\ \A x \in Selects : LET q == x.select IN
       /\ q \in Queries /\ x.words \in Words /\ x.contents \subseteq Databases
       /\ \A i \in 2..q.size : \A c \in x.words.said[i] : Touches(c) \subseteq 1..i
       /\ \A c \in x.words.said[1] : Touches(c) \subseteq 1..q.size
       /\ ToldOf(x.words, 1) => q.where.opaque
       /\ \A i \in 2..q.size :
            ToldOf(x.words, i) => q.join[i].on.opaque /\ q.join[i].form = "on"
       /\ \A d \in x.contents : \A s \in 1..q.size : Catalog[q.from[s]].derived =>
            \E n \in 0..Many : MayReturn(x.words.shape[s], n) /\ DOMAIN d[q.from[s]] = 1..n

VARIABLES
  words,      \* of the SELECT
  meaning,    \* per condition, the rows of its sources it accepts
  active,     \* _analyze_constant_false_joins: the sources that matter so far
  irrelevant, \* and those that do not any more
  empty,      \* the relation so far has no row
  attached,   \* FULL JOIN ... ON FALSE: what each attaches to what
  once        \* history: the rows to the left of some USING were a product

Told(i) == ToldOf(words, i)

walk == <<active, irrelevant, empty, attached>>
allVars == <<vars, words, meaning, walk, once>>

---------------------------------------------------------------------------
(* _limit_proves_at_most_one_row *)
LimitProves(limit) ==
  /\ limit.kind \in {"number", "percent", "ties"}
  /\ limit.n = 0 \/ (limit.n = 1 /\ limit.kind = "number")

\* Mutant: an aggregate is one row, grouped or not.
ProvablyScalar_Grouped(shape) ==
  \/ LimitProves(shape.limit)
  \/ ~shape.union /\ ~shape.expands /\ (~shape.from \/ shape.aggregate)

(* _is_provably_scalar_query *)
ProvablyScalar(shape) ==
  \/ LimitProves(shape.limit)
  \/ /\ ~shape.union /\ ~shape.expands
     /\ ~shape.from \/ (~shape.grouped /\ shape.aggregate)

(* _collect_provably_scalar_source_names: derived tables and CTEs only.    *)
Scalar(s) == Meta(s).derived /\ ProvablyScalar(words.shape[s])

(* What the rule counts of the sources.                                    *)
Counted == {s \in 1..query.size : ~Scalar(s) /\ s \notin irrelevant}

---------------------------------------------------------------------------
(* _collect_inter_table_refs_at_level: what one predicate connects. An IN  *)
(* list connects what every alternative needs beside the left hand side.   *)
Links(p) ==
  LET required == {s \in UNION p.alternatives : \A a \in p.alternatives : s \in a \ p.left}
  IN  IF ~p.list THEN p.left \cup UNION p.alternatives
      ELSE IF p.left = {} \/ required = {} THEN {} ELSE p.left \cup required

EqualityLinks(pairs) == {{e[1][1], e[2][1]} : e \in pairs}
SaidLinks(conditions) == UNION {{Links(p) : p \in c} : c \in conditions}
JoinLinks(i) == SaidLinks(words.said[i]) \cup
  IF query.join[i].form = "on" THEN EqualityLinks(query.join[i].on.equal) ELSE {}

\* Mutant: WHERE is not looked at.
WhereLinks_None == {}

WhereLinks == EqualityLinks(query.where.equal) \cup SaidLinks(words.said[1])
ConditionEdges == WhereLinks \cup UNION {JoinLinks(i) : i \in 2..query.size}

(* USING attaches a source to all before it; what shares a name with it is *)
(* not looked at, and NATURAL is not either.                               *)
Attachments == attached \cup
  {[join |-> i, left |-> 1..(i - 1), right |-> {i}] :
     i \in {i \in 2..query.size : query.join[i].form = "using"}}

(* The union-find of _are_sources_connected: sources are in one class      *)
(* unless a set of the counted sources that no edge leaves parts them.     *)
Closed(A, edges) == \A e \in edges : e \cap Counted \subseteq A \/ e \cap A = {}
Parts(A, S) == S \cap A # {} /\ (S \cap Counted) \ A # {}
Parted(S, edges) == \E A \in SUBSET Counted : Closed(A, edges) /\ Parts(A, S)

Before(i) == ConditionEdges \cup {m.left \cup m.right : m \in {m \in Attachments : m.join < i}}

(* _are_sources_connected: an attachment never heals a product to its left.*)
Connected ==
  /\ \A m \in Attachments : ~Parted(m.left, Before(m.join))
  /\ ~Parted(Counted, Before(query.size + 1))

(* _detect_cartesian_product *)
Reported == ~empty /\ (\E s, t \in Counted : s # t) /\ ~Connected

---------------------------------------------------------------------------
(* The engine: the conditions that are told, on the rows of a join.        *)
Holds(c, j) == [s \in Touches(c) |-> j[s]] \in meaning[c]
Matched(i) == {j \in Candidates(i) : /\ i \notin words.never
                                     /\ \A c \in words.said[i] : Holds(c, j)}

(* Whether the rows are all combinations of what they hold in some of the  *)
(* sources and what they hold in the others.                               *)
CombineOn(A) == \A j, k \in rows : \E m \in rows :
  \A s \in 1..at : ~Scalar(s) => m[s] = IF s \in A THEN j[s] ELSE k[s]
IsProduct == \E A \in SUBSET (1..at) :
  /\ \E s \in A : ~Scalar(s)
  /\ \E s \in (1..at) \ A : ~Scalar(s)
  /\ CombineOn(A)

ProductInit ==
  /\ \E x \in Selects : query = x.select /\ words = x.words
                         /\ meaning \in x.meanings /\ db \in x.contents
  /\ Init
  /\ active = {1} /\ irrelevant = {} /\ empty = FALSE /\ attached = {} /\ once = FALSE

(* _analyze_constant_false_joins, one join. An empty prefix matters again  *)
(* only as what a RIGHT or FULL JOIN replaces.                             *)
Count(i) ==
  LET kind == query.join[i].kind
      never == i \in words.never
      Keep == active' = active \cup {i} /\ irrelevant' = irrelevant
      Replace == active' = {i} /\ irrelevant' = irrelevant \cup active
  IN  \/ /\ empty /\ kind \in {"right", "full"}
         /\ Replace /\ empty' = FALSE /\ UNCHANGED attached
      \/ /\ (empty /\ kind \notin {"right", "full"}) \/ (~empty /\ ~never)
         /\ Keep /\ UNCHANGED <<empty, attached>>
      \/ /\ ~empty /\ never /\ kind = "left"
         /\ irrelevant' = irrelevant \cup {i} /\ UNCHANGED <<active, empty, attached>>
      \/ ~empty /\ never /\ kind = "right" /\ Replace /\ UNCHANGED <<empty, attached>>
      \/ /\ ~empty /\ never /\ kind = "full" /\ Keep /\ UNCHANGED empty
         /\ attached' = attached \cup {[join |-> i, left |-> active, right |-> {i}]}
      \/ ~empty /\ never /\ kind \in {"inner", "cross"} /\ Keep /\ empty' = TRUE /\ UNCHANGED attached

CountedJoin ==
  /\ at < query.size
  /\ LET i == at + 1 IN
       /\ Told(i) =>
            rows' = Matched(i) \cup PaddedRight(i, Matched(i)) \cup PaddedLeft(i, Matched(i))
       /\ JoinNext /\ Count(i)
  /\ once' = (once \/ (query.join[at + 1].form = "using" /\ IsProduct))
  /\ UNCHANGED <<words, meaning>>

CountedFilter ==
  /\ at = query.size /\ ~filtered
  /\ Told(1) =>
       rows' = {j \in rows : /\ Passes(j, query.where.equal, query.where.rejects)
                             /\ \A c \in words.said[1] : Holds(c, j)}
  /\ Filter
  /\ UNCHANGED <<words, meaning, walk, once>>

CountedUnite == Unite /\ UNCHANGED <<words, meaning, walk, once>>

ProductNext == CountedJoin \/ CountedFilter \/ CountedUnite
ProductSpec == ProductInit /\ [][ProductNext]_allVars

---------------------------------------------------------------------------
(* Sources that are not counted multiply nothing: rows that agree on the   *)
(* counted ones are the same row, and a relation called empty has none.    *)
(* Only a FULL JOIN of a scalar source may add a row of its own.           *)
UncountedAddNothing == Done =>
  /\ empty => rows = {}
  /\ (\A i \in 2..query.size : query.join[i].kind = "full" => ~Scalar(i)) =>
       \A j, k \in rows : (\A s \in Counted : j[s] = k[s]) => j = k

(* Inner joins whose conditions are single predicates, of which the rule   *)
(* sees all sources: no OR, no subquery, and in an IN list the same ones   *)
(* in every alternative.                                                   *)
Legible ==
  /\ query.where.opaque => Told(1)
  /\ \A i \in 2..query.size :
       /\ query.join[i].kind \in {"inner", "cross"} /\ query.join[i].form # "natural"
       /\ query.join[i].on.opaque => Told(i)
       /\ i \notin words.never
  /\ \A i \in 1..query.size : \A c \in words.said[i] :
       \E p \in c : c = {p} /\ (Links(p) = Touches(c) \/ \A s, t \in Touches(c) : s = t)

(* A SELECT reported has a Cartesian product in it: its rows, or those     *)
(* that some USING joined to, are all combinations of two groups of        *)
(* sources.                                                                *)
ReportedIsProduct == Done /\ Legible /\ Reported => IsProduct \/ once
============================================================================
