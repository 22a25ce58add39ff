-------------------------- MODULE QueryExecutionProofs --------------------------
(***************************************************************************)
(* Theorems about QueryExecution, for every dataset, policy, content and   *)
(* number of threads left behind.                                          *)
(***************************************************************************)
EXTENDS QueryExecution, SequenceTheorems, FiniteSetTheorems, TLAPS

------------------------------------------------------------------------------
(* What a LIMIT leaves to chance. *)

\* An arrangement puts every row somewhere.
LEMMA EveryRank ==
    ASSUME NEW n \in Nat, NEW p \in [1..n -> 1..n], \A i, j \in 1..n : p[i] = p[j] => i = j
    PROVE  {p[i] : i \in 1..n} = 1..n
<1>1. IsFiniteSet(1..n)
  BY FS_Interval
<1>2. p \in Injection(1..n, 1..n)
  BY DEF Injection, IsInjective
<1>3. p \in Surjection(1..n, 1..n)
  BY <1>1, <1>2, FS_Injection
<1>4. QED
  BY <1>3 DEF Surjection

\* Keys in order, and a permutation of their ranks that keeps them so.
InOrder(keys, n) ==
    keys \in [1..n -> Int] /\ \A i, j \in 1..n : i < j => keys[i] <= keys[j]

Follows(p, keys, n) ==
    /\ p \in [1..n -> 1..n]
    /\ \A i, j \in 1..n : p[i] = p[j] => i = j
    /\ \A i, j \in 1..n : i < j => keys[p[i]] <= keys[p[j]]

Prefix(p, cut) == {p[i] : i \in 1..cut}

\* In order, the first rows are the first ranks unless the cut divides equals.
LEMMA CleanCut ==
    ASSUME NEW n \in Nat, NEW keys, NEW p, NEW cut \in 1..n, InOrder(keys, n), Follows(p, keys, n),
           cut < n => keys[cut] # keys[cut + 1]
    PROVE  Prefix(p, cut) = 1..cut
<1> /\ keys \in [1..n -> Int] /\ \A i, j \in 1..n : i < j => keys[i] <= keys[j]
    /\ p \in [1..n -> 1..n]
    /\ \A i, j \in 1..n : p[i] = p[j] => i = j
    /\ \A i, j \in 1..n : i < j => keys[p[i]] <= keys[p[j]]
  BY DEF InOrder, Follows
<1>0. \A i, j \in 1..n : i <= j => keys[i] <= keys[j]
  OBVIOUS
<1>1. \A i, j \in 1..n : i <= j => keys[p[i]] <= keys[p[j]]
  BY SMTT(30)
<1>2. ASSUME NEW i \in 1..cut, p[i] > cut PROVE FALSE
  <2>1. i \in 1..n /\ p[i] \in 1..n /\ cut + 1 \in 1..n /\ cut < n
    BY <1>2
  <2>2. keys[cut] < keys[cut + 1]
    <3>1. keys[cut] <= keys[cut + 1] /\ keys[cut] # keys[cut + 1]
      BY <1>0, <2>1
    <3>2. QED
      BY <2>1, <3>1
  <2>3. keys[cut + 1] <= keys[p[i]]
    BY <1>0, <1>2, <2>1
  <2>4. ASSUME NEW j \in i..n PROVE p[j] \in (cut + 1)..n
    <3>0. j \in 1..n /\ i <= j
      <4>1. j \in i..n /\ i \in 1..n /\ n \in Nat
        BY <2>1
      <4>2. QED
        BY <4>1
    <3>1. j \in 1..n /\ p[j] \in 1..n /\ i <= j
      BY <3>0
    <3>2. keys[p[i]] <= keys[p[j]]
      BY <1>1, <2>1, <3>1
    <3>3. p[j] <= cut => keys[p[j]] <= keys[cut]
      BY <1>0, <3>1
    <3>4. /\ keys[p[j]] \in Int /\ keys[cut] \in Int /\ keys[cut + 1] \in Int /\ keys[p[i]] \in Int
      BY <2>1, <3>1
    <3>5. ~(keys[p[j]] <= keys[cut])
      <4>1. \A a, b, c, d \in Int : a < b /\ b <= c /\ c <= d => ~(d <= a)
        OBVIOUS
      <4>2. QED
        BY <2>2, <2>3, <3>2, <3>4, <4>1
    <3>6. QED
      BY <3>1, <3>3, <3>5
  <2> DEFINE g == [j \in i..n |-> p[j]]
  <2>5. g \in Injection(i..n, (cut + 1)..n)
    <3>1. g \in [i..n -> (cut + 1)..n]
      BY <2>4
    <3>2. ASSUME NEW x \in i..n, NEW y \in i..n, g[x] = g[y] PROVE x = y
      <4>1. x \in 1..n /\ y \in 1..n /\ p[x] = p[y]
        BY <2>1, <3>2
      <4>2. QED
        BY <4>1
    <3>3. QED
      BY <3>1, <3>2 DEF Injection, IsInjective
  <2> HIDE DEF g
  <2>6. Cardinality(i..n) = n - i + 1
    BY <2>1, FS_Interval
  <2>7. IsFiniteSet((cut + 1)..n) /\ Cardinality((cut + 1)..n) = n - (cut + 1) + 1
    BY <2>1, FS_Interval
  <2>8. Cardinality(i..n) <= Cardinality((cut + 1)..n)
    BY <2>5, <2>7, FS_Injection
  <2>9. QED
    BY <2>1, <2>6, <2>7, <2>8
<1> DEFINE h == [i \in 1..cut |-> p[i]]
<1>3. \A i \in 1..cut : i \in 1..n /\ p[i] \in 1..cut
  BY SMTT(30), <1>2
<1>4. h \in [1..cut -> 1..cut] /\ \A i, j \in 1..cut : h[i] = h[j] => i = j
  BY <1>3
<1>5. \A i \in 1..cut : h[i] = p[i]
  OBVIOUS
<1> HIDE DEF h
<1>6. {h[i] : i \in 1..cut} = 1..cut
  <2>1. cut \in Nat
    OBVIOUS
  <2>2. QED
    BY <1>4, <2>1, EveryRank
<1>7. ASSUME NEW k \in 1..cut PROVE k \in {p[i] : i \in 1..cut}
  <2>1. PICK i \in 1..cut : h[i] = k
    BY <1>6
  <2>2. QED
    BY <1>5, <2>1
<1>8. ASSUME NEW k \in {p[i] : i \in 1..cut} PROVE k \in 1..cut
  BY <1>3
<1>9. QED
  BY <1>7, <1>8 DEF Prefix

\* The ranks of the rows.
RankOf(rows) == [i \in 1..Len(rows) |-> rows[i].rank]

LEMMA RowsType ==
    ASSUME NEW rows \in Seq(Row), Sorted(rows)
    PROVE  /\ Len(rows) \in Nat /\ DOMAIN rows = 1..Len(rows)
           /\ \A i \in 1..Len(rows) :
                rows[i] \in Row /\ rows[i].rank \in Int /\ RankOf(rows)[i] = rows[i].rank
           /\ InOrder(RankOf(rows), Len(rows))
<1>1. Len(rows) \in Nat /\ DOMAIN rows = 1..Len(rows) /\ \A i \in 1..Len(rows) : rows[i] \in Row
  OBVIOUS
<1>2. \A i \in 1..Len(rows) : rows[i].rank \in Int /\ RankOf(rows)[i] = rows[i].rank
  BY <1>1 DEF Row, RankOf
<1>3. RankOf(rows) \in [1..Len(rows) -> Int]
  BY <1>2 DEF RankOf
<1>4. \A i, j \in 1..Len(rows) : i < j => RankOf(rows)[i] <= RankOf(rows)[j]
  BY <1>1, <1>2 DEF Sorted
<1>5. QED
  BY <1>1, <1>2, <1>3, <1>4 DEF InOrder

\* A cut that leaves an engine no choice.
WholeCut(q, rows, c) ==
    \/ c = 0
    \/ c = Len(rows)
    \/ c \in 1..(Len(rows) - 1) /\ q.ordered /\ rows[c].rank # rows[c + 1].rank

LEMMA PrefixFixed ==
    ASSUME NEW q, NEW rows \in Seq(Row), Sorted(rows), NEW p \in Arrangements(q, rows),
           NEW c \in 0..Len(rows), WholeCut(q, rows, c)
    PROVE  {p[i] : i \in 1..c} = 1..c
<1>1. /\ Len(rows) \in Nat /\ DOMAIN rows = 1..Len(rows) /\ InOrder(RankOf(rows), Len(rows))
      /\ \A i \in 1..Len(rows) : rows[i].rank \in Int /\ RankOf(rows)[i] = rows[i].rank
  BY RowsType
<1>2. p \in [1..Len(rows) -> 1..Len(rows)] /\ \A i, j \in 1..Len(rows) : p[i] = p[j] => i = j
  BY <1>1 DEF Arrangements
<1>3. CASE c = 0
  BY <1>3
<1>4. CASE c = Len(rows)
  BY <1>1, <1>2, <1>4, EveryRank
<1>5. CASE c \in 1..(Len(rows) - 1) /\ q.ordered /\ rows[c].rank # rows[c + 1].rank
  <2>1. \A i, j \in 1..Len(rows) : i < j => rows[p[i]].rank <= rows[p[j]].rank
    BY <1>1, <1>5 DEF Arrangements
  <2>2. \A i \in 1..Len(rows) : p[i] \in 1..Len(rows)
    BY <1>2
  <2>3. \A i, j \in 1..Len(rows) : i < j => RankOf(rows)[p[i]] <= RankOf(rows)[p[j]]
    BY <1>1, <2>1, <2>2
  <2>4. Follows(p, RankOf(rows), Len(rows))
    BY <1>2, <2>3 DEF Follows
  <2>5. c \in 1..Len(rows) /\ c + 1 \in 1..Len(rows)
    BY <1>1, <1>5
  <2>6. RankOf(rows)[c] # RankOf(rows)[c + 1]
    BY <1>1, <1>5, <2>5
  <2>7. \A cut \in 1..Len(rows) :
            (cut < Len(rows) => RankOf(rows)[cut] # RankOf(rows)[cut + 1]) => Prefix(p, cut) = 1..cut
    BY <1>1, <2>4, CleanCut
  <2>8. QED
    BY <2>5, <2>6, <2>7 DEF Prefix
<1>6. QED
  BY <1>3, <1>4, <1>5 DEF WholeCut

\* Between two such cuts an engine selects the same rows in any arrangement.
LEMMA WindowFixed ==
    ASSUME NEW q, NEW rows \in Seq(Row), Sorted(rows), NEW p \in Arrangements(q, rows),
           NEW lo \in 0..Len(rows), NEW hi \in 0..Len(rows), lo <= hi,
           WholeCut(q, rows, lo), WholeCut(q, rows, hi)
    PROVE  {p[i] : i \in (lo + 1)..hi} = (lo + 1)..hi
<1>1. Len(rows) \in Nat /\ DOMAIN rows = 1..Len(rows) /\ lo \in Nat /\ hi \in Nat
  OBVIOUS
<1>2. p \in [1..Len(rows) -> 1..Len(rows)] /\ \A i, j \in 1..Len(rows) : p[i] = p[j] => i = j
  BY <1>1 DEF Arrangements
<1>3. {p[i] : i \in 1..lo} = 1..lo /\ {p[i] : i \in 1..hi} = 1..hi
  BY PrefixFixed
<1>4. ASSUME NEW i \in (lo + 1)..hi PROVE p[i] \in (lo + 1)..hi
  <2>1. i \in 1..hi /\ i \in 1..Len(rows) /\ i \notin 1..lo
    BY <1>1
  <2>2. p[i] \in 1..hi
    BY <1>3, <2>1
  <2>3. p[i] \notin 1..lo
    <3>1. SUFFICES ASSUME p[i] \in 1..lo PROVE FALSE
      OBVIOUS
    <3>2. PICK j \in 1..lo : p[j] = p[i]
      BY <1>3, <3>1
    <3>3. j \in 1..Len(rows)
      BY <1>1
    <3>4. QED
      BY <1>2, <2>1, <3>2, <3>3
  <2>4. QED
    BY <1>1, <2>2, <2>3
<1>5. ASSUME NEW k \in (lo + 1)..hi PROVE k \in {p[i] : i \in (lo + 1)..hi}
  <2>1. k \in 1..hi /\ k \notin 1..lo
    BY <1>1
  <2>2. PICK j \in 1..hi : p[j] = k
    BY <1>3, <2>1
  <2>3. j \notin 1..lo
    BY <1>3, <2>1, <2>2
  <2>4. j \in (lo + 1)..hi
    BY <1>1, <2>2, <2>3
  <2>5. QED
    BY <2>2, <2>4
<1>6. QED
  BY <1>4, <1>5

\* How many rows come back from a query that is no aggregate.
Behind(q, n) == IF q.offset < n THEN n - q.offset ELSE 0

LEMMA CountIs ==
    ASSUME NEW q, q.offset \in Nat, ~q.aggregate, NEW limit \in Nat \union {None}, NEW n \in Nat
    PROVE  /\ Behind(q, n) \in Nat
           /\ RowCount(q, limit, n) = IF limit = None THEN Behind(q, n) ELSE Least(limit, Behind(q, n))
           /\ RowCount(q, limit, n) \in 0..Behind(q, n)
<1>1. Behind(q, n) \in Nat
  BY DEF Behind
<1>2. RowCount(q, limit, n) = IF limit = None THEN Behind(q, n) ELSE Least(limit, Behind(q, n))
  BY DEF RowCount, Behind
<1> HIDE DEF Behind
<1>3. RowCount(q, limit, n) \in 0..Behind(q, n)
  BY <1>1, <1>2 DEF Least
<1>4. QED
  BY <1>1, <1>2, <1>3

\* Whole cuts on both sides determine the result.
LEMMA WholeDetermined ==
    ASSUME NEW q, q.offset \in Nat, ~q.random, NEW limit \in Nat \union {None},
           NEW rows \in Seq(Row), Sorted(rows),
           ~q.aggregate /\ q.offset < Len(rows) =>
               /\ WholeCut(q, rows, q.offset)
               /\ WholeCut(q, rows, q.offset + RowCount(q, limit, Len(rows)))
    PROVE  Determined(q, limit, rows)
<1> DEFINE n == Len(rows)
           lo == q.offset
           hi == q.offset + RowCount(q, limit, n)
<1>1. SUFFICES ASSUME ~q.aggregate
               PROVE  \A a, b \in Selections(q, limit, rows) : a = b
  BY DEF Determined
<1>2. n \in Nat
  OBVIOUS
<1>3. Behind(q, n) \in Nat /\ RowCount(q, limit, n) \in 0..Behind(q, n)
  BY <1>1, <1>2, CountIs
<1>4. ASSUME NEW p \in Arrangements(q, rows) PROVE {p[i] : i \in (lo + 1)..hi} = (lo + 1)..hi
  <2>1. CASE q.offset < n
    <3>1. lo \in 0..n /\ hi \in 0..n /\ lo <= hi
      BY <1>2, <1>3, <2>1 DEF Behind
    <3>2. WholeCut(q, rows, lo) /\ WholeCut(q, rows, hi)
      BY <1>1, <2>1
    <3> HIDE DEF lo, hi, n
    <3>3. QED
      BY <3>1, <3>2, WindowFixed DEF n
  <2>2. CASE ~(q.offset < n)
    <3>1. RowCount(q, limit, n) = 0
      BY <1>3, <2>2 DEF Behind
    <3>2. (lo + 1)..hi = {}
      BY <3>1
    <3> HIDE DEF lo, hi
    <3>3. QED
      BY <3>2
  <2>3. QED
    BY <2>1, <2>2
<1>5. Selections(q, limit, rows) = {{p[i] : i \in (lo + 1)..hi} : p \in Arrangements(q, rows)}
  BY DEF Selections
<1> HIDE DEF lo, hi
<1>6. QED
  BY <1>4, <1>5

\* A cut that divides equals can be made in two ways.
LEMMA TieSeveral ==
    ASSUME NEW q, q.offset \in Nat, ~q.aggregate, NEW limit \in Nat, limit >= 1,
           NEW rows \in Seq(Row), Sorted(rows), q.offset + limit < Len(rows),
           rows[q.offset + limit].rank = rows[q.offset + limit + 1].rank
    PROVE  SeveralAnswers(q, limit, rows)
<1> DEFINE n == Len(rows)
           cut == q.offset + limit
           plain == [i \in 1..n |-> i]
           swapped == [i \in 1..n |-> IF i = cut THEN cut + 1 ELSE IF i = cut + 1 THEN cut ELSE i]
<1>1. /\ n \in Nat /\ DOMAIN rows = 1..n /\ cut \in 1..n /\ cut + 1 \in 1..n
      /\ \A i \in 1..n : rows[i].rank \in Int
      /\ \A i, j \in 1..n : i < j => rows[i].rank <= rows[j].rank
      /\ rows[cut].rank = rows[cut + 1].rank
  <2>1. n \in Nat /\ DOMAIN rows = 1..n /\ \A i \in 1..n : rows[i].rank \in Int
    BY RowsType
  <2>2. cut \in 1..n /\ cut + 1 \in 1..n
    BY <2>1
  <2>3. \A i, j \in 1..n : i < j => rows[i].rank <= rows[j].rank
    BY <2>1 DEF Sorted
  <2>4. QED
    BY <2>1, <2>2, <2>3
<1>2. RowCount(q, limit, n) = limit
  <2>1. Behind(q, n) = n - q.offset /\ limit <= n - q.offset
    BY <1>1 DEF Behind
  <2>2. limit # None
    BY CanonAssumption DEF CanonAssumption
  <2>3. RowCount(q, limit, n) = Least(limit, Behind(q, n))
    BY <1>1, <2>2, CountIs
  <2>4. QED
    BY <2>1, <2>3 DEF Least
<1>3. ASSUME NEW p \in Arrangements(q, rows)
      PROVE  {p[i] : i \in (q.offset + 1)..cut} \in Selections(q, limit, rows)
  <2> DEFINE last == q.offset + RowCount(q, limit, Len(rows))
  <2>1. last = cut
    BY <1>2
  <2>2. {p[i] : i \in (q.offset + 1)..last} \in Selections(q, limit, rows)
    BY Zenon DEF Selections
  <2> HIDE DEF last, cut
  <2>3. QED
    BY <2>1, <2>2
<1>4. cut \in Int /\ cut \in (q.offset + 1)..cut /\ \A i \in (q.offset + 1)..cut : i \in 1..n /\ i # cut + 1
  <2>1. q.offset \in Nat /\ limit \in Nat /\ limit >= 1 /\ n \in Nat /\ cut <= n
    BY <1>1
  <2> HIDE DEF n
  <2>2. QED
    BY <2>1
<1> HIDE DEF n, cut
<1>5. plain \in Arrangements(q, rows)
  <2>1. plain \in [1..n -> 1..n] /\ \A i \in 1..n : plain[i] = i
    OBVIOUS
  <2> HIDE DEF plain
  <2>2. \A i, j \in 1..n : i < j => rows[plain[i]].rank <= rows[plain[j]].rank
    BY <1>1, <2>1
  <2>3. QED
    BY <1>1, <2>1, <2>2 DEF Arrangements
<1>6. swapped \in Arrangements(q, rows)
  <2>1. swapped \in [1..n -> 1..n] /\ \A i, j \in 1..n : swapped[i] = swapped[j] => i = j
    BY <1>1
  <2>2. \A i \in 1..n : rows[swapped[i]].rank = rows[i].rank
    BY <1>1
  <2> HIDE DEF swapped
  <2>3. \A i, j \in 1..n : i < j => rows[swapped[i]].rank <= rows[swapped[j]].rank
    BY <1>1, <2>2
  <2>4. QED
    BY <1>1, <2>1, <2>3 DEF Arrangements
<1>7. cut \in {plain[i] : i \in (q.offset + 1)..cut}
  BY <1>1, <1>4
<1>8. cut \notin {swapped[i] : i \in (q.offset + 1)..cut}
  <2>1. \A i \in (q.offset + 1)..cut : swapped[i] # cut
    BY <1>1, <1>4
  <2>2. QED
    BY <2>1
<1> DEFINE first == {plain[i] : i \in (q.offset + 1)..cut}
           second == {swapped[i] : i \in (q.offset + 1)..cut}
<1> HIDE DEF plain, swapped
<1>9. first \in Selections(q, limit, rows) /\ second \in Selections(q, limit, rows)
  BY <1>3, <1>5, <1>6
<1>10. first # second
  BY <1>7, <1>8
<1> HIDE DEF first, second
<1>11. QED
  BY <1>9, <1>10 DEF SeveralAnswers

\* What the probe sees is a verdict, and one that its rows give.
LEMMA TieType ==
    ASSUME NEW rows, NEW cut, NEW tie \in TieAt(rows, cut)
    PROVE  tie \in BOOLEAN /\ tie # None
<1>1. TieAt(rows, cut) \subseteq BOOLEAN
  BY DEF TieAt, Verdicts
<1>2. QED
  BY <1>1, CanonAssumption DEF CanonAssumption

LEMMA TieMeans ==
    ASSUME NEW rows \in Seq(Row), Sorted(rows), NEW cut \in 1..Len(rows), NEW tie \in TieAt(rows, cut)
    PROVE  /\ ~tie /\ TiesShow(rows) /\ cut < Len(rows) => rows[cut].rank # rows[cut + 1].rank
           /\ tie /\ TiesTrue(rows) => cut < Len(rows) /\ rows[cut].rank = rows[cut + 1].rank
<1>1. CASE cut < Len(rows)
  <2>1. tie \in Verdicts(rows, cut)
    BY <1>1 DEF TieAt
  <2>2. PICK i, j \in DOMAIN rows :
            /\ rows[i].rank = rows[cut].rank /\ rows[j].rank = rows[cut + 1].rank
            /\ tie = (rows[i].canon = rows[j].canon)
    BY <2>1 DEF Verdicts
  <2>3. ~tie /\ TiesShow(rows) => rows[cut].rank # rows[cut + 1].rank
    BY <2>2 DEF TiesShow
  <2>4. tie /\ TiesTrue(rows) => rows[cut].rank = rows[cut + 1].rank
    BY <2>2 DEF TiesTrue
  <2>5. QED
    BY <1>1, <2>3, <2>4
<1>2. CASE ~(cut < Len(rows))
  BY <1>2 DEF TieAt
<1>3. QED
  BY <1>1, <1>2

------------------------------------------------------------------------------
(* The steps. *)

USE ExecutionAssumption DEF ExecutionAssumption

ThreadStep(k) == Connect(k) \/ Refused(k) \/ Execute(k) \/ Finish(k) \/ Fail(k)

\* A record that says whether the thread has an answer.
Answering(t) ==
    t.saw = None => t.state \in {"connect", "ready"} \/ (t.state = "ended" /\ t.failed)

LEMMA KindsOfStep ==
    ASSUME [Next]_execVars
    PROVE  \/ \E s \in Statements : TakeUnreachable(s) \/ TakeRefused(s)
           \/ \E s \in Statements : TakeExecuted(s)
           \/ Raised \/ MutationDone \/ QueryDone \/ StartProbe \/ ProbeDone \/ ProbeRaised
           \/ Timeout \/ Interrupt \/ GiveUp \/ GiveUpProbe
           \/ \E k \in DOMAIN threads : ThreadStep(k)
           \/ UNCHANGED execVars
  BY DEF Next, Analyzer, ThreadStep

\* A step of a thread changes its own record and nothing of the analyzer's.
LEMMA ThreadStepMoves ==
    ASSUME TypeOK, NEW k \in DOMAIN threads, ThreadStep(k)
    PROVE  /\ \E t \in ThreadType :
                /\ threads' = [threads EXCEPT ![k] = t]
                /\ t.stmt = threads[k].stmt /\ t.purpose = threads[k].purpose
                /\ t.interrupted = threads[k].interrupted
                /\ Answering(t)
           /\ threads[k].state # "ended"
           /\ data' \in Versions
           /\ UNCHANGED <<policy, pc, stmt, read, report, taken>>
<1> DEFINE Moved(t) ==
        /\ t.stmt = threads[k].stmt /\ t.purpose = threads[k].purpose
        /\ t.interrupted = threads[k].interrupted
        /\ Answering(t)
<1>1. threads[k] \in ThreadType /\ Answering(threads[k]) /\ data \in Versions
  BY DEF TypeOK, Answering
<1>2. CASE Connect(k)
  <2> DEFINE t == [threads[k] EXCEPT !.state = "ready"]
  <2>1. t \in ThreadType /\ Moved(t)
    BY <1>1, <1>2 DEF ThreadType, Answering
  <2>2. QED
    BY <2>1, <1>1, <1>2 DEF Connect, Moves, Becomes
<1>3. CASE Execute(k)
  <2> DEFINE t == [threads[k] EXCEPT !.state = "exec", !.saw = data]
  <2>1. t \in ThreadType /\ Moved(t)
    BY <1>1, <1>3 DEF ThreadType, Answering
  <2>2. QED
    BY <2>1, <1>1, <1>3 DEF Execute, Moves, Becomes
<1>4. CASE Refused(k) \/ Fail(k)
  <2>1. Ended(k, TRUE) \in ThreadType /\ Moved(Ended(k, TRUE))
    BY <1>1 DEF ThreadType, Answering, Ended
  <2>2. QED
    BY <2>1, <1>1, <1>4 DEF Refused, Fail, Moves, Becomes
<1>5. CASE Finish(k)
  <2> DEFINE t == Ended(k, threads[k].stmt.kind = "other")
  <2>1. threads[k].saw # None
    BY <1>1, <1>5 DEF Finish, Moves, Answering
  <2>2. t \in ThreadType
    <3>1. (threads[k].stmt.kind = "other") \in BOOLEAN
      OBVIOUS
    <3>2. QED
      BY <1>1, <3>1 DEF ThreadType, Ended
  <2>3. Moved(t)
    BY <1>1, <2>1 DEF ThreadType, Answering, Ended
  <2>4. data' \in Versions
    BY <1>1, <1>5 DEF Finish, Versions
  <2>5. QED
    BY <2>2, <2>3, <2>4, <1>5 DEF Finish, Moves, Becomes
<1>6. QED
  BY <1>2, <1>3, <1>4, <1>5 DEF ThreadStep

\* The last thread, the one the analyzer waits for.
LEMMA NowType ==
    ASSUME TypeOK, threads # <<>>
    PROVE  Len(threads) \in DOMAIN threads /\ Now \in ThreadType /\ Answering(Now)
<1>1. threads \in Seq(ThreadType) /\ Len(threads) \in Nat /\ Len(threads) # 0
  BY DEF TypeOK
<1>2. Len(threads) \in 1..Len(threads) /\ DOMAIN threads = 1..Len(threads)
  BY <1>1
<1>3. \A k \in DOMAIN threads : threads[k] \in ThreadType
  BY <1>1
<1>4. \A k \in DOMAIN threads : Answering(threads[k])
  BY Zenon DEF TypeOK, Answering
<1>5. QED
  BY Zenon, <1>2, <1>3, <1>4 DEF Now

LEMMA LabelType ==
    ASSUME NEW q, NEW v, NEW tie
    PROVE  Label(q, v, tie) \in Labels
  BY DEF Label, Classify, Labels

LEMMA RefusalType ==
    ASSUME NEW s \in Statements, Refusal(s) # None
    PROVE  Refusal(s) \in Refusals
  BY DEF Refusal, Refusals

\* A new thread at the end of the list.
LEMMA StartAppends ==
    ASSUME TypeOK, NEW purpose \in {"query", "probe"}, NEW s \in Statements, Start(purpose, s)
    PROVE  /\ threads' \in Seq(ThreadType)
           /\ Len(threads') = Len(threads) + 1
           /\ DOMAIN threads' = DOMAIN threads \union {Len(threads')}
           /\ Len(threads') \in Nat /\ Len(threads') \notin DOMAIN threads
           /\ \A k \in DOMAIN threads : threads'[k] = threads[k]
           /\ threads'[Len(threads')] = Thread(purpose, s)
           /\ threads'[Len(threads')].state = "connect" /\ threads'[Len(threads')].stmt = s
           /\ pc' = "join" /\ report' = report
<1>1. Thread(purpose, s) \in ThreadType
  BY DEF Thread, ThreadType
<1>2. threads \in Seq(ThreadType) /\ threads' = Append(threads, Thread(purpose, s))
  BY DEF TypeOK, Start
<1>3. /\ threads' \in Seq(ThreadType)
      /\ Len(threads') = Len(threads) + 1
      /\ \A k \in 1..Len(threads) : threads'[k] = threads[k]
      /\ threads'[Len(threads) + 1] = Thread(purpose, s)
  BY <1>1, <1>2, AppendProperties
<1>4. DOMAIN threads = 1..Len(threads) /\ Len(threads) \in Nat /\ DOMAIN threads' = 1..Len(threads')
  BY <1>2, <1>3
<1>5. DOMAIN threads' = DOMAIN threads \union {Len(threads')} /\ Len(threads') \notin DOMAIN threads
  BY <1>3, <1>4
<1>6. QED
  BY <1>3, <1>4, <1>5 DEF Start, Thread

\* Replacing the record of a thread.
LEMMA BecomesType ==
    ASSUME TypeOK, NEW k \in DOMAIN threads, NEW t \in ThreadType,
           threads' = [threads EXCEPT ![k] = t]
    PROVE  /\ threads' \in Seq(ThreadType)
           /\ Len(threads') = Len(threads)
           /\ DOMAIN threads' = DOMAIN threads
           /\ \A j \in DOMAIN threads : threads'[j] = IF j = k THEN t ELSE threads[j]
<1>1. threads \in Seq(ThreadType) /\ DOMAIN threads = 1..Len(threads) /\ Len(threads) \in Nat
  BY DEF TypeOK
<1>2. k \in 1..Len(threads)
  BY <1>1
<1>3. /\ [threads EXCEPT ![k] = t] \in Seq(ThreadType)
      /\ Len([threads EXCEPT ![k] = t]) = Len(threads)
      /\ \A j \in 1..Len(threads) : [threads EXCEPT ![k] = t][j] = IF j = k THEN t ELSE threads[j]
  BY <1>1, <1>2, ExceptSeq
<1>4. QED
  BY <1>1, <1>3

\* What TypeOK says of the threads and of the analyzer.
ThreadsOK == threads \in Seq(ThreadType) /\ \A k \in DOMAIN threads : Answering(threads[k])
AnalyzerOK ==
    /\ policy \in Policies
    /\ data \in Versions
    /\ pc \in {"idle", "join", "overdue", "grace"}
    /\ stmt \in Statements \union {None}
    /\ read \in Versions \union {None}
    /\ report \in ReportType \union {None}
    /\ taken \in 0..MaxItems
WaitOK ==
    pc # "idle" =>
        /\ threads # <<>> /\ Now.stmt = stmt /\ stmt \in Statements
        /\ Probing => Len(threads) > 1 /\ stmt.kind = "select" /\ read # None

LEMMA TypeParts == TypeOK <=> ThreadsOK /\ AnalyzerOK /\ WaitOK /\ writer \in 0..Len(threads)
  BY DEF TypeOK, ThreadsOK, AnalyzerOK, WaitOK, Answering

LEMMA TakeType ==
    ASSUME TypeOK, NEW s \in Statements, Take(s)
    PROVE  /\ taken' \in 0..MaxItems /\ stmt' = s /\ read' = None
           /\ UNCHANGED <<policy, data, writer>>
  BY DEF TypeOK, Take

\* An item ends with an event: the threads are left as they are.
LEMMA ReportKeepsTypes ==
    ASSUME TypeOK, pc' = "idle", report' \in ReportType, UNCHANGED <<policy, data, writer, threads>>,
           stmt' \in Statements, read' \in Versions \union {None}, taken' \in 0..MaxItems
    PROVE  TypeOK'
<1>1. ThreadsOK' /\ AnalyzerOK' /\ (writer \in 0..Len(threads))'
  BY TypeParts DEF ThreadsOK, AnalyzerOK
<1>2. WaitOK'
  BY DEF WaitOK
<1>3. QED
  BY <1>1, <1>2 DEF TypeOK, ThreadsOK, AnalyzerOK, WaitOK, Answering

\* The same for an event about the item the analyzer waits for.
LEMMA ConcludeKeepsTypes ==
    ASSUME TypeOK, pc # "idle", NEW seen \in Versions \union {None}, Concludes(seen),
           NEW status \in {"ok", "failed"}, NEW error \in {None, "execution", "timeout"},
           NEW label \in Labels \union {None},
           NEW probe \in Versions \union {"none", "failed", "timeout"}, NEW call \in Nat,
           Report(status, error, label, probe, call)
    PROVE  TypeOK'
<1>1. stmt' \in Statements /\ read' \in Versions \union {None} /\ taken' \in 0..MaxItems
  BY DEF Concludes, TypeOK
<1>2. report' \in ReportType /\ pc' = "idle"
  BY <1>1 DEF Report, ReportType
<1>3. QED
  BY <1>1, <1>2, ReportKeepsTypes DEF Concludes

LEMMA QueryCallType ==
    ASSUME TypeOK, pc # "idle"
    PROVE  /\ QueryCall \in Nat /\ QueryCall \in DOMAIN threads
           /\ threads # <<>> /\ Len(threads) \in Nat /\ Len(threads) > 0
<1>1. threads \in Seq(ThreadType) /\ threads # <<>> /\ (Probing => Len(threads) > 1)
  BY DEF TypeOK
<1>2. Len(threads) \in Nat /\ Len(threads) # 0 /\ DOMAIN threads = 1..Len(threads)
  BY <1>1
<1>3. QED
  BY <1>1, <1>2 DEF QueryCall

\* Type correctness: what the analyzer keeps, and the record of every thread it
\* has started, those left behind included.
(* Every variable keeps to its type, a thread without an answer has not    *)
(* read, and a probe runs only after its query's answer.                   *)
THEOREM ExecutionTypeCorrect == Spec => []TypeOK
<1>1. Init => TypeOK
  <2> SUFFICES ASSUME Init PROVE TypeOK
    OBVIOUS
  <2>1. threads = <<>> /\ threads \in Seq(ThreadType) /\ Len(threads) = 0 /\ DOMAIN threads = {}
    BY DEF Init
  <2>2. ThreadsOK /\ AnalyzerOK /\ WaitOK /\ writer \in 0..Len(threads)
    BY <2>1 DEF Init, ThreadsOK, AnalyzerOK, WaitOK, Versions
  <2>3. QED
    BY <2>2, TypeParts
<1>2. TypeOK /\ [Next]_execVars => TypeOK'
  <2> SUFFICES ASSUME TypeOK, [Next]_execVars PROVE TypeOK'
    OBVIOUS
  <2>1. ASSUME NEW s \in Statements, TakeUnreachable(s) \/ TakeRefused(s) PROVE TypeOK'
    <3>1. Take(s) /\ UNCHANGED threads
      BY <2>1 DEF TakeUnreachable, TakeRefused
    <3>2. PICK e \in Refusals \union {"db_unreachable"} :
              Failure(e)
      BY <2>1, RefusalType DEF TakeUnreachable, TakeRefused
    <3>3. taken' \in 0..MaxItems /\ stmt' = s /\ read' = None /\ UNCHANGED <<policy, data, writer>>
      BY <3>1, TakeType
    <3>4. report' \in ReportType /\ pc' = "idle"
      BY <3>2, <3>3 DEF Failure, Report, ReportType
    <3>5. QED
      BY <3>1, <3>3, <3>4, ReportKeepsTypes
  <2>2. ASSUME NEW s \in Statements, TakeExecuted(s) PROVE TypeOK'
    <3>1. taken' \in 0..MaxItems /\ stmt' = s /\ read' = None /\ UNCHANGED <<policy, data, writer>>
      BY <2>2, TakeType DEF TakeExecuted
    <3>2. /\ threads' \in Seq(ThreadType) /\ Len(threads') = Len(threads) + 1
          /\ DOMAIN threads' = DOMAIN threads \union {Len(threads')}
          /\ \A k \in DOMAIN threads : threads'[k] = threads[k]
          /\ threads'[Len(threads')] = Thread("query", s)
          /\ pc' = "join" /\ report' = report
      BY <2>2, StartAppends DEF TakeExecuted
    <3>3. ThreadsOK'
      BY <3>2, TypeParts DEF ThreadsOK, Answering, Thread
    <3>4. AnalyzerOK'
      BY <3>1, <3>2, TypeParts DEF AnalyzerOK
    <3>5. WaitOK'
      BY <3>1, <3>2, TypeParts DEF WaitOK, Now, Probing, Thread, ThreadsOK
    <3>6. (writer \in 0..Len(threads))'
      BY <3>1, <3>2, TypeParts DEF ThreadsOK
    <3>7. QED
      BY <3>3, <3>4, <3>5, <3>6 DEF TypeOK, ThreadsOK, AnalyzerOK, WaitOK, Answering
  <2>3. CASE Raised \/ GiveUp
    <3>1. pc # "idle" /\ Concludes(read)
      BY <2>3 DEF Raised, Joined, GiveUp, GraceOver
    <3>2. read \in Versions \union {None} /\ 0 \in Nat
      BY DEF TypeOK
    <3>3. Report("failed", "execution", None, "none", 0) \/ Report("failed", "timeout", None, "none", 0)
      BY <2>3 DEF Raised, GiveUp, Failure
    <3>4. QED
      BY <3>1, <3>2, <3>3, ConcludeKeepsTypes
  <2>4. CASE MutationDone
    <3>1. pc # "idle" /\ read \in Versions \union {None}
      BY <2>4 DEF MutationDone, Joined, TypeOK
    <3>2. QED
      BY <2>4, <3>1, QueryCallType, ConcludeKeepsTypes DEF MutationDone
  <2>5. CASE QueryDone
    <3>1. pc # "idle" /\ Joined(FALSE)
      BY <2>5 DEF QueryDone, Joined
    <3>2. Now.saw \in Versions
      BY <3>1, NowType, QueryCallType DEF Joined, Answering, ThreadType
    <3>3. QED
      BY <2>5, <3>1, <3>2, QueryCallType, LabelType, ConcludeKeepsTypes DEF QueryDone
  <2>6. CASE StartProbe
    <3>1. pc # "idle" /\ Joined(FALSE) /\ UNCHANGED <<policy, data, writer, stmt, taken>>
      BY <2>6 DEF StartProbe, Joined
    <3>2. Now.saw \in Versions /\ read' = Now.saw
      BY <2>6, <3>1, NowType, QueryCallType DEF Joined, Answering, ThreadType, StartProbe
    <3>3. stmt \in Statements /\ stmt.kind = "select" /\ Len(threads) \in Nat /\ Len(threads) > 0
      BY <2>6, <3>1, QueryCallType DEF StartProbe, TypeOK
    <3>4. /\ threads' \in Seq(ThreadType) /\ Len(threads') = Len(threads) + 1
          /\ DOMAIN threads' = DOMAIN threads \union {Len(threads')}
          /\ \A k \in DOMAIN threads : threads'[k] = threads[k]
          /\ threads'[Len(threads')] = Thread("probe", stmt)
          /\ pc' = "join" /\ report' = report
      BY <2>6, <3>3, StartAppends DEF StartProbe
    <3>5. ThreadsOK'
      BY <3>4, TypeParts DEF ThreadsOK, Answering, Thread
    <3>6. AnalyzerOK'
      BY <3>1, <3>2, <3>4, TypeParts DEF AnalyzerOK
    <3>7. WaitOK'
      <4>1. Now' = Thread("probe", stmt) /\ Len(threads') > 1 /\ threads' # <<>>
        BY <3>3, <3>4 DEF Now
      <4>2. stmt' = stmt /\ read' # None
        BY <3>1, <3>2
      <4>3. QED
        BY <3>3, <4>1, <4>2 DEF WaitOK, Thread
    <3>8. (writer \in 0..Len(threads))'
      BY <3>1, <3>3, <3>4, TypeParts
    <3>9. QED
      BY <3>5, <3>6, <3>7, <3>8 DEF TypeOK, ThreadsOK, AnalyzerOK, WaitOK, Answering
  <2>7. CASE ProbeDone \/ ProbeRaised \/ GiveUpProbe
    <3>1. pc # "idle" /\ Concludes(read)
      BY <2>7 DEF ProbeDone, ProbeRaised, GiveUpProbe, Joined, GraceOver, ProbeEnds
    <3>2. ProbeDone => Now.saw \in Versions
      BY <3>1, NowType, QueryCallType DEF ProbeDone, Joined, Answering, ThreadType
    <3>3. PICK probe \in Versions \union {"failed", "timeout"}, tie \in {TRUE, FALSE, None} :
              Report("ok", None, Label(stmt.query, read, tie), probe, QueryCall)
      <4>1. CASE ProbeDone
        <5>1. PICK tie \in TieSeen(stmt.query, Now.saw) : ProbeEnds(Now.saw, tie)
          BY <4>1 DEF ProbeDone
        <5>2. tie \in BOOLEAN
          BY TieType DEF TieSeen
        <5>3. QED
          BY <3>2, <4>1, <5>1, <5>2 DEF ProbeEnds
      <4>2. CASE ProbeRaised \/ GiveUpProbe
        BY <4>2 DEF ProbeRaised, GiveUpProbe, ProbeEnds
      <4>3. QED
        BY <2>7, <4>1, <4>2
    <3>4. read \in Versions \union {None} /\ Label(stmt.query, read, tie) \in Labels \union {None}
      BY LabelType DEF TypeOK
    <3>5. QED
      BY <3>1, <3>3, <3>4, QueryCallType, ConcludeKeepsTypes
  <2>8. CASE Timeout
    <3>1. pc = "join" /\ pc' = "overdue"
          /\ UNCHANGED <<policy, data, writer, threads, stmt, read, report, taken>>
      BY <2>8 DEF Timeout
    <3>2. QED
      BY <3>1 DEF TypeOK, Now, Probing
  <2>9. CASE Interrupt
    <3> DEFINE t == [Now EXCEPT !.interrupted = Now.state = "exec"]
    <3>1. pc = "overdue" /\ pc' = "grace" /\ threads' = [threads EXCEPT ![Len(threads)] = t]
          /\ UNCHANGED <<policy, data, writer, stmt, read, report, taken>>
      BY <2>9 DEF Interrupt
    <3>2. Len(threads) \in DOMAIN threads /\ Now \in ThreadType /\ Answering(Now)
      BY <3>1, NowType, QueryCallType
    <3>3. t \in ThreadType /\ Answering(t) /\ t.stmt = Now.stmt /\ t.purpose = Now.purpose
      BY <3>2 DEF ThreadType, Answering
    <3> HIDE DEF t
    <3>4. /\ threads' \in Seq(ThreadType) /\ Len(threads') = Len(threads)
          /\ DOMAIN threads' = DOMAIN threads
          /\ \A j \in DOMAIN threads : threads'[j] = IF j = Len(threads) THEN t ELSE threads[j]
      BY <3>1, <3>2, <3>3, BecomesType
    <3>5. ThreadsOK' /\ AnalyzerOK' /\ (writer \in 0..Len(threads))'
      BY <3>1, <3>3, <3>4, TypeParts DEF ThreadsOK, AnalyzerOK
    <3>6. WaitOK'
      <4>1. Now' = t /\ threads' # <<>>
        BY <3>2, <3>4, <3>1, QueryCallType DEF Now
      <4>2. QED
        BY <3>1, <3>3, <3>4, <4>1, TypeParts DEF WaitOK, Probing
    <3>7. QED
      BY <3>5, <3>6 DEF TypeOK, ThreadsOK, AnalyzerOK, WaitOK, Answering
  <2>10. ASSUME NEW k \in DOMAIN threads, ThreadStep(k) PROVE TypeOK'
    <3>1. PICK t \in ThreadType :
                /\ threads' = [threads EXCEPT ![k] = t]
                /\ t.stmt = threads[k].stmt /\ t.purpose = threads[k].purpose
                /\ Answering(t)
      BY <2>10, ThreadStepMoves
    <3>2. data' \in Versions /\ UNCHANGED <<policy, pc, stmt, read, report, taken>>
      BY <2>10, ThreadStepMoves
    <3>3. /\ threads' \in Seq(ThreadType) /\ Len(threads') = Len(threads)
          /\ DOMAIN threads' = DOMAIN threads
          /\ \A j \in DOMAIN threads : threads'[j] = IF j = k THEN t ELSE threads[j]
      BY <3>1, BecomesType
    <3>4. ThreadsOK' /\ AnalyzerOK'
      BY <3>1, <3>2, <3>3, TypeParts DEF ThreadsOK, AnalyzerOK
    <3>5. WaitOK'
      <4>1. ASSUME pc # "idle" PROVE Now'.stmt = Now.stmt /\ Now'.purpose = Now.purpose /\ threads' # <<>>
        BY <4>1, <3>1, <3>3, NowType, QueryCallType DEF Now
      <4>2. QED
        BY <3>2, <3>3, <4>1, TypeParts DEF WaitOK, Probing
    <3>6. (writer \in 0..Len(threads))'
      <4>1. writer' \in {writer, 0, k}
        BY <2>10 DEF ThreadStep, Connect, Refused, Execute, Finish, Fail, Released
      <4>2. k \in 1..Len(threads) /\ writer \in 0..Len(threads) /\ Len(threads) \in Nat
        BY TypeParts DEF ThreadsOK
      <4>3. QED
        BY <3>3, <4>1, <4>2
    <3>7. QED
      BY <3>4, <3>5, <3>6 DEF TypeOK, ThreadsOK, AnalyzerOK, WaitOK, Answering
  <2>11. CASE UNCHANGED execVars
    BY <2>11 DEF execVars, TypeOK, Now, Probing
  <2>12. QED
    BY <2>1, <2>2, <2>3, <2>4, <2>5, <2>6, <2>7, <2>8, <2>9, <2>10, <2>11, KindsOfStep
<1>3. QED
  BY <1>1, <1>2, PTL DEF Spec

------------------------------------------------------------------------------
(* The write lock. *)

\* The lock belongs to the one thread that is inside a writing statement, and
\* the data change only by a statement sqlite3 opens no transaction for.
LockInv ==
    /\ writer # 0 => writer \in DOMAIN threads /\ threads[writer].state = "exec" /\ Writes(writer)
    /\ \A k \in DOMAIN threads : threads[k].state = "exec" /\ Writes(k) => writer = k
    /\ data # "before" =>
        \E k \in DOMAIN threads :
            threads[k].state = "ended" /\ threads[k].stmt.kind \in {"cte", "other"}

\* A step after which every thread has its state and statement keeps it, and
\* so does one that adds a thread that has not begun.
LEMMA LockUntouched ==
    ASSUME TypeOK, LockInv, UNCHANGED <<data, writer>>,
           DOMAIN threads \subseteq DOMAIN threads',
           \A k \in DOMAIN threads : /\ threads'[k].state = threads[k].state
                                     /\ threads'[k].stmt = threads[k].stmt,
           \A k \in DOMAIN threads' \ DOMAIN threads : threads'[k].state = "connect"
    PROVE  LockInv'
  BY DEF LockInv, Writes

LEMMA LockStart ==
    ASSUME TypeOK, LockInv, NEW purpose \in {"query", "probe"}, NEW s \in Statements,
           Start(purpose, s), UNCHANGED <<data, writer>>
    PROVE  LockInv'
<1>1. /\ DOMAIN threads' = DOMAIN threads \union {Len(threads')}
      /\ \A k \in DOMAIN threads : threads'[k] = threads[k]
      /\ threads'[Len(threads')].state = "connect"
  BY StartAppends
<1>2. DOMAIN threads \subseteq DOMAIN threads'
  BY <1>1
<1>3. \A k \in DOMAIN threads : threads'[k].state = threads[k].state /\ threads'[k].stmt = threads[k].stmt
  BY <1>1
<1>4. \A k \in DOMAIN threads' \ DOMAIN threads : threads'[k].state = "connect"
  BY <1>1
<1>5. QED
  BY <1>2, <1>3, <1>4, LockUntouched

\* A thread's own step, by what it does to its record.
LEMMA LockThread ==
    ASSUME TypeOK, LockInv, NEW k \in DOMAIN threads, ThreadStep(k)
    PROVE  LockInv'
<1> DEFINE Others == \A j \in DOMAIN threads : j # k => threads'[j] = threads[j]
<1>1. /\ DOMAIN threads' = DOMAIN threads /\ Others
      /\ threads'[k].stmt = threads[k].stmt
  <2>1. PICK t \in ThreadType : threads' = [threads EXCEPT ![k] = t] /\ t.stmt = threads[k].stmt
    BY ThreadStepMoves
  <2>2. QED
    BY <2>1, BecomesType
<1>2. /\ threads[k] \in ThreadType /\ DOMAIN threads = 1..Len(threads) /\ k # 0
      /\ threads \in Seq(ThreadType) /\ Len(threads) \in Nat
  BY DEF TypeOK
<1>3. CASE Connect(k) \/ Refused(k)
  <2>1. /\ threads[k].state \in {"connect", "ready"} /\ UNCHANGED <<data, writer>>
        /\ threads'[k].state \in {"ready", "ended"}
    <3>1. CASE Connect(k)
      BY <3>1, <1>2 DEF Connect, Moves, Becomes, ThreadType
    <3>2. CASE Refused(k)
      BY <3>2, <1>2 DEF Refused, Moves, Becomes, Ended, ThreadType
    <3>3. QED
      BY <1>3, <3>1, <3>2
  <2>2. QED
    BY <1>1, <2>1 DEF LockInv, Writes
<1>4. CASE Execute(k)
  <2>1. /\ threads[k].state = "ready" /\ threads'[k].state = "exec" /\ data' = data
        /\ Writes(k) => writer = 0
        /\ writer' = IF Writes(k) THEN k ELSE writer
    BY <1>4, <1>2 DEF Execute, Moves, Becomes, ThreadType
  <2>2. QED
    BY <1>1, <1>2, <2>1 DEF LockInv, Writes
<1>5. CASE Finish(k) \/ Fail(k)
  <2>1. /\ threads[k].state = "exec" /\ threads'[k].state = "ended"
        /\ writer' = IF writer = k THEN 0 ELSE writer
        /\ data' # data => threads[k].stmt.kind \in {"cte", "other"}
    <3>1. threads[k].state = "exec" /\ writer' = IF writer = k THEN 0 ELSE writer
      BY <1>5 DEF Finish, Fail, Moves, Released
    <3>2. data' # data => threads[k].stmt.kind \in {"cte", "other"}
      BY <1>5 DEF Finish, Fail, SelfCommits
    <3>3. threads'[k].state = "ended"
      <4>1. PICK failed : threads' = [threads EXCEPT ![k] = Ended(k, failed)]
        BY <1>5 DEF Finish, Fail, Becomes
      <4>2. Ended(k, failed).state = "ended"
        BY <1>2 DEF Ended, ThreadType
      <4>3. QED
        BY <4>1, <4>2
    <3>4. QED
      BY <3>1, <3>2, <3>3
  <2>2. QED
    BY <1>1, <1>2, <2>1 DEF LockInv, Writes
<1>6. QED
  BY <1>3, <1>4, <1>5 DEF ThreadStep

LEMMA LockStep ==
    ASSUME TypeOK, LockInv, [Next]_execVars
    PROVE  LockInv'
<1>1. ASSUME NEW s \in Statements, TakeUnreachable(s) \/ TakeRefused(s) PROVE LockInv'
  BY <1>1, LockUntouched DEF TakeUnreachable, TakeRefused, Take
<1>2. ASSUME NEW s \in Statements, TakeExecuted(s) PROVE LockInv'
  BY <1>2, LockStart DEF TakeExecuted, Take
<1>3. CASE Raised \/ MutationDone \/ QueryDone \/ ProbeDone \/ ProbeRaised \/ GiveUp \/ GiveUpProbe
  <2>1. UNCHANGED <<data, writer, threads>>
    BY <1>3 DEF Raised, MutationDone, QueryDone, ProbeDone, ProbeRaised, GiveUp, GiveUpProbe,
                ProbeEnds, Concludes
  <2>2. QED
    BY <2>1, LockUntouched
<1>4. CASE StartProbe
  <2>1. stmt \in Statements
    BY <1>4 DEF StartProbe, Joined, TypeOK
  <2>2. QED
    BY <1>4, <2>1, LockStart DEF StartProbe
<1>5. CASE Timeout \/ UNCHANGED execVars
  BY <1>5, LockUntouched DEF Timeout, execVars
<1>6. CASE Interrupt
  <2> DEFINE t == [Now EXCEPT !.interrupted = Now.state = "exec"]
  <2>1. Len(threads) \in DOMAIN threads /\ Now \in ThreadType
    BY <1>6, NowType, QueryCallType DEF Interrupt
  <2>2. t \in ThreadType /\ t.state = Now.state /\ t.stmt = Now.stmt
    BY <2>1 DEF ThreadType
  <2>3. threads' = [threads EXCEPT ![Len(threads)] = t] /\ UNCHANGED <<data, writer>>
    BY <1>6 DEF Interrupt
  <2> HIDE DEF t
  <2>4. /\ DOMAIN threads' = DOMAIN threads
        /\ \A j \in DOMAIN threads : threads'[j] = IF j = Len(threads) THEN t ELSE threads[j]
    BY <2>1, <2>2, <2>3, BecomesType
  <2>5. QED
    BY <2>2, <2>3, <2>4, LockUntouched DEF Now
<1>7. QED
  BY <1>1, <1>2, <1>3, <1>4, <1>5, <1>6, LockThread, KindsOfStep

\* A mutation that starts with its verb leaves no trace: for any number of
\* threads left behind, the lock is held only inside a writing statement, and
\* the data change only by a statement that commits by itself.
(* A mutation sqlite3 opens a transaction for leaves no trace in the data, *)
(* and only a running one holds the lock.                                  *)
THEOREM NoTraceTheorem == Spec => []TransactionsLeaveNoTrace
<1>1. Init => LockInv
  <2> SUFFICES ASSUME Init PROVE LockInv
    OBVIOUS
  <2>1. threads = <<>> /\ DOMAIN threads = {} /\ writer = 0 /\ data = "before"
    BY DEF Init
  <2>2. QED
    BY <2>1 DEF LockInv
<1>2. TypeOK /\ LockInv /\ [Next]_execVars => LockInv'
  BY LockStep
<1>3. LockInv => TransactionsLeaveNoTrace
  BY DEF LockInv, TransactionsLeaveNoTrace
<1>4. QED
  BY <1>1, <1>2, <1>3, ExecutionTypeCorrect, PTL DEF Spec

------------------------------------------------------------------------------
(* select_only. *)

\* The statements of the threads are reads.
ReadsOnly ==
    policy.mode = "select_only" =>
        /\ data = "before"
        /\ \A k \in DOMAIN threads : threads[k].stmt.kind = "select"

LEMMA RefusedUnlessRead ==
    ASSUME NEW s \in Statements, Refusal(s) = None, policy.mode = "select_only"
    PROVE  s.kind = "select"
  BY DEF Refusal, Refusals

LEMMA PolicyFixed == [Next]_execVars => policy' = policy
<1> SUFFICES ASSUME [Next]_execVars PROVE policy' = policy
  OBVIOUS
<1>1. ASSUME NEW s \in Statements, TakeUnreachable(s) \/ TakeRefused(s) \/ TakeExecuted(s)
      PROVE  policy' = policy
  BY <1>1 DEF TakeUnreachable, TakeRefused, TakeExecuted, Take
<1>2. CASE Analyzer
  BY <1>2 DEF Analyzer, Raised, MutationDone, QueryDone, StartProbe, ProbeDone, ProbeRaised,
              Timeout, Interrupt, GiveUp, GiveUpProbe, ProbeEnds, Concludes
<1>3. ASSUME NEW k \in DOMAIN threads, ThreadStep(k) PROVE policy' = policy
  BY <1>3 DEF ThreadStep, Connect, Refused, Execute, Finish, Fail, Moves
<1>4. QED
  BY <1>1, <1>2, <1>3 DEF Next, ThreadStep, execVars

LEMMA ReadsOnlyStep ==
    ASSUME TypeOK, ReadsOnly, [Next]_execVars
    PROVE  ReadsOnly'
<1> SUFFICES ASSUME policy'.mode = "select_only" PROVE ReadsOnly'
  BY DEF ReadsOnly
<1>1. policy' = policy
  BY PolicyFixed
<1>2. data = "before" /\ \A k \in DOMAIN threads : threads[k].stmt.kind = "select"
  BY <1>1 DEF ReadsOnly
<1>3. ASSUME NEW s \in Statements, TakeUnreachable(s) \/ TakeRefused(s) PROVE ReadsOnly'
  BY <1>2, <1>3 DEF TakeUnreachable, TakeRefused, Take, ReadsOnly
<1>4. ASSUME NEW s \in Statements, TakeExecuted(s) PROVE ReadsOnly'
  <2>1. s.kind = "select" /\ data' = data /\ Start("query", s)
    BY <1>1, <1>4, RefusedUnlessRead DEF TakeExecuted, Take
  <2>2. /\ DOMAIN threads' = DOMAIN threads \union {Len(threads')}
        /\ \A k \in DOMAIN threads : threads'[k] = threads[k]
        /\ threads'[Len(threads')].stmt = s
    BY <2>1, StartAppends
  <2>3. QED
    BY <1>2, <2>1, <2>2 DEF ReadsOnly
<1>5. CASE Raised \/ MutationDone \/ QueryDone \/ ProbeDone \/ ProbeRaised \/ GiveUp \/ GiveUpProbe
  <2>1. UNCHANGED <<data, threads>>
    BY <1>5 DEF Raised, MutationDone, QueryDone, ProbeDone, ProbeRaised, GiveUp, GiveUpProbe,
                ProbeEnds, Concludes
  <2>2. QED
    BY <1>2, <2>1 DEF ReadsOnly
<1>6. CASE StartProbe
  <2>1. stmt \in Statements /\ stmt.kind = "select" /\ data' = data /\ Start("probe", stmt)
    BY <1>6 DEF StartProbe, Joined, TypeOK
  <2>2. /\ DOMAIN threads' = DOMAIN threads \union {Len(threads')}
        /\ \A k \in DOMAIN threads : threads'[k] = threads[k]
        /\ threads'[Len(threads')].stmt = stmt
    BY <2>1, StartAppends
  <2>3. QED
    BY <1>2, <2>1, <2>2 DEF ReadsOnly
<1>7. CASE Timeout \/ UNCHANGED execVars
  BY <1>2, <1>7 DEF Timeout, execVars, ReadsOnly
<1>8. CASE Interrupt
  <2> DEFINE t == [Now EXCEPT !.interrupted = Now.state = "exec"]
  <2>1. Len(threads) \in DOMAIN threads /\ Now \in ThreadType
    BY <1>8, NowType, QueryCallType DEF Interrupt
  <2>2. t \in ThreadType /\ t.stmt = Now.stmt
    BY <2>1 DEF ThreadType
  <2>3. threads' = [threads EXCEPT ![Len(threads)] = t] /\ data' = data
    BY <1>8 DEF Interrupt
  <2> HIDE DEF t
  <2>4. /\ DOMAIN threads' = DOMAIN threads
        /\ \A j \in DOMAIN threads : threads'[j] = IF j = Len(threads) THEN t ELSE threads[j]
    BY <2>1, <2>2, <2>3, BecomesType
  <2>5. QED
    BY <1>2, <2>2, <2>3, <2>4 DEF Now, ReadsOnly
<1>9. ASSUME NEW k \in DOMAIN threads, ThreadStep(k) PROVE ReadsOnly'
  <2>1. PICK t \in ThreadType : threads' = [threads EXCEPT ![k] = t] /\ t.stmt = threads[k].stmt
    BY <1>9, ThreadStepMoves
  <2>2. /\ DOMAIN threads' = DOMAIN threads
        /\ \A j \in DOMAIN threads : threads'[j] = IF j = k THEN t ELSE threads[j]
    BY <2>1, BecomesType
  <2>3. data' = data
    BY <1>2, <1>9 DEF ThreadStep, Connect, Refused, Execute, Finish, Fail, SelfCommits
  <2>4. QED
    BY <1>2, <2>1, <2>2, <2>3 DEF ReadsOnly
<1>10. QED
  BY <1>3, <1>4, <1>5, <1>6, <1>7, <1>8, <1>9, KindsOfStep

\* In select_only mode no statement of the dataset but a query ever reaches the
\* database, and neither its data nor its lock is touched.
(* In select_only mode no statement of an item changes the data or takes   *)
(* the lock, at any number of items and threads.                           *)
THEOREM SelectOnlyTheorem == Spec => []SelectOnlyIsInert
<1>1. Init => ReadsOnly
  BY DEF Init, ReadsOnly
<1>2. TypeOK /\ ReadsOnly /\ [Next]_execVars => ReadsOnly'
  BY ReadsOnlyStep
<1>3. TypeOK /\ ReadsOnly /\ TransactionsLeaveNoTrace => SelectOnlyIsInert
  <2> SUFFICES ASSUME TypeOK, ReadsOnly, TransactionsLeaveNoTrace, policy.mode = "select_only"
               PROVE  writer = 0
    BY DEF ReadsOnly, SelectOnlyIsInert
  <2>1. threads \in Seq(ThreadType) /\ writer \in 0..Len(threads)
    BY DEF TypeOK
  <2>2. writer # 0 => writer \in DOMAIN threads
    BY <2>1
  <2>3. QED
    BY <2>2 DEF ReadsOnly, TransactionsLeaveNoTrace, Writes
<1>4. QED
  BY <1>1, <1>2, <1>3, ExecutionTypeCorrect, NoTraceTheorem, PTL DEF Spec

------------------------------------------------------------------------------
(* The answers that are reported. *)

\* The thread's statement ran to its end in time.
Good(t) == t.purpose = "query" /\ t.state = "ended" /\ ~t.failed /\ ~t.interrupted

HasAnswered(k, s, seen) ==
    /\ k \in DOMAIN threads
    /\ Good(threads[k]) /\ threads[k].stmt = s
    /\ seen = IF s.kind = "select" THEN threads[k].saw ELSE None

AnswerInv ==
    /\ pc \in {"join", "overdue"} => ~Now.interrupted
    /\ pc # "idle" /\ ~Probing => read = None
    /\ pc # "idle" /\ Probing => HasAnswered(Len(threads) - 1, stmt, read)
    /\ report # None /\ report.status = "ok" =>
        HasAnswered(report.call, report.stmt, report.read)

LEMMA AnswerImplies == TypeOK /\ AnswerInv => OkIsOwnAnswer
  BY DEF AnswerInv, OkIsOwnAnswer, Good, HasAnswered

\* An answer stays: no later step touches the record of a thread that has ended.
LEMMA AnswerStays ==
    ASSUME TypeOK, AnswerInv, [Next]_execVars,
           NEW k, NEW s, NEW seen, HasAnswered(k, s, seen)
    PROVE  HasAnswered(k, s, seen)'
<1> DEFINE Stays ==
        /\ k \in DOMAIN threads' /\ threads'[k].stmt = threads[k].stmt
        /\ threads'[k].saw = threads[k].saw /\ Good(threads'[k])
<1>1. k \in DOMAIN threads /\ Good(threads[k])
  BY DEF HasAnswered
<1>2. SUFFICES Stays
  BY DEF HasAnswered
<1>3. CASE UNCHANGED threads
  BY <1>1, <1>3
<1>4. ASSUME NEW purpose \in {"query", "probe"}, NEW t \in Statements, Start(purpose, t) PROVE Stays
  BY <1>1, <1>4, StartAppends
<1>5. CASE Interrupt
  <2> DEFINE t == [Now EXCEPT !.interrupted = Now.state = "exec"]
  <2>1. Len(threads) \in DOMAIN threads /\ Now \in ThreadType
    BY <1>5, NowType, QueryCallType DEF Interrupt
  <2>2. t \in ThreadType /\ t.stmt = Now.stmt /\ t.saw = Now.saw /\ (Good(Now) => Good(t))
    BY <2>1 DEF ThreadType, Good
  <2>3. threads' = [threads EXCEPT ![Len(threads)] = t]
    BY <1>5 DEF Interrupt
  <2> HIDE DEF t
  <2>4. /\ DOMAIN threads' = DOMAIN threads
        /\ \A j \in DOMAIN threads : threads'[j] = IF j = Len(threads) THEN t ELSE threads[j]
    BY <2>1, <2>2, <2>3, BecomesType
  <2>5. QED
    BY <1>1, <2>2, <2>4 DEF Now
<1>6. ASSUME NEW j \in DOMAIN threads, ThreadStep(j) PROVE Stays
  <2>1. PICK t \in ThreadType : threads' = [threads EXCEPT ![j] = t]
    BY <1>6, ThreadStepMoves
  <2>2. /\ DOMAIN threads' = DOMAIN threads
        /\ \A i \in DOMAIN threads : threads'[i] = IF i = j THEN t ELSE threads[i]
    BY <2>1, BecomesType
  <2>3. j # k
    BY <1>1, <1>6, ThreadStepMoves DEF Good
  <2>4. QED
    BY <1>1, <2>2, <2>3
<1>7. StartProbe => stmt \in Statements
  BY DEF StartProbe, Joined, TypeOK
<1>8. \/ UNCHANGED threads
      \/ Interrupt
      \/ \E p \in {"query", "probe"}, t \in Statements : Start(p, t)
      \/ \E j \in DOMAIN threads : ThreadStep(j)
  BY <1>7, KindsOfStep
     DEF TakeUnreachable, TakeRefused, TakeExecuted, Raised, MutationDone, QueryDone, StartProbe,
         ProbeDone, ProbeRaised, Timeout, GiveUp, GiveUpProbe, ProbeEnds, Concludes, execVars
<1>9. QED
  BY <1>3, <1>4, <1>5, <1>6, <1>8

\* The parts of AnswerInv, about the item under way and about the last event.
Waiting ==
    /\ pc \in {"join", "overdue"} => ~Now.interrupted
    /\ pc # "idle" /\ ~Probing => read = None
    /\ pc # "idle" /\ Probing => HasAnswered(Len(threads) - 1, stmt, read)
Reported ==
    report # None /\ report.status = "ok" => HasAnswered(report.call, report.stmt, report.read)

LEMMA ReportStays ==
    ASSUME TypeOK, AnswerInv, [Next]_execVars, report' = report
    PROVE  Reported'
<1>1. CASE report # None /\ report.status = "ok"
  <2>1. HasAnswered(report.call, report.stmt, report.read)
    BY <1>1 DEF AnswerInv
  <2>2. HasAnswered(report.call, report.stmt, report.read)'
    BY <2>1, AnswerStays
  <2>3. QED
    BY <2>2 DEF Reported
<1>2. CASE ~(report # None /\ report.status = "ok")
  BY <1>2 DEF Reported
<1>3. QED
  BY <1>1, <1>2

\* An event that says ok, about a query that has answered.
LEMMA ReportsAnswer ==
    ASSUME NEW label, NEW probe, NEW call, NEW seen, UNCHANGED <<threads, stmt>>, read' = seen,
           Report("ok", None, label, probe, call), HasAnswered(call, stmt, seen)
    PROVE  AnswerInv'
<1>1. pc' = "idle" /\ report'.stmt = stmt' /\ report'.read = seen /\ report'.call = call
  BY DEF Report
<1>2. HasAnswered(call, stmt, seen)'
  BY DEF HasAnswered
<1>3. Reported'
  BY <1>1, <1>2 DEF Reported, HasAnswered
<1>4. Waiting'
  BY <1>1 DEF Waiting
<1>5. QED
  BY <1>3, <1>4 DEF AnswerInv, Waiting, Reported

LEMMA ReportsFailure ==
    ASSUME NEW error, Failure(error)
    PROVE  AnswerInv'
  BY DEF Failure, Report, AnswerInv

\* The thread the analyzer has joined has answered.
LEMMA JoinedAnswers ==
    ASSUME TypeOK, AnswerInv, Joined(FALSE), ~Probing
    PROVE  HasAnswered(Len(threads), stmt, IF stmt.kind = "select" THEN Now.saw ELSE None)
<1>1. Len(threads) \in DOMAIN threads /\ Now \in ThreadType /\ Now.stmt = stmt
  BY NowType DEF Joined, TypeOK
<1>2. Good(Now)
  BY <1>1 DEF Joined, AnswerInv, Good, ThreadType, Probing
<1>3. QED
  BY <1>1, <1>2 DEF HasAnswered, Now

LEMMA AnswerStep ==
    ASSUME TypeOK, AnswerInv, [Next]_execVars
    PROVE  AnswerInv'
<1>1. ASSUME NEW s \in Statements, TakeUnreachable(s) \/ TakeRefused(s) PROVE AnswerInv'
  BY <1>1, ReportsFailure DEF TakeUnreachable, TakeRefused
<1>2. ASSUME NEW s \in Statements, TakeExecuted(s) PROVE AnswerInv'
  <2>1. Start("query", s) /\ read' = None
    BY <1>2 DEF TakeExecuted, Take
  <2>2. pc' = "join" /\ report' = report /\ Now' = Thread("query", s)
    BY <2>1, StartAppends DEF Now
  <2>3. Waiting'
    BY <2>1, <2>2 DEF Waiting, Probing, Thread
  <2>4. QED
    BY <2>2, <2>3, ReportStays DEF AnswerInv, Waiting, Reported
<1>3. CASE Raised \/ GiveUp
  BY <1>3, ReportsFailure DEF Raised, GiveUp
<1>4. CASE MutationDone
  <2>1. ~Probing /\ read = None
    BY <1>4 DEF MutationDone, Joined, TypeOK, AnswerInv
  <2>2. HasAnswered(QueryCall, stmt, read') /\ UNCHANGED <<threads, stmt>>
    BY <1>4, <2>1, JoinedAnswers DEF MutationDone, Concludes, QueryCall
  <2>3. QED
    BY <1>4, <2>2, ReportsAnswer DEF MutationDone
<1>5. CASE QueryDone
  <2>1. HasAnswered(QueryCall, stmt, read') /\ UNCHANGED <<threads, stmt>>
    BY <1>5, JoinedAnswers DEF QueryDone, Concludes, QueryCall
  <2>2. QED
    BY <1>5, <2>1, ReportsAnswer DEF QueryDone
<1>6. CASE StartProbe
  <2>1. stmt \in Statements /\ stmt.kind = "select" /\ Start("probe", stmt) /\ read' = Now.saw
        /\ stmt' = stmt
    BY <1>6 DEF StartProbe, Joined, TypeOK
  <2> PICK n, s, seen : n = Len(threads) /\ s = stmt /\ seen = Now.saw
    OBVIOUS
  <2>2. HasAnswered(n, s, seen)
    BY <1>6, <2>1, JoinedAnswers DEF StartProbe
  <2>3. /\ pc' = "join" /\ report' = report /\ Now' = Thread("probe", stmt)
        /\ Len(threads') - 1 = n
    BY <2>1, StartAppends, NowType DEF Now, TypeOK
  <2>4. HasAnswered(n, s, seen)'
    BY <2>2, AnswerStays
  <2>5. Waiting'
    BY <2>1, <2>3, <2>4 DEF Waiting, Probing, Thread
  <2>6. QED
    BY <2>3, <2>5, ReportStays DEF AnswerInv, Waiting, Reported
<1>7. CASE ProbeDone \/ ProbeRaised \/ GiveUpProbe
  <2>1. pc # "idle" /\ Probing /\ read' = read /\ UNCHANGED <<threads, stmt>>
    BY <1>7 DEF ProbeDone, ProbeRaised, GiveUpProbe, Joined, GraceOver, ProbeEnds, Concludes
  <2>2. HasAnswered(QueryCall, stmt, read')
    BY <2>1 DEF AnswerInv, QueryCall
  <2>3. PICK label, probe : Report("ok", None, label, probe, QueryCall)
    BY <1>7 DEF ProbeDone, ProbeRaised, GiveUpProbe, ProbeEnds
  <2>4. QED
    BY <2>1, <2>2, <2>3, ReportsAnswer
<1>8. CASE Timeout
  <2>1. pc = "join" /\ pc' = "overdue" /\ UNCHANGED <<threads, stmt, read, report>>
    BY <1>8 DEF Timeout
  <2>2. QED
    BY <2>1 DEF AnswerInv, Now, Probing, HasAnswered
<1>9. CASE Interrupt
  <2> DEFINE t == [Now EXCEPT !.interrupted = Now.state = "exec"]
  <2>1. Len(threads) \in DOMAIN threads /\ Now \in ThreadType /\ pc # "idle"
    BY <1>9, NowType, QueryCallType DEF Interrupt
  <2>2. t \in ThreadType /\ t.purpose = Now.purpose
    BY <2>1 DEF ThreadType
  <2>3. /\ threads' = [threads EXCEPT ![Len(threads)] = t] /\ pc' = "grace"
        /\ stmt' = stmt /\ read' = read /\ report' = report
    BY <1>9 DEF Interrupt
  <2> HIDE DEF t
  <2>4. Now' = t /\ Len(threads') = Len(threads)
    BY <2>1, <2>2, <2>3, BecomesType DEF Now
  <2>5. Probing => HasAnswered(Len(threads) - 1, stmt, read)'
    BY <2>1, <2>3, <2>4, AnswerStays DEF AnswerInv
  <2>6. Waiting'
    BY <2>1, <2>2, <2>3, <2>4, <2>5 DEF Waiting, Probing, AnswerInv
  <2>7. QED
    BY <2>3, <2>6, ReportStays DEF AnswerInv, Waiting, Reported
<1>10. ASSUME NEW k \in DOMAIN threads, ThreadStep(k) PROVE AnswerInv'
  <2>1. PICK t \in ThreadType :
            /\ threads' = [threads EXCEPT ![k] = t]
            /\ t.purpose = threads[k].purpose /\ t.interrupted = threads[k].interrupted
    BY <1>10, ThreadStepMoves
  <2>2. UNCHANGED <<pc, stmt, read, report>>
    BY <1>10, ThreadStepMoves
  <2>3. /\ Len(threads') = Len(threads)
        /\ \A j \in DOMAIN threads : threads'[j] = IF j = k THEN t ELSE threads[j]
    BY <2>1, BecomesType
  <2>4. pc # "idle" => Now'.purpose = Now.purpose /\ Now'.interrupted = Now.interrupted
    BY <2>1, <2>3, NowType, QueryCallType DEF Now
  <2>5. pc # "idle" /\ Probing => HasAnswered(Len(threads) - 1, stmt, read)'
    BY <2>2, <2>3, AnswerStays DEF AnswerInv
  <2>6. Waiting'
    BY <2>2, <2>3, <2>4, <2>5 DEF Waiting, Probing, AnswerInv
  <2>7. QED
    BY <2>2, <2>6, ReportStays DEF AnswerInv, Waiting, Reported
<1>11. CASE UNCHANGED execVars
  BY <1>11 DEF execVars, AnswerInv, Now, Probing, HasAnswered
<1>12. QED
  BY <1>1, <1>2, <1>3, <1>4, <1>5, <1>6, <1>7, <1>8, <1>9, <1>10, <1>11, KindsOfStep

\* An ok event reports what the item's own statement answered in time, however
\* many threads of earlier items are still at work.
(* An ok event reports what the item's own statement answered in time,     *)
(* however many threads are left behind.                                   *)
THEOREM OwnAnswerTheorem == Spec => []OkIsOwnAnswer
<1>1. Init => AnswerInv
  BY DEF Init, AnswerInv
<1>2. TypeOK /\ AnswerInv /\ [Next]_execVars => AnswerInv'
  BY AnswerStep
<1>3. QED
  BY <1>1, <1>2, AnswerImplies, ExecutionTypeCorrect, PTL DEF Spec

------------------------------------------------------------------------------
(* The labels. *)

\* A label is what classify_determinism says of what the query saw, and of the
\* tie the probe saw if one answered.
Verdict(s, label, probe, seen) ==
    /\ s \in Statements /\ s.kind = "select" /\ seen \in Versions
    /\ \/ probe = "none" /\ label = Label(s.query, seen, None)
       \/ /\ probe \in Versions /\ NeedsProbe(s.query, seen)
          /\ \E tie \in TieSeen(s.query, probe) : label = Label(s.query, seen, tie)
       \/ probe \in {"failed", "timeout"}

LabelInv ==
    /\ pc # "idle" /\ Probing => NeedsProbe(stmt.query, read)
    /\ report # None /\ report.label # None =>
        Verdict(report.stmt, report.label, report.probe, report.read)

\* The limits of a query, as numbers.
LEMMA LimitType ==
    ASSUME TypeOK, NEW q \in Query
    PROVE  /\ q.limit \in Nat \union {None} /\ q.offset \in Nat /\ q.random \in BOOLEAN /\ q.ordered \in BOOLEAN
           /\ policy.safety \in (Nat \ {0}) \union {None}
           /\ Limit(q) \in Nat \union {None} /\ None \notin Int
           /\ Limit(q) = RealLimit(q) \/ Limit(q) = 0
<1>1. q.limit \in Nat \union {None} /\ q.offset \in Nat /\ q.random \in BOOLEAN /\ q.ordered \in BOOLEAN
  BY DEF Query
<1>2. policy.safety \in (Nat \ {0}) \union {None}
  BY DEF TypeOK, Policy
<1>3. None \notin Int
  BY CanonAssumption DEF CanonAssumption
<1>4. QED
  BY <1>1, <1>2, <1>3 DEF Limit, RealLimit, EffectiveLimit

\* The rows of the content a query saw.
LEMMA ContentType ==
    ASSUME NEW q \in Query, NEW v \in Versions
    PROVE  /\ RowsOf(q, v) \in Seq(Row) /\ Len(RowsOf(q, v)) \in Nat
           /\ Sorted(RowsOf(q, v))
<1>1. q.table \in Tables
  BY DEF Query
<1>2. Content[v][q.table] \in Seq(Row) /\ Sorted(Content[v][q.table])
  BY <1>1
<1>3. QED
  BY <1>2 DEF RowsOf

\* Where the LIMIT is known, it is the one the query has.
LEMMA CutIsReal ==
    ASSUME TypeOK, NEW q \in Query, CutKnown(q), Limit(q) # None, CutPosition(q, Limit(q)) >= 1
    PROVE  Limit(q) \in Nat /\ Limit(q) >= 1 /\ Limit(q) = RealLimit(q)
<1>1. /\ q.limit \in Nat \union {None} /\ q.offset \in Nat
      /\ policy.safety \in (Nat \ {0}) \union {None}
      /\ Limit(q) \in Nat \union {None} /\ None \notin Int
      /\ Limit(q) = RealLimit(q) \/ Limit(q) = 0
  BY LimitType
<1>2. CASE q.offset = 0
  BY <1>1, <1>2 DEF CutPosition
<1>3. CASE q.readable /\ q.limit # 0
  BY <1>1, <1>3 DEF Limit, EffectiveLimit, RealLimit
<1>4. QED
  BY <1>2, <1>3 DEF CutKnown

\* DETERMINISTIC without a probe: the LIMIT kept every row.
LEMMA UnboundSound ==
    ASSUME TypeOK, NEW q \in Query, NEW v \in Versions, SkipsCleanly(q, RowsOf(q, v)),
           Label(q, v, None) = "DETERMINISTIC"
    PROVE  Determined(q, RealLimit(q), RowsOf(q, v))
<1> DEFINE n == Len(RowsOf(q, v))
<1>1. ~Truncated(q, v) /\ ~q.random /\ ~LimitBinds(Seen(q, v), Limit(q))
  BY DEF Label, Classify
<1>2. Seen(q, v) = RowCount(q, RealLimit(q), n)
  BY <1>1 DEF Seen, Count
<1>3. n \in Nat /\ RowsOf(q, v) \in Seq(Row) /\ Sorted(RowsOf(q, v))
  BY ContentType
<1>4. /\ Limit(q) \in Nat \union {None} /\ None \notin Int /\ q.offset \in Nat
      /\ Limit(q) = RealLimit(q) \/ Limit(q) = 0
  BY LimitType
<1>5. Limit(q) # None => ~(Seen(q, v) >= Limit(q))
  BY <1>1 DEF LimitBinds
<1>6. RealLimit(q) \in Nat \union {None}
  BY LimitType DEF RealLimit
<1>7. ASSUME ~q.aggregate, q.offset < n
      PROVE  WholeCut(q, RowsOf(q, v), q.offset) /\ q.offset + RowCount(q, RealLimit(q), n) = n
  <2> HIDE DEF n
  <2>1. /\ Behind(q, n) \in Nat /\ Seen(q, v) \in 0..Behind(q, n)
        /\ Seen(q, v) = IF RealLimit(q) = None THEN Behind(q, n) ELSE Least(RealLimit(q), Behind(q, n))
    <3> PICK limit : limit = RealLimit(q)
      OBVIOUS
    <3>1. limit \in Nat \union {None} /\ q.offset \in Nat /\ ~q.aggregate /\ n \in Nat
      BY <1>3, <1>4, <1>6, <1>7
    <3>2. /\ Behind(q, n) \in Nat /\ RowCount(q, limit, n) \in 0..Behind(q, n)
          /\ RowCount(q, limit, n) = IF limit = None THEN Behind(q, n) ELSE Least(limit, Behind(q, n))
      BY <3>1, CountIs
    <3>3. QED
      BY <1>2, <3>2
  <2>2. Limit(q) = RealLimit(q)
    BY <1>4, <1>5, <2>1
  <2>3. Seen(q, v) = Behind(q, n)
    BY <1>4, <1>5, <1>6, <2>1, <2>2 DEF Least
  <2>4. Behind(q, n) = n - q.offset
    BY <1>7 DEF Behind
  <2>5. q.offset + RowCount(q, RealLimit(q), n) = n
    BY <1>2, <1>3, <1>4, <2>3, <2>4
  <2>6. WholeCut(q, RowsOf(q, v), q.offset)
    <3>1. CASE q.offset = 0
      BY <3>1 DEF WholeCut
    <3>2. CASE q.offset # 0
      <4>1. /\ q.ordered
            /\ RowsOf(q, v)[q.offset].rank # RowsOf(q, v)[q.offset + 1].rank
        BY <1>7, <3>2 DEF SkipsCleanly, n
      <4>2. q.offset \in 1..(Len(RowsOf(q, v)) - 1)
        BY <1>3, <1>4, <1>7, <3>2 DEF n
      <4>3. QED
        BY <4>1, <4>2 DEF WholeCut
    <3>3. QED
      BY <3>1, <3>2
  <2>7. QED
    BY <2>5, <2>6
<1>8. ~q.aggregate /\ q.offset < n =>
        /\ WholeCut(q, RowsOf(q, v), q.offset)
        /\ WholeCut(q, RowsOf(q, v), q.offset + RowCount(q, RealLimit(q), n))
  BY <1>7 DEF WholeCut
<1>9. QED
  BY <1>1, <1>3, <1>4, <1>6, <1>8, WholeDetermined

\* Where the cut of a probed query is, if it is no aggregate.
LEMMA ProbedCut ==
    ASSUME TypeOK, NEW q \in Query, NEW v \in Versions, NeedsProbe(q, v), CutKnown(q), ~q.aggregate
    PROVE  /\ Limit(q) \in Nat /\ Limit(q) >= 1 /\ Limit(q) = RealLimit(q)
           /\ RowCount(q, RealLimit(q), Len(RowsOf(q, v))) = Limit(q)
           /\ CutPosition(q, Limit(q)) = q.offset + Limit(q)
           /\ CutPosition(q, Limit(q)) \in 1..Len(RowsOf(q, v))
           /\ q.offset < Len(RowsOf(q, v))
<1> DEFINE n == Len(RowsOf(q, v))
<1>1. ~Truncated(q, v) /\ LimitBinds(Seen(q, v), Limit(q)) /\ CutPosition(q, Limit(q)) >= 1
  BY DEF NeedsProbe, Probes
<1>2. Seen(q, v) = RowCount(q, RealLimit(q), n)
  BY <1>1 DEF Seen, Count
<1>3. n \in Nat /\ q.offset \in Nat /\ None \notin Int
  BY ContentType, LimitType
<1>4. Limit(q) # None /\ Seen(q, v) >= Limit(q)
  BY <1>1 DEF LimitBinds
<1>5. Limit(q) \in Nat /\ Limit(q) >= 1 /\ Limit(q) = RealLimit(q)
  BY <1>1, <1>4, CutIsReal
<1> HIDE DEF n
<1>6. Behind(q, n) \in Nat /\ Seen(q, v) = Least(Limit(q), Behind(q, n))
  BY <1>2, <1>3, <1>5, CountIs
<1>7. Seen(q, v) = Limit(q) /\ Limit(q) <= Behind(q, n)
  BY <1>4, <1>5, <1>6 DEF Least
<1>8. q.offset < n /\ q.offset + Limit(q) \in 1..n
  BY <1>3, <1>5, <1>6, <1>7 DEF Behind
<1>9. QED
  BY <1>2, <1>5, <1>7, <1>8 DEF CutPosition, n

\* A probe that answered for the content of the query decides it.
LEMMA ProbedLabel ==
    ASSUME NEW q, NEW v, NeedsProbe(q, v), NEW tie \in TieSeen(q, v)
    PROVE  /\ ~q.random /\ q.ordered
           /\ Label(q, v, tie) = IF tie THEN "SET_AMBIGUOUS" ELSE "DETERMINISTIC"
<1>1. ~Truncated(q, v) /\ ~q.random /\ q.ordered /\ LimitBinds(Seen(q, v), Limit(q))
  BY DEF NeedsProbe, Probes
<1>2. tie # None
  BY TieType DEF TieSeen
<1>3. QED
  BY <1>1, <1>2 DEF Label, Classify

LEMMA ProbedDeterministic ==
    ASSUME TypeOK, NEW q \in Query, NEW v \in Versions, NeedsProbe(q, v), CutKnown(q),
           NEW tie \in TieSeen(q, v), ~tie, TiesShow(RowsOf(q, v)), SkipsCleanly(q, RowsOf(q, v))
    PROVE  Determined(q, RealLimit(q), RowsOf(q, v))
<1> DEFINE n == Len(RowsOf(q, v))
           cut == CutPosition(q, Limit(q))
<1>1. ~q.random /\ q.ordered
  BY ProbedLabel
<1>2. n \in Nat /\ RowsOf(q, v) \in Seq(Row) /\ Sorted(RowsOf(q, v)) /\ q.offset \in Nat
  BY ContentType, LimitType
<1>3. ASSUME ~q.aggregate
      PROVE  /\ WholeCut(q, RowsOf(q, v), q.offset)
             /\ WholeCut(q, RowsOf(q, v), q.offset + RowCount(q, RealLimit(q), n))
  <2>1. /\ Limit(q) \in Nat /\ cut = q.offset + RowCount(q, RealLimit(q), n)
        /\ cut \in 1..n /\ q.offset < n
    BY <1>3, ProbedCut
  <2> HIDE DEF cut
  <2>2. cut < n => RowsOf(q, v)[cut].rank # RowsOf(q, v)[cut + 1].rank
    <3>1. tie \in TieAt(RowsOf(q, v), cut)
      BY DEF TieSeen, cut
    <3>2. cut \in 1..Len(RowsOf(q, v))
      BY <2>1
    <3>3. QED
      BY <1>2, <3>1, <3>2, TieMeans
  <2>3. WholeCut(q, RowsOf(q, v), cut)
    BY <1>1, <1>2, <2>1, <2>2 DEF WholeCut
  <2>4. WholeCut(q, RowsOf(q, v), q.offset)
    <3>1. CASE q.offset = 0
      BY <3>1 DEF WholeCut
    <3>2. CASE q.offset # 0
      <4>1. RowsOf(q, v)[q.offset].rank # RowsOf(q, v)[q.offset + 1].rank
        BY <2>1, <3>2 DEF SkipsCleanly
      <4>2. q.offset \in 1..(n - 1)
        BY <1>2, <2>1, <3>2
      <4>3. QED
        BY <1>1, <4>1, <4>2 DEF WholeCut
    <3>3. QED
      BY <3>1, <3>2
  <2>5. QED
    BY <2>1, <2>3, <2>4
<1>4. RealLimit(q) \in Nat \union {None}
  BY LimitType DEF RealLimit
<1>5. QED
  BY <1>1, <1>2, <1>3, <1>4, WholeDetermined

LEMMA ProbedAmbiguous ==
    ASSUME TypeOK, NEW q \in Query, NEW v \in Versions, NeedsProbe(q, v), CutKnown(q),
           NEW tie \in TieSeen(q, v), tie, TiesTrue(RowsOf(q, v)), ~q.aggregate
    PROVE  SeveralAnswers(q, RealLimit(q), RowsOf(q, v))
<1> DEFINE n == Len(RowsOf(q, v))
           cut == CutPosition(q, Limit(q))
<1>1. n \in Nat /\ RowsOf(q, v) \in Seq(Row) /\ Sorted(RowsOf(q, v)) /\ q.offset \in Nat
  BY ContentType, LimitType
<1>2. /\ Limit(q) \in Nat /\ Limit(q) >= 1 /\ Limit(q) = RealLimit(q)
      /\ cut = q.offset + Limit(q) /\ cut \in 1..n
  BY ProbedCut
<1>3. cut < n /\ RowsOf(q, v)[cut].rank = RowsOf(q, v)[cut + 1].rank
  <2>1. tie \in TieAt(RowsOf(q, v), cut)
    BY DEF TieSeen
  <2> HIDE DEF cut
  <2>2. QED
    BY <1>1, <1>2, <2>1, TieMeans
<1>4. QED
  BY <1>1, <1>2, <1>3, TieSeveral

LEMMA LabelImplies == TypeOK /\ LabelInv => LabelSound
<1> SUFFICES ASSUME TypeOK, LabelInv, report # None, report.label # None,
                    report.probe \in {"none", report.read},
                    NEW q, q = report.stmt.query, NEW v, v = report.read, CutKnown(q)
             PROVE  /\ report.label = "DETERMINISTIC" /\ SkipsCleanly(q, RowsOf(q, v)) =>
                        \/ Determined(q, RealLimit(q), RowsOf(q, v))
                        \/ report.probe # "none" /\ ~TiesShow(RowsOf(q, v))
                    /\ report.label = "SET_AMBIGUOUS" =>
                        \/ SeveralAnswers(q, RealLimit(q), RowsOf(q, v))
                        \/ q.aggregate \/ ~TiesTrue(RowsOf(q, v))
  BY DEF LabelSound
<1>1. Verdict(report.stmt, report.label, report.probe, v) /\ v \in Versions /\ report.stmt \in Statements
      /\ report.stmt.kind = "select"
  BY DEF LabelInv, Verdict
<1>2. q \in Query
  <2>1. report.stmt \in Statement /\ report.stmt.query # None
    BY <1>1
  <2>2. QED
    BY <2>1 DEF Statement
<1>3. CASE report.probe = "none" /\ report.label = Label(q, v, None)
  <2>1. report.label = "DETERMINISTIC" /\ SkipsCleanly(q, RowsOf(q, v))
            => Determined(q, RealLimit(q), RowsOf(q, v))
    BY <1>1, <1>2, <1>3, UnboundSound
  <2>2. report.label # "SET_AMBIGUOUS"
    BY <1>3 DEF Label, Classify
  <2>3. QED
    BY <2>1, <2>2
<1>4. CASE report.probe \in Versions /\ NeedsProbe(q, v)
           /\ \E tie \in TieSeen(q, report.probe) : report.label = Label(q, v, tie)
  <2>1. report.probe = v /\ report.probe # "none"
    BY <1>4 DEF Versions
  <2>2. PICK tie \in TieSeen(q, v) : report.label = Label(q, v, tie)
    BY <1>4, <2>1
  <2>3. report.label = IF tie THEN "SET_AMBIGUOUS" ELSE "DETERMINISTIC"
    BY <1>4, <2>2, ProbedLabel
  <2>4. CASE tie
    <3>1. TiesTrue(RowsOf(q, v)) /\ ~q.aggregate => SeveralAnswers(q, RealLimit(q), RowsOf(q, v))
      BY <1>1, <1>2, <1>4, <2>4, ProbedAmbiguous
    <3>2. report.label # "DETERMINISTIC"
      BY <2>3, <2>4
    <3>3. QED
      BY <3>1, <3>2
  <2>5. CASE ~tie
    <3>1. TiesShow(RowsOf(q, v)) /\ SkipsCleanly(q, RowsOf(q, v))
              => Determined(q, RealLimit(q), RowsOf(q, v))
      BY <1>1, <1>2, <1>4, <2>5, ProbedDeterministic
    <3>2. report.label # "SET_AMBIGUOUS"
      BY <2>3, <2>5
    <3>3. QED
      BY <2>1, <3>1, <3>2
  <2>6. QED
    BY <2>4, <2>5
<1>5. report.probe \notin {"failed", "timeout"}
  BY <1>1 DEF Versions
<1>6. QED
  BY <1>1, <1>3, <1>4, <1>5 DEF Verdict

\* The parts of LabelInv.
Probed == pc # "idle" /\ Probing => NeedsProbe(stmt.query, read)
Labelled == report # None /\ report.label # None =>
    Verdict(report.stmt, report.label, report.probe, report.read)

LEMMA LabelParts == LabelInv <=> Probed /\ Labelled
  BY DEF LabelInv, Probed, Labelled

LEMMA LabelStays ==
    ASSUME Labelled, UNCHANGED <<policy, report>>
    PROVE  Labelled'
  BY DEF Labelled, Verdict, Label, NeedsProbe, TieSeen, Seen, Truncated, Count, RealLimit, Limit

\* An item that ends with a label.
LEMMA LabelReported ==
    ASSUME NEW label, NEW probe, NEW call, UNCHANGED <<policy, stmt>>,
           Report("ok", None, label, probe, call), Verdict(stmt, label, probe, read')
    PROVE  LabelInv'
<1>1. pc' = "idle" /\ report'.stmt = stmt /\ report'.label = label /\ report'.probe = probe
      /\ report'.read = read'
  BY DEF Report
<1> PICK l, s, p, v : l = label /\ s = stmt /\ p = probe /\ v = read'
  OBVIOUS
<1>2. Verdict(s, l, p, v)
  OBVIOUS
<1>3. Verdict(s, l, p, v)'
  BY <1>2 DEF Verdict, Label, NeedsProbe, TieSeen, Seen, Truncated, Count, RealLimit, Limit
<1>4. Labelled'
  BY <1>1, <1>3 DEF Labelled, Verdict
<1>5. Probed'
  BY <1>1 DEF Probed
<1>6. QED
  BY <1>4, <1>5 DEF LabelInv, Probed, Labelled

\* An item that ends without one.
LEMMA LabelLeftOut ==
    ASSUME NEW status, NEW error, NEW probe, NEW call, Report(status, error, None, probe, call)
    PROVE  LabelInv'
  BY DEF Report, LabelInv

\* The analyzer waits on for the thread it waits for.
LEMMA ProbedStays ==
    ASSUME Probed, pc # "idle", Now'.purpose = Now.purpose, UNCHANGED <<policy, stmt, read>>
    PROVE  Probed'
  BY DEF Probed, Probing, NeedsProbe, Seen, Truncated, Count, RealLimit, Limit

LEMMA LabelStep ==
    ASSUME TypeOK, LabelInv, [Next]_execVars
    PROVE  LabelInv'
<1>0. policy' = policy /\ Probed /\ Labelled
  BY PolicyFixed, LabelParts
<1>1. ASSUME NEW s \in Statements, TakeUnreachable(s) \/ TakeRefused(s) PROVE LabelInv'
  BY <1>1, LabelLeftOut DEF TakeUnreachable, TakeRefused, Failure
<1>2. ASSUME NEW s \in Statements, TakeExecuted(s) PROVE LabelInv'
  <2>1. Start("query", s)
    BY <1>2 DEF TakeExecuted
  <2>2. report' = report /\ Now' = Thread("query", s)
    BY <2>1, StartAppends DEF Now
  <2>3. Probed'
    BY <2>2 DEF Probed, Probing, Thread
  <2>4. QED
    BY <1>0, <2>2, <2>3, LabelStays DEF LabelInv, Probed, Labelled
<1>3. CASE Raised \/ GiveUp \/ MutationDone
  BY <1>3, LabelLeftOut DEF Raised, GiveUp, MutationDone, Failure
<1>4. CASE QueryDone
  <2>1. stmt \in Statements /\ stmt.kind = "select" /\ Now.saw \in Versions /\ UNCHANGED <<policy, stmt>>
        /\ read' = Now.saw
    <3>1. pc # "idle" /\ threads # <<>> /\ stmt \in Statements /\ Now.state = "ended" /\ ~Now.failed
      BY <1>4 DEF QueryDone, Joined, TypeOK
    <3>2. Now \in ThreadType /\ Answering(Now)
      BY <3>1, NowType
    <3>3. Now.saw \in Versions
      BY <3>1, <3>2 DEF Answering, ThreadType
    <3>4. QED
      BY <1>4, <3>1, <3>3 DEF QueryDone, Concludes
  <2>2. Verdict(stmt, Label(stmt.query, Now.saw, None), "none", read')
    BY <2>1 DEF Verdict
  <2>3. QED
    BY <1>4, <2>1, <2>2, LabelReported DEF QueryDone
<1>5. CASE StartProbe
  <2>1. stmt \in Statements /\ Start("probe", stmt) /\ read' = Now.saw
        /\ stmt' = stmt /\ NeedsProbe(stmt.query, Now.saw)
    BY <1>5 DEF StartProbe, Joined, TypeOK
  <2> PICK s, v : s = stmt /\ v = Now.saw
    OBVIOUS
  <2>2. NeedsProbe(s.query, v)'
    BY <1>0, <2>1 DEF NeedsProbe, Seen, Truncated, Count, RealLimit, Limit
  <2>3. report' = report
    BY <2>1, StartAppends
  <2>4. Probed'
    BY <2>1, <2>2 DEF Probed, NeedsProbe, Seen, Truncated, Count, RealLimit, Limit
  <2>5. QED
    BY <1>0, <2>3, <2>4, LabelStays DEF LabelInv, Probed, Labelled
<1>6. CASE ProbeDone \/ ProbeRaised \/ GiveUpProbe
  <2>1. /\ pc # "idle" /\ Probing /\ read' = read /\ UNCHANGED <<policy, stmt>> /\ threads # <<>>
        /\ stmt \in Statements /\ stmt.kind = "select" /\ read \in Versions /\ NeedsProbe(stmt.query, read)
    BY <1>0, <1>6
       DEF ProbeDone, ProbeRaised, GiveUpProbe, Joined, GraceOver, ProbeEnds, Concludes, TypeOK, Probed
  <2>2. CASE ProbeDone
    <3>1. Now.saw \in Versions
      <4>1. Now \in ThreadType /\ Answering(Now) /\ Now.state = "ended" /\ ~Now.failed
        BY <2>1, <2>2, NowType DEF ProbeDone, Joined
      <4>2. QED
        BY <4>1 DEF Answering, ThreadType
    <3> PICK tie \in TieSeen(stmt.query, Now.saw) : ProbeEnds(Now.saw, tie)
      BY <2>2 DEF ProbeDone
    <3> DEFINE label == Label(stmt.query, read, tie)
    <3>2. Report("ok", None, label, Now.saw, QueryCall)
      BY DEF ProbeEnds
    <3>3. Verdict(stmt, label, Now.saw, read')
      BY <2>1, <3>1 DEF Verdict
    <3>4. QED
      BY <2>1, <3>2, <3>3, LabelReported
  <2>3. CASE ProbeRaised \/ GiveUpProbe
    <3>1. \E label, probe : probe \in {"failed", "timeout"} /\ Report("ok", None, label, probe, QueryCall)
      <4>1. CASE ProbeRaised
        <5>1. Report("ok", None, Label(stmt.query, read, None), "failed", QueryCall)
          BY <4>1 DEF ProbeRaised, ProbeEnds
        <5>2. QED
          BY <5>1
      <4>2. CASE GiveUpProbe
        <5>1. Report("ok", None, Label(stmt.query, read, FALSE), "timeout", QueryCall)
          BY <4>2 DEF GiveUpProbe, ProbeEnds
        <5>2. QED
          BY <5>1
      <4>3. QED
        BY <2>3, <4>1, <4>2
    <3> PICK label, probe : probe \in {"failed", "timeout"} /\ Report("ok", None, label, probe, QueryCall)
      BY <3>1
    <3>2. Verdict(stmt, label, probe, read')
      BY <2>1 DEF Verdict
    <3>3. QED
      BY <2>1, <3>2, LabelReported
  <2>4. QED
    BY <1>6, <2>2, <2>3
<1>7. CASE Timeout
  <2>1. pc # "idle" /\ UNCHANGED <<threads, stmt, read, report>>
    BY <1>7 DEF Timeout
  <2>2. Probed'
    BY <1>0, <2>1, ProbedStays DEF Now
  <2>3. QED
    BY <1>0, <2>1, <2>2, LabelStays DEF LabelInv, Probed, Labelled
<1>8. CASE Interrupt
  <2> DEFINE t == [Now EXCEPT !.interrupted = Now.state = "exec"]
  <2>1. Len(threads) \in DOMAIN threads /\ Now \in ThreadType /\ pc # "idle"
    BY <1>8, NowType, QueryCallType DEF Interrupt
  <2>2. t \in ThreadType /\ t.purpose = Now.purpose
    BY <2>1 DEF ThreadType
  <2>3. threads' = [threads EXCEPT ![Len(threads)] = t] /\ UNCHANGED <<stmt, read, report>>
    BY <1>8 DEF Interrupt
  <2> HIDE DEF t
  <2>4. Now' = t
    BY <2>1, <2>2, <2>3, BecomesType DEF Now
  <2>5. Probed'
    BY <1>0, <2>1, <2>2, <2>3, <2>4, ProbedStays
  <2>6. QED
    BY <1>0, <2>3, <2>5, LabelStays DEF LabelInv, Probed, Labelled
<1>9. ASSUME NEW k \in DOMAIN threads, ThreadStep(k) PROVE LabelInv'
  <2>1. PICK t \in ThreadType : threads' = [threads EXCEPT ![k] = t] /\ t.purpose = threads[k].purpose
    BY <1>9, ThreadStepMoves
  <2>2. UNCHANGED <<pc, stmt, read, report>>
    BY <1>9, ThreadStepMoves
  <2>3. /\ Len(threads') = Len(threads)
        /\ \A j \in DOMAIN threads : threads'[j] = IF j = k THEN t ELSE threads[j]
    BY <2>1, BecomesType
  <2>4. pc # "idle" => Now'.purpose = Now.purpose
    BY <2>1, <2>3, NowType, QueryCallType DEF Now
  <2>5. Probed'
    <3>1. CASE pc = "idle"
      BY <2>2, <3>1 DEF Probed
    <3>2. CASE pc # "idle"
      BY <1>0, <2>2, <2>4, <3>2, ProbedStays
    <3>3. QED
      BY <3>1, <3>2
  <2>6. QED
    BY <1>0, <2>2, <2>5, LabelStays DEF LabelInv, Probed, Labelled
<1>10. CASE UNCHANGED execVars
  <2>1. UNCHANGED <<pc, threads, stmt, read, report>>
    BY <1>10 DEF execVars
  <2>2. Probed'
    <3>1. CASE pc = "idle"
      BY <2>1, <3>1 DEF Probed
    <3>2. CASE pc # "idle"
      BY <1>0, <2>1, <3>2, ProbedStays DEF Now
    <3>3. QED
      BY <3>1, <3>2
  <2>3. QED
    BY <1>0, <2>1, <2>2, LabelStays DEF LabelInv, Probed, Labelled
<1>11. QED
  BY <1>1, <1>2, <1>3, <1>4, <1>5, <1>6, <1>7, <1>8, <1>9, <1>10, KindsOfStep

(* For any content, limits and number of items: with a probe that answered *)
(* for the content the query read, and a cut the analyzer knows, a query   *)
(* labelled DETERMINISTIC whose OFFSET divides no equals gives the same    *)
(* values on any engine, if the ties the probe looks at show in their      *)
(* canonical form; and one labelled SET_AMBIGUOUS, no aggregate, admits    *)
(* other rows, if canonical forms tie only with their ranks.               *)
THEOREM LabelTheorem == Spec => []LabelSound
<1>1. Init => LabelInv
  BY DEF Init, LabelInv
<1>2. TypeOK /\ LabelInv /\ [Next]_execVars => LabelInv'
  BY LabelStep
<1>3. QED
  BY <1>1, <1>2, LabelImplies, ExecutionTypeCorrect, PTL DEF Spec
================================================================================
