--------------------------- MODULE DbIdentityProofs ---------------------------
(***************************************************************************)
(* Proofs about DbIdentity, for any number of processes, ids and schemas:  *)
(* type correctness, and that a race to make a database leaves it whole.   *)
(***************************************************************************)
EXTENDS DbIdentity, TLAPS

USE IdentityAssumption DEF IdentityAssumption

\* An item under way has a schema, and its id is one of Ids.
LEMMA AtType ==
    ASSUME TypeOK, NEW p \in Procs, pc[p] # "idle"
    PROVE  /\ item[p] \in Items
           /\ item[p].schema \in Schemas
           /\ At(p) \in Ids
           /\ Statements(p) \in Seq(Tables \union {Bad})
<1>1. item[p] \in Items /\ item[p].schema # None
  BY DEF TypeOK
<1>2. item[p].id \in Ids \union {None} /\ item[p].schema \in Schemas
  BY <1>1
<1>3. At(p) \in Ids
  BY <1>2 DEF At, Target
<1>4. Statements(p) \in Seq(Tables \union {Bad})
  BY <1>2 DEF Statements
<1>5. QED
  BY <1>1, <1>2, <1>3, <1>4

\* A health cached under an item's own id, or none.
LEMMA RecordType ==
    ASSUME TypeOK, NEW p \in Procs, NEW i \in Items, NEW h \in Healths,
           \/ record' = record
           \/ i.id # None /\ record' = [record EXCEPT ![p][i.id] = h]
    PROVE  record' \in [Procs -> [Ids -> Healths \union {None}]]
<1>1. i.id \in Ids \union {None}
  OBVIOUS
<1> DEFINE T == Healths \union {None}
<1>2. record \in [Procs -> [Ids -> T]]
  BY DEF TypeOK
<1>3. h \in T
  OBVIOUS
<1> HIDE DEF T
<1>4. ASSUME NEW d \in Ids, record' = [record EXCEPT ![p][d] = h]
      PROVE  record' \in [Procs -> [Ids -> T]]
  <2>1. [record[p] EXCEPT ![d] = h] \in [Ids -> T]
    BY <1>2, <1>3
  <2>2. record' = [record EXCEPT ![p] = [record[p] EXCEPT ![d] = h]]
    BY <1>4
  <2>3. QED
    BY <1>2, <2>1, <2>2
<1>5. record' \in [Procs -> [Ids -> T]]
  BY <1>1, <1>2, <1>4
<1>6. QED
  BY <1>5 DEF T

\* The statements of the other processes are those of the items they keep.
LEMMA TakeType ==
    ASSUME TypeOK, NEW p \in Procs, NEW i \in Items, Take(p, i),
           marked' \in [Procs -> BOOLEAN],
           record' \in [Procs -> [Ids -> Healths \union {None}]],
           \/ pc' = pc
           \/ pc' = [pc EXCEPT ![p] = "check"] /\ i.schema # None
    PROVE  TypeOK'
<1> USE DEF TypeOK, Take
<1>1. taken' \in [Procs -> 0..MaxItems]
  OBVIOUS
<1>2. item' \in [Procs -> Items \union {None}]
  OBVIOUS
<1>3. ASSUME NEW q \in Procs, pc'[q] # "idle"
      PROVE  item'[q] \in Items /\ item'[q].schema # None
  BY <1>3
<1>4. ASSUME NEW q \in Procs
      PROVE  IF pc'[q] = "apply" THEN next'[q] <= Len(Statements(q)') + 1 ELSE next'[q] = 1
  <2>1. CASE q = p
    BY <2>1
  <2>2. CASE q # p
    BY <2>2 DEF Statements
  <2>3. QED
    BY <2>1, <2>2
<1>5. pc' \in [Procs -> {"idle", "check", "apply"}]
  <2>1. pc \in [Procs -> {"idle", "check", "apply"}]
    OBVIOUS
  <2>2. CASE pc' = pc
    BY <2>1, <2>2
  <2>3. CASE pc' = [pc EXCEPT ![p] = "check"]
    BY <2>1, <2>3
  <2>4. QED
    BY <2>2, <2>3
<1>6. UNCHANGED <<dirs, content, next, cut, restarts>>
  OBVIOUS
<1>7. raised' \in [Procs -> BOOLEAN]
  OBVIOUS
<1>8. QED
  BY <1>1, <1>2, <1>3, <1>4, <1>5, <1>6, <1>7

LEMMA ReturnType ==
    ASSUME TypeOK, NEW p \in Procs, pc[p] # "idle", NEW h \in Healths, Return(p, h),
           UNCHANGED <<dirs, content>>
    PROVE  TypeOK'
<1> USE DEF TypeOK, Return
<1>1. record' \in [Procs -> [Ids -> Healths \union {None}]]
  BY AtType
<1>2. pc' \in [Procs -> {"idle", "check", "apply"}] /\ next' \in [Procs -> Nat \ {0}]
  OBVIOUS
<1>3. ASSUME NEW q \in Procs
      PROVE  /\ IF pc'[q] = "apply" THEN next'[q] <= Len(Statements(q)') + 1 ELSE next'[q] = 1
             /\ pc'[q] # "idle" => item'[q] \in Items /\ item'[q].schema # None
  BY DEF Statements
<1>4. QED
  BY <1>1, <1>2, <1>3

\* Type correctness: what DbManager caches, the files and the processes.
(* Every variable of the identity path keeps to its type.                  *)
THEOREM IdentityTypeCorrect == Spec => []TypeOK
<1>1. Init => TypeOK
  <2> SUFFICES ASSUME Init PROVE TypeOK
    OBVIOUS
  <2>1. dirs \in SUBSET Ids
    BY DEF Init
  <2>2. content \in [Ids -> SUBSET (Tables \union {Supplied})]
    BY DEF Init
  <2>3. QED
    BY <2>1, <2>2 DEF Init, TypeOK
<1>2. TypeOK /\ [Next]_idVars => TypeOK'
  <2> SUFFICES ASSUME TypeOK, [Next]_idVars PROVE TypeOK'
    OBVIOUS
  <2>1. CASE UNCHANGED idVars
    BY <2>1 DEF idVars, TypeOK, Statements
  <2>2. ASSUME NEW p \in Procs, ProcStep(p) PROVE TypeOK'
    <3>1. ASSUME NEW i \in Items, TakeHealthy(p, i) PROVE TypeOK'
      <4>1. record' \in [Procs -> [Ids -> Healths \union {None}]]
        BY <3>1, RecordType DEF TakeHealthy, Healths
      <4>2. marked' \in [Procs -> BOOLEAN]
        BY <3>1 DEF TakeHealthy, TypeOK
      <4>3. QED
        BY <3>1, <4>1, <4>2, TakeType DEF TakeHealthy
    <3>2. ASSUME NEW i \in Items, TakeSchema(p, i) PROVE TypeOK'
      <4>1. record' \in [Procs -> [Ids -> Healths \union {None}]]
        BY <3>2, RecordType DEF TakeSchema, TypeOK, Healths
      <4>2. marked' \in [Procs -> BOOLEAN]
        BY <3>2 DEF TakeSchema, TypeOK
      <4>3. QED
        BY <3>2, <4>1, <4>2, TakeType DEF TakeSchema
    <3>3. ASSUME NEW i \in Items, TakeNothing(p, i) PROVE TypeOK'
      <4>1. record' \in [Procs -> [Ids -> Healths \union {None}]]
        BY <3>3, RecordType DEF TakeNothing, TypeOK, Healths
      <4>2. marked' \in [Procs -> BOOLEAN]
        BY <3>3 DEF TakeNothing, TypeOK
      <4>3. QED
        BY <3>3, <4>1, <4>2, TakeType DEF TakeNothing
    <3>4. CASE CheckServer(p)
      BY <3>4 DEF CheckServer, TypeOK, Statements
    <3>5. CASE CheckUnparsable(p)
      BY <3>5, ReturnType DEF CheckUnparsable, Checking, Healths
    <3>6. CASE CheckOccupied(p)
      BY <3>6, ReturnType DEF CheckOccupied, Checking, Healths
    <3>7. CASE CheckEmpty(p)
      <4>1. pc[p] = "check" /\ At(p) \in Ids /\ Len(Statements(p)) \in Nat
        BY <3>7, AtType DEF CheckEmpty, Checking
      <4>2. dirs' \in SUBSET Ids /\ pc' \in [Procs -> {"idle", "check", "apply"}]
        BY <3>7, <4>1 DEF CheckEmpty, TypeOK
      <4>3. ASSUME NEW q \in Procs
            PROVE  /\ IF pc'[q] = "apply" THEN next'[q] <= Len(Statements(q)') + 1 ELSE next'[q] = 1
                   /\ pc'[q] # "idle" => item'[q] \in Items /\ item'[q].schema # None
        BY <3>7, <4>1 DEF CheckEmpty, TypeOK, Statements
      <4>4. QED
        BY <3>7, <4>2, <4>3 DEF CheckEmpty, TypeOK
    <3>8. CASE ApplyStatement(p)
      <4>1. pc[p] = "apply" /\ At(p) \in Ids /\ Statements(p) \in Seq(Tables \union {Bad})
        BY <3>8, AtType DEF ApplyStatement, Running
      <4>2. next[p] \in 1..Len(Statements(p))
        BY <3>8, <4>1 DEF ApplyStatement, Running, TypeOK
      <4>3. Statements(p)[next[p]] \in Tables
        BY <3>8, <4>1, <4>2 DEF ApplyStatement, Refused
      <4>4. content' \in [Ids -> SUBSET (Tables \union {Supplied})]
        BY <3>8, <4>1, <4>3 DEF ApplyStatement, TypeOK
      <4>5. next' \in [Procs -> Nat \ {0}] /\ next'[p] <= Len(Statements(p)) + 1
        BY <3>8, <4>1, <4>2 DEF ApplyStatement, TypeOK
      <4>6. ASSUME NEW q \in Procs
            PROVE  IF pc'[q] = "apply" THEN next'[q] <= Len(Statements(q)') + 1 ELSE next'[q] = 1
        BY <3>8, <4>1, <4>5 DEF ApplyStatement, TypeOK, Statements
      <4>7. QED
        BY <3>8, <4>4, <4>5, <4>6 DEF ApplyStatement, TypeOK
    <3>9. CASE ApplyRefused(p)
      BY <3>9, ReturnType DEF ApplyRefused, Running, Healths
    <3>10. CASE ApplyDone(p)
      BY <3>10, ReturnType DEF ApplyDone, Healths
    <3>11. CASE Restart(p)
      <4>1. cut' \in SUBSET Ids
        BY <3>11, AtType DEF Restart, TypeOK
      <4>2. record' \in [Procs -> [Ids -> Healths \union {None}]] /\ restarts' \in 0..MaxRestarts
        BY <3>11 DEF Restart, TypeOK
      <4>3. ASSUME NEW q \in Procs
            PROVE  /\ IF pc'[q] = "apply" THEN next'[q] <= Len(Statements(q)') + 1 ELSE next'[q] = 1
                   /\ pc'[q] # "idle" => item'[q] \in Items /\ item'[q].schema # None
        BY <3>11 DEF Restart, TypeOK, Statements
      <4>4. taken' \in [Procs -> 0..MaxItems] /\ marked' \in [Procs -> BOOLEAN]
            /\ raised' \in [Procs -> BOOLEAN]
        BY <3>11 DEF Restart, TypeOK
      <4>5. item' \in [Procs -> Items \union {None}] /\ next' \in [Procs -> Nat \ {0}]
            /\ pc' \in [Procs -> {"idle", "check", "apply"}]
        BY <3>11 DEF Restart, TypeOK
      <4>6. QED
        BY <3>11, <4>1, <4>2, <4>3, <4>4, <4>5 DEF Restart, TypeOK
    <3>12. QED
      BY <2>2, <3>1, <3>2, <3>3, <3>4, <3>5, <3>6, <3>7, <3>8, <3>9, <3>10, <3>11
         DEF ProcStep
  <2>3. QED
    BY <2>1, <2>2 DEF Next
<1>3. QED
  BY <1>1, <1>2, PTL DEF Spec
------------------------------------------------------------------------------
\* A process at work on a database whose items agree applies their script.
LEMMA AgreedStatements ==
    ASSUME TypeOK, NEW d \in Ids, NEW s, Agreed(d, s), NEW p \in Procs, Applying(p, d)
    PROVE  Statements(p) = s
<1>1. item[p] \in Items /\ item[p].schema # None
  BY DEF Applying, TypeOK
<1>2. Statements(p) \in ScriptsFor(d)
  BY <1>1 DEF Statements, ScriptsFor, Applying, At
<1>3. QED
  BY <1>2 DEF Agreed

LEMMA AgreedScript ==
    ASSUME NEW d \in Ids, NEW s, Agreed(d, s)
    PROVE  s \in Seq(Tables) /\ Len(s) \in Nat /\ (\A i \in 1..Len(s) : s[i] \in Tables)
<1>1. s \in ScriptsFor(d)
  BY DEF Agreed
<1>2. PICK i \in Items : i.schema # None /\ s = Script[i.schema]
  BY <1>1 DEF ScriptsFor
<1>3. i.schema \in Schemas
  BY <1>2
<1>4. s \in Seq(Tables \union {Bad})
  BY <1>2, <1>3
<1>5. QED
  BY <1>4 DEF Agreed

\* A step that leaves the file of d and its writers alone, and puts no process
\* to work on it unless it is empty, keeps RaceInv.
LEMMA QuietRace ==
    ASSUME NEW d \in Ids, NEW s, RaceInv(d, s),
           content'[d] = content[d],
           d \in cut => d \in cut',
           \A q \in Procs : Writer(q, d)' => Writer(q, d) /\ next'[q] = next[q],
           \A q \in Procs : Applying(q, d)' => Applying(q, d) \/ content[d] = {},
           \A q \in Procs : Writer(q, d) => Writer(q, d)' \/ d \in cut' \/ ~Partial(d, s)
    PROVE  RaceInv(d, s)'
<1>1. \A p, q \in Procs : Writer(p, d)' /\ Writer(q, d)' => p = q
  BY DEF RaceInv
<1>2. \A p \in Procs : Writer(p, d)' => content'[d] = {s[i] : i \in 1..(next'[p] - 1)}
  BY DEF RaceInv
<1>3. content'[d] = {Supplied} => \A p \in Procs : ~Applying(p, d)'
  BY DEF RaceInv
<1>4. content'[d] # {Supplied} /\ content'[d] # {} => s # <<>> /\ s[1] \in content'[d]
  BY DEF RaceInv
<1>5. content'[d] # {} /\ d \notin cut' /\ ~(\E p \in Procs : Writer(p, d)') => ~Partial(d, s)'
  BY DEF RaceInv, Partial
<1>6. QED
  BY <1>1, <1>2, <1>3, <1>4, <1>5 DEF RaceInv

\* A step of p that neither starts nor runs nor leaves the statements of d.
LEMMA AloofRace ==
    ASSUME TypeOK, NEW d \in Ids, NEW s, RaceInv(d, s), NEW p \in Procs,
           content' = content, cut' = cut,
           pc[p] # "apply", pc'[p] # "apply",
           \A q \in Procs \ {p} : pc'[q] = pc[q] /\ item'[q] = item[q] /\ next'[q] = next[q]
    PROVE  RaceInv(d, s)'
<1>1. ASSUME NEW q \in Procs
      PROVE  /\ Applying(q, d)' <=> Applying(q, d)
             /\ Applying(q, d) => next'[q] = next[q]
  BY DEF Applying, At
<1>2. QED
  BY <1>1, QuietRace DEF Writer

\* The process p leaves the statements of d, and if it was their writer then
\* either every statement is in or its kill is on record.
LEMMA LeaveRace ==
    ASSUME TypeOK, NEW d \in Ids, NEW s, RaceInv(d, s), NEW p \in Procs,
           content' = content,
           d \in cut => d \in cut',
           pc'[p] = "idle",
           \A q \in Procs \ {p} : pc'[q] = pc[q] /\ item'[q] = item[q] /\ next'[q] = next[q],
           Writer(p, d) => d \in cut' \/ ~Partial(d, s)
    PROVE  RaceInv(d, s)'
<1>1. ASSUME NEW q \in Procs, Applying(q, d)'
      PROVE  Applying(q, d) /\ next'[q] = next[q]
  BY <1>1 DEF Applying, At
<1>2. ASSUME NEW q \in Procs, Writer(q, d)
      PROVE  Writer(q, d)' \/ d \in cut' \/ ~Partial(d, s)
  BY <1>2 DEF Writer, Applying, At
<1>3. QED
  BY <1>1, <1>2, QuietRace DEF Writer

LEMMA StartRace ==
    ASSUME TypeOK, NEW d \in Ids, NEW s, RaceInv(d, s), NEW p \in Procs, CheckEmpty(p)
    PROVE  RaceInv(d, s)'
<1>1. next[p] = 1 /\ pc[p] = "check" /\ next' = next /\ content' = content /\ cut' = cut
  BY DEF CheckEmpty, Checking, TypeOK
<1>2. item' = item /\ pc' = [pc EXCEPT ![p] = "apply"] /\ content[At(p)] = {}
  BY DEF CheckEmpty, Occupied
<1>3. \A q \in Procs \ {p} : Applying(q, d)' <=> Applying(q, d)
  BY <1>2 DEF Applying, At, TypeOK
<1>4. Applying(p, d)' => content[d] = {}
  BY <1>2 DEF Applying, At
<1>5. ~Writer(p, d) /\ ~Writer(p, d)'
  BY <1>1 DEF Writer
<1>6. \A q \in Procs : Writer(q, d)' <=> Writer(q, d)
  BY <1>1, <1>3, <1>5 DEF Writer
<1>7. \A q \in Procs : Applying(q, d)' => Applying(q, d) \/ content[d] = {}
  BY <1>3, <1>4
<1>8. QED
  BY <1>1, <1>6, <1>7, QuietRace
\* The one process whose CREATE TABLE is not refused is the database's only
\* writer, and what the file holds is what it has run so far.
LEMMA WinnerAlone ==
    ASSUME TypeOK, NEW d \in Ids, NEW s, Agreed(d, s), RaceInv(d, s),
           NEW p \in Procs, Applying(p, d), Running(p), ~Refused(p)
    PROVE  /\ next[p] \in 1..Len(s)
           /\ s[next[p]] \in Tables
           /\ content[d] = {s[i] : i \in 1..(next[p] - 1)}
           /\ \A q \in Procs : Writer(q, d) => q = p
<1>1. Statements(p) = s /\ At(p) = d
  BY AgreedStatements DEF Applying
<1>2. next[p] \in 1..Len(s) /\ s[next[p]] \in Tables /\ s[next[p]] \notin content[d]
  BY <1>1, AgreedScript DEF Running, Refused, TypeOK
<1>3. CASE Writer(p, d)
  BY <1>2, <1>3 DEF RaceInv
<1>4. CASE ~Writer(p, d)
  <2>1. next[p] = 1
    BY <1>2, <1>4 DEF Writer
  <2>2. content[d] # {Supplied}
    BY DEF RaceInv
  <2>3. content[d] = {}
    BY <1>2, <2>1, <2>2 DEF RaceInv
  <2>4. {s[i] : i \in 1..(next[p] - 1)} = {}
    BY <2>1
  <2>5. ASSUME NEW q \in Procs, Writer(q, d) PROVE FALSE
    <3>1. content[d] = {s[i] : i \in 1..(next[q] - 1)}
      BY <2>5 DEF RaceInv
    <3>2. 1 \in 1..(next[q] - 1)
      BY <2>5 DEF Writer, TypeOK
    <3>3. s[1] \in {s[i] : i \in 1..(next[q] - 1)}
      BY <3>2
    <3>4. QED
      BY <2>3, <3>1, <3>3
  <2>6. QED
    BY <1>2, <2>3, <2>4, <2>5
<1>5. QED
  BY <1>3, <1>4

LEMMA StatementRace ==
    ASSUME TypeOK, NEW d \in Ids, NEW s, Agreed(d, s), RaceInv(d, s),
           NEW p \in Procs, ApplyStatement(p)
    PROVE  RaceInv(d, s)'
<1>1. pc' = pc /\ item' = item /\ cut' = cut /\ pc[p] = "apply" /\ Running(p) /\ ~Refused(p)
  BY DEF ApplyStatement, Running
<1>2. next' = [next EXCEPT ![p] = next[p] + 1]
  BY DEF ApplyStatement
<1>3. content' = [content EXCEPT ![At(p)] = @ \union {Statements(p)[next[p]]}]
  BY DEF ApplyStatement
<1>4. \A q \in Procs : Applying(q, d)' <=> Applying(q, d)
  BY <1>1 DEF Applying, At
<1>5. \A q \in Procs \ {p} : next'[q] = next[q]
  BY <1>2 DEF TypeOK
<1>6. CASE ~Applying(p, d)
  <2>1. content'[d] = content[d]
    BY <1>1, <1>3, <1>6 DEF Applying, TypeOK
  <2>2. \A q \in Procs : Writer(q, d)' <=> Writer(q, d)
    BY <1>4, <1>5, <1>6 DEF Writer
  <2>3. \A q \in Procs : Writer(q, d)' => next'[q] = next[q]
    BY <1>4, <1>5, <1>6 DEF Writer
  <2>4. QED
    BY <1>1, <1>4, <2>1, <2>2, <2>3, QuietRace
<1>7. CASE Applying(p, d)
  <2> DEFINE n == next[p]
  <2>1. /\ n \in 1..Len(s) /\ s[n] \in Tables
        /\ content[d] = {s[i] : i \in 1..(n - 1)}
        /\ \A q \in Procs : Writer(q, d) => q = p
    BY <1>1, <1>7, WinnerAlone
  <2>2. Statements(p) = s /\ At(p) = d
    BY <1>7, AgreedStatements DEF Applying
  <2>3. content'[d] = content[d] \union {s[n]}
    BY <1>3, <2>2 DEF TypeOK
  <2>4. next'[p] = n + 1
    BY <1>2 DEF TypeOK
  <2>5. 1..((n + 1) - 1) = 1..(n - 1) \union {n} /\ Len(s) \in Nat
    BY <2>1, AgreedScript
  <2>6. content'[d] = {s[i] : i \in 1..((n + 1) - 1)}
    BY <2>1, <2>3, <2>5
  <2>7. \A q \in Procs : Writer(q, d)' => q = p
    BY <1>4, <1>5, <2>1 DEF Writer
  <2>8. Writer(p, d)'
    BY <1>4, <1>7, <2>1, <2>4, AgreedScript DEF Writer
  <2>9. s # <<>> /\ s[1] \in content'[d]
    <3>1. 1 \in 1..((n + 1) - 1)
      BY <2>1, AgreedScript
    <3>2. QED
      BY <2>1, <2>6, <3>1, AgreedScript
  <2>10. content'[d] # {Supplied}
    BY <2>1, <2>3
  <2>11. \A q \in Procs : Writer(q, d)' => content'[d] = {s[i] : i \in 1..(next'[q] - 1)}
    BY <2>4, <2>6, <2>7
  <2>12. QED
    BY <2>7, <2>8, <2>9, <2>10, <2>11 DEF RaceInv
<1>8. QED
  BY <1>6, <1>7

\* A refused statement is its process's first one: the tables a writer still
\* has to make are not there.
LEMMA LoserWroteNothing ==
    ASSUME TypeOK, NEW d \in Ids, NEW s, Agreed(d, s), RaceInv(d, s),
           NEW p \in Procs, Running(p), Refused(p)
    PROVE  ~Writer(p, d)
<1> SUFFICES ASSUME Writer(p, d) PROVE FALSE
  OBVIOUS
<1>1. Statements(p) = s /\ At(p) = d
  BY AgreedStatements DEF Writer, Applying
<1>2. next[p] \in 1..Len(s) /\ s[next[p]] \in Tables /\ Len(s) \in Nat
  BY <1>1, AgreedScript DEF Running, TypeOK
<1>3. s[next[p]] \in content[d]
  BY <1>1, <1>2 DEF Refused
<1>4. content[d] = {s[i] : i \in 1..(next[p] - 1)}
  BY DEF RaceInv
<1>5. PICK i \in 1..(next[p] - 1) : s[i] = s[next[p]]
  BY <1>3, <1>4
<1>6. i \in DOMAIN s /\ next[p] \in DOMAIN s /\ i # next[p]
  BY <1>2, <1>5, AgreedScript
<1>7. QED
  BY <1>5, <1>6 DEF Agreed

\* A process that is through with its statements has made them all.
LEMMA DoneIsWhole ==
    ASSUME TypeOK, NEW d \in Ids, NEW s, Agreed(d, s), RaceInv(d, s),
           NEW p \in Procs, next[p] > Len(Statements(p)), Writer(p, d)
    PROVE  ~Partial(d, s)
<1>1. Statements(p) = s /\ Applying(p, d)
  BY AgreedStatements DEF Writer
<1>2. next[p] - 1 = Len(s)
  BY <1>1, AgreedScript DEF Applying, TypeOK
<1>3. content[d] = {s[i] : i \in 1..Len(s)}
  BY <1>2 DEF RaceInv
<1>4. DOMAIN s = 1..Len(s)
  BY AgreedScript
<1>5. QED
  BY <1>3, <1>4 DEF Partial, TablesOf

\* No step breaks the race's invariant for a database whose items agree.
LEMMA NextRace ==
    ASSUME TypeOK, [Next]_idVars, NEW d \in Ids, NEW s, Agreed(d, s), RaceInv(d, s)
    PROVE  RaceInv(d, s)'
<1>1. CASE UNCHANGED idVars
  <2>1. \A q \in Procs : Applying(q, d)' <=> Applying(q, d)
    BY <1>1 DEF idVars, Applying, At
  <2>2. QED
    BY <1>1, <2>1, QuietRace DEF idVars, Writer
<1>2. ASSUME NEW p \in Procs, ProcStep(p) PROVE RaceInv(d, s)'
  <2>1. CASE \E i \in Items : TakeHealthy(p, i) \/ TakeSchema(p, i) \/ TakeNothing(p, i)
    <3>1. PICK i \in Items : Take(p, i) /\ (pc' = pc \/ pc' = [pc EXCEPT ![p] = "check"])
      BY <2>1 DEF TakeHealthy, TakeSchema, TakeNothing
    <3>2. /\ content' = content /\ cut' = cut /\ next' = next /\ pc[p] = "idle"
          /\ item' = [item EXCEPT ![p] = i]
      BY <3>1 DEF Take
    <3>3. pc'[p] # "apply" /\ (\A q \in Procs \ {p} : pc'[q] = pc[q] /\ item'[q] = item[q])
      BY <3>1, <3>2 DEF TypeOK
    <3>4. QED
      BY <3>2, <3>3, AloofRace
  <2>2. CASE CheckServer(p)
    BY <2>2, AloofRace DEF CheckServer, TypeOK
  <2>3. CASE CheckUnparsable(p)
    BY <2>3, AloofRace DEF CheckUnparsable, Checking, Return, TypeOK
  <2>4. CASE CheckOccupied(p)
    BY <2>4, AloofRace DEF CheckOccupied, Checking, Return, TypeOK
  <2>5. CASE CheckEmpty(p)
    BY <2>5, StartRace
  <2>6. CASE ApplyStatement(p)
    BY <2>6, StatementRace
  <2>7. CASE ApplyRefused(p)
    <3>1. ~Writer(p, d)
      BY <2>7, LoserWroteNothing DEF ApplyRefused
    <3>2. QED
      BY <2>7, <3>1, LeaveRace DEF ApplyRefused, Return, TypeOK
  <2>8. CASE ApplyDone(p)
    <3>1. Writer(p, d) => ~Partial(d, s)
      BY <2>8, DoneIsWhole DEF ApplyDone
    <3>2. QED
      BY <2>8, <3>1, LeaveRace DEF ApplyDone, Return, TypeOK
  <2>9. CASE Restart(p)
    <3>1. Writer(p, d) => d \in cut'
      BY <2>9 DEF Restart, Writer, Applying
    <3>2. d \in cut => d \in cut'
      BY <2>9 DEF Restart
    <3>3. content' = content /\ pc'[p] = "idle"
          /\ (\A q \in Procs \ {p} : pc'[q] = pc[q] /\ item'[q] = item[q] /\ next'[q] = next[q])
      BY <2>9 DEF Restart, TypeOK
    <3>4. QED
      BY <3>1, <3>2, <3>3, LeaveRace
  <2>10. QED
    BY <1>2, <2>1, <2>2, <2>3, <2>4, <2>5, <2>6, <2>7, <2>8, <2>9 DEF ProcStep
<1>3. QED
  BY <1>1, <1>2 DEF Next

\* RaceSafe holds however many processes race, are refused and are killed.
(* The inductive invariant of the race for one database: one writer, whose *)
(* statements so far are the file's content.                               *)
THEOREM RaceInvariance == Spec => []RaceSafe
<1>1. Init => RaceSafe
  <2> SUFFICES ASSUME Init, NEW d \in Ids, NEW s \in ScriptsFor(d), Agreed(d, s)
               PROVE  RaceInv(d, s)
    BY DEF RaceSafe
  <2>1. \A p \in Procs : ~Applying(p, d)
    BY DEF Init, Applying
  <2>2. content[d] \in {{}, {Supplied}}
    BY DEF Init
  <2>3. QED
    BY <2>1, <2>2 DEF RaceInv, Writer, Partial
<1>2. TypeOK /\ RaceSafe /\ [Next]_idVars => RaceSafe'
  BY NextRace DEF RaceSafe, ScriptsFor, Agreed, Target
<1>3. QED
  BY <1>1, <1>2, IdentityTypeCorrect, PTL DEF Spec

\* The losers of a race have not written anything, for any number of processes.
(* Of any number of processes that race to make a database only one writes *)
(* it.                                                                     *)
THEOREM OneWriterTheorem == Spec => []OneWriter
<1>1. RaceSafe => OneWriter
  BY DEF RaceSafe, RaceInv, OneWriter, Writer
<1>2. QED
  BY <1>1, RaceInvariance, PTL

\* A database nobody is working on is empty or whole unless a kill cut it.
(* A database nobody is working on is empty or whole unless a kill cut its *)
(* creation, for any number of processes, schemas and refusals.            *)
THEOREM AtRestTheorem == Spec => []AtRestWhole
<1>1. RaceSafe => AtRestWhole
  BY DEF RaceSafe, RaceInv, AtRestWhole, Writer
<1>2. QED
  BY <1>1, RaceInvariance, PTL
------------------------------------------------------------------------------
\* What a step of p does to the health its manager keeps, and to the files.
LEMMA RecordStep ==
    ASSUME TypeOK, NEW p \in Procs, ProcStep(p), NEW d \in Ids, NEW s,
           Agreed(d, s), RaceInv(d, s), ~(\E i \in Items : i.id = d)
    PROVE  /\ content[d] # {} => content'[d] # {}
           /\ \A q \in Procs \ {p} : record'[q] = record[q]
           /\ record'[p][d] = "ok" => record[p][d] = "ok" \/ content'[d] # {} \/ s = <<>>
<1>1. CASE \E i \in Items : TakeHealthy(p, i) \/ TakeSchema(p, i) \/ TakeNothing(p, i)
  <2>1. PICK i \in Items : TakeHealthy(p, i) \/ TakeSchema(p, i) \/ TakeNothing(p, i)
    BY <1>1
  <2>2. i.id # d /\ content' = content
    BY <2>1 DEF TakeHealthy, TakeSchema, TakeNothing, Take
  <2>3. record' = record \/ \E h : record' = [record EXCEPT ![p][i.id] = h]
    BY <2>1 DEF TakeHealthy, TakeSchema, TakeNothing
  <2>4. QED
    BY <2>2, <2>3 DEF TypeOK
<1>2. CASE CheckServer(p) \/ CheckEmpty(p) \/ Restart(p)
  BY <1>2 DEF CheckServer, CheckEmpty, Restart, TypeOK
<1>3. CASE CheckUnparsable(p) \/ ApplyRefused(p)
  BY <1>3 DEF CheckUnparsable, ApplyRefused, Return, TypeOK
<1>4. CASE CheckOccupied(p)
  BY <1>4 DEF CheckOccupied, Occupied, Return, TypeOK
<1>5. CASE ApplyStatement(p)
  BY <1>5 DEF ApplyStatement, TypeOK
<1>6. CASE ApplyDone(p)
  <2>1. /\ content' = content /\ pc[p] = "apply" /\ next[p] > Len(Statements(p))
        /\ record' = [record EXCEPT ![p][At(p)] = "ok"]
    BY <1>6 DEF ApplyDone, Return
  <2>2. ASSUME At(p) = d, s # <<>> PROVE content[d] # {}
    <3>1. Applying(p, d) /\ Statements(p) = s
      BY <2>1, <2>2, AgreedStatements DEF Applying
    <3>2. s \in Seq(Tables) /\ Len(s) \in Nat /\ Len(s) # 0
      BY <2>2, AgreedScript
    <3>3. next[p] \in Nat /\ next[p] > 1
      BY <2>1, <3>1, <3>2 DEF TypeOK
    <3>4. content[d] = {s[j] : j \in 1..(next[p] - 1)} /\ 1 \in 1..(next[p] - 1)
      BY <3>1, <3>3 DEF RaceInv, Writer
    <3>5. s[1] \in content[d]
      BY <3>4
    <3>6. QED
      BY <3>5
  <2>3. QED
    BY <2>1, <2>2 DEF TypeOK
<1>7. QED
  BY <1>1, <1>2, <1>3, <1>4, <1>5, <1>6 DEF ProcStep

LEMMA OkStep ==
    ASSUME TypeOK, RaceSafe, AllOkSeen, [Next]_idVars
    PROVE  AllOkSeen'
<1>1. CASE UNCHANGED idVars
  BY <1>1 DEF idVars, AllOkSeen, OkSeen, ScriptsFor, Agreed, Target
<1>2. ASSUME NEW p \in Procs, ProcStep(p) PROVE AllOkSeen'
  <2> SUFFICES ASSUME NEW d \in Ids, NEW s \in ScriptsFor(d), Agreed(d, s),
                      ~(\E i \in Items : i.id = d), NEW q \in Procs, record'[q][d] = "ok"
               PROVE  content'[d] # {} \/ s = <<>>
    BY DEF AllOkSeen, OkSeen, ScriptsFor, Agreed, Target
  <2>1. RaceInv(d, s) /\ (record[q][d] = "ok" => content[d] # {} \/ s = <<>>)
    BY DEF RaceSafe, AllOkSeen, OkSeen
  <2>2. /\ content[d] # {} => content'[d] # {}
        /\ \A r \in Procs \ {p} : record'[r] = record[r]
        /\ record'[p][d] = "ok" => record[p][d] = "ok" \/ content'[d] # {} \/ s = <<>>
    BY <1>2, <2>1, RecordStep
  <2>3. record[q][d] = "ok" \/ content'[d] # {} \/ s = <<>>
    BY <2>2
  <2>4. QED
    BY <2>1, <2>2, <2>3
<1>3. QED
  BY <1>1, <1>2 DEF Next

\* An id derived from a schema is reported healthy only for a whole database,
\* however many processes and restarts, but for work under way and kills.
(* A derived id is recorded ok only for a database that is whole, unless a *)
(* process is at work on it or a kill cut its creation, for any number of  *)
(* processes, schemas and restarts.                                        *)
THEOREM OkTheorem == Spec => []OkExplained
<1>1. Init => AllOkSeen
  BY DEF Init, AllOkSeen, OkSeen, Healths
<1>2. RaceSafe /\ AllOkSeen => OkExplained
  <2> SUFFICES ASSUME RaceSafe, AllOkSeen,
                      NEW d \in Ids \ cut, NEW s \in ScriptsFor(d), Agreed(d, s),
                      ~(\E i \in Items : i.id = d), ~(\E p \in Procs : Applying(p, d)),
                      NEW p \in Procs, record[p][d] = "ok"
               PROVE  ~Partial(d, s)
    BY DEF OkExplained
  <2>1. RaceInv(d, s) /\ (content[d] # {} \/ s = <<>>)
    BY DEF RaceSafe, AllOkSeen, OkSeen
  <2>2. CASE content[d] # {}
    BY <2>1, <2>2 DEF RaceInv, Writer
  <2>3. CASE content[d] = {} /\ s = <<>>
    BY <2>3 DEF Partial, TablesOf
  <2>4. QED
    BY <2>1, <2>2, <2>3
<1>3. QED
  BY <1>1, <1>2, OkStep, IdentityTypeCorrect, RaceInvariance, PTL DEF Spec
------------------------------------------------------------------------------
\* Every item that leaves unmarked has an id with a known health, whichever
\* way it came through and whatever the other processes do.
(* An item that is not marked as failed has a dbId whose health its        *)
(* process knows.                                                          *)
THEOREM HealthTheorem == Spec => []UnmarkedHasHealth
<1>1. Init => UnmarkedHasHealth
  BY DEF Init, UnmarkedHasHealth
<1>2. TypeOK /\ UnmarkedHasHealth /\ [Next]_idVars => UnmarkedHasHealth'
  <2> SUFFICES ASSUME TypeOK, UnmarkedHasHealth, [Next]_idVars PROVE UnmarkedHasHealth'
    OBVIOUS
  <2>1. CASE UNCHANGED idVars
    BY <2>1 DEF idVars, UnmarkedHasHealth, At
  <2>2. ASSUME NEW p \in Procs, ProcStep(p) PROVE UnmarkedHasHealth'
    <3>1. ASSUME NEW q \in Procs \ {p}
          PROVE  /\ pc'[q] = pc[q] /\ item'[q] = item[q] /\ marked'[q] = marked[q]
                 /\ record'[q] = record[q]
      BY <2>2 DEF ProcStep, TakeHealthy, TakeSchema, TakeNothing, Take, CheckServer,
                  CheckUnparsable, CheckOccupied, CheckEmpty, ApplyStatement, ApplyRefused,
                  ApplyDone, Return, Restart, TypeOK
    <3>2. ASSUME pc'[p] = "idle", item'[p] # None, ~marked'[p]
          PROVE  /\ item'[p].id # None \/ item'[p].schema # None
                 /\ record'[p][At(p)'] # None
      <4>1. CASE \E i \in Items : TakeHealthy(p, i)
        <5>1. PICK i \in Items : TakeHealthy(p, i)
          BY <4>1
        <5>2. item'[p] = i /\ i.id \in Ids /\ record'[p][i.id] = "ok"
          BY <5>1 DEF TakeHealthy, Take, TypeOK
        <5>3. QED
          BY <5>1, <5>2 DEF TakeHealthy, At, Target
      <4>2. CASE \E i \in Items : TakeSchema(p, i) \/ TakeNothing(p, i)
        BY <3>2, <4>2 DEF TakeSchema, TakeNothing, TypeOK
      <4>3. CASE CheckServer(p) \/ Restart(p)
        BY <3>2, <4>3 DEF CheckServer, Restart, TypeOK
      <4>4. CASE CheckEmpty(p) \/ ApplyStatement(p)
        BY <3>2, <4>4 DEF CheckEmpty, ApplyStatement, Running, TypeOK
      <4>5. CASE CheckUnparsable(p) \/ CheckOccupied(p) \/ ApplyRefused(p) \/ ApplyDone(p)
        <5>1. PICK h \in Healths : Return(p, h)
          BY <4>5 DEF CheckUnparsable, CheckOccupied, ApplyRefused, ApplyDone, Healths
        <5>2. pc[p] # "idle"
          BY <4>5 DEF CheckUnparsable, CheckOccupied, Checking, ApplyRefused, Running, ApplyDone
        <5>3. item' = item /\ item[p].schema # None /\ At(p) \in Ids /\ At(p)' = At(p)
          BY <5>1, <5>2, AtType DEF Return, TypeOK, At
        <5>4. record'[p][At(p)] = h /\ h # None
          BY <5>1, <5>3 DEF Return, TypeOK, Healths
        <5>5. QED
          BY <5>3, <5>4
      <4>6. QED
        BY <2>2, <4>1, <4>2, <4>3, <4>4, <4>5 DEF ProcStep
    <3>3. ASSUME NEW q \in Procs, pc'[q] = "idle", item'[q] # None, ~marked'[q]
          PROVE  /\ item'[q].id # None \/ item'[q].schema # None
                 /\ record'[q][At(q)'] # None
      <4>1. CASE q = p
        BY <3>2, <3>3, <4>1
      <4>2. CASE q # p
        <5>1. At(q)' = At(q)
          BY <3>1, <4>2 DEF At
        <5>2. QED
          BY <3>1, <3>3, <4>2, <5>1 DEF UnmarkedHasHealth
      <4>3. QED
        BY <4>1, <4>2
    <3>4. QED
      BY <3>3 DEF UnmarkedHasHealth
  <2>3. QED
    BY <2>1, <2>2 DEF Next
<1>3. QED
  BY <1>1, <1>2, IdentityTypeCorrect, PTL DEF Spec

\* A database that holds something and that nobody is making stays as it is,
\* whichever of the processes takes which item.
(* No step changes a database that holds anything and that nobody is       *)
(* making, nor takes it up again.                                          *)
THEOREM FrozenTheorem == Spec => SettledIsFrozen
<1>1. TypeOK /\ [Next]_idVars =>
        [\A d \in Ids : content[d] # {} /\ ~(\E p \in Procs : Applying(p, d)) =>
           content'[d] = content[d] /\ ~(\E p \in Procs : Applying(p, d)')]_idVars
  <2> SUFFICES ASSUME TypeOK, NEW p \in Procs, ProcStep(p), NEW d \in Ids,
                      content[d] # {}, \A q \in Procs : ~Applying(q, d)
               PROVE  content'[d] = content[d] /\ \A q \in Procs : ~Applying(q, d)'
    BY DEF Next
  <2>1. content'[d] = content[d]
    <3>1. ASSUME ApplyStatement(p) PROVE At(p) # d
      BY <3>1 DEF ApplyStatement, Running, Applying
    <3>2. QED
      BY <3>1 DEF ProcStep, TakeHealthy, TakeSchema, TakeNothing, Take, CheckServer,
                  CheckUnparsable, CheckOccupied, CheckEmpty, ApplyStatement, ApplyRefused,
                  ApplyDone, Return, Restart, TypeOK
  <2>2. ASSUME NEW q \in Procs, pc'[q] = "apply"
        PROVE  item'[q] = item[q] /\ (pc[q] = "apply" \/ (q = p /\ CheckEmpty(p)))
    BY <2>2 DEF ProcStep, TakeHealthy, TakeSchema, TakeNothing, Take, CheckServer,
                CheckUnparsable, CheckOccupied, CheckEmpty, ApplyStatement, ApplyRefused,
                ApplyDone, Return, Restart, TypeOK
  <2>3. ASSUME NEW q \in Procs, Applying(q, d)' PROVE FALSE
    <3>1. pc'[q] = "apply" /\ At(q) = d
      BY <2>2, <2>3 DEF Applying, At
    <3>2. q = p /\ CheckEmpty(p)
      BY <2>2, <3>1 DEF Applying
    <3>3. QED
      BY <3>1, <3>2 DEF CheckEmpty, Occupied
  <2>4. QED
    BY <2>1, <2>3
<1>2. QED
  BY <1>1, IdentityTypeCorrect, PTL DEF Spec, SettledIsFrozen
===============================================================================
