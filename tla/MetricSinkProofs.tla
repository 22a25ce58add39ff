--------------------------- MODULE MetricSinkProofs ---------------------------
(***************************************************************************)
(* Theorems about MetricSink, for every set of tables, batch size and      *)
(* number of events, faults and interrupts.                                *)
(***************************************************************************)
EXTENDS MetricSink, TLAPS, SequenceTheorems

USE SinkAssumption DEF SinkAssumption

\* One step of the thread, named by what it does.
LEMMA StepCases ==
    ASSUME Next
    PROVE  \/ \E t \in Tables : \E e \in EventsOf(t) : WriteLine(t, e)
           \/ \E t \in Tables : \E e \in EventsOf(t) : FaultLine(t, e)
           \/ \E t \in Tables : \E e \in EventsOf(t) : WriteBatch(t, e)
           \/ \E t \in Tables : \E e \in EventsOf(t) : FaultTable(t, e)
           \/ InsertRow \/ RejectRow \/ FaultRow \/ FlushDone
           \/ FlushNext \/ CloseConn \/ StartClose \/ Interrupt
  BY DEF Next, Step

\* Both outcomes of DuckDBMetricsSink.write take one event into its batch.
LEMMA BufferType ==
    ASSUME TypeOK, NEW t \in Tables, NEW e \in Event, Buffer(t, e)
    PROVE  /\ batch' \in [Tables -> Seq(Event)]
           /\ accepted' \in [Tables -> Seq(Event)]
           /\ order' \in Seq(Tables)
           /\ pc' \in {"idle", "insert"}
           /\ cur' \in Tables \union {None}
           /\ pc' = "insert" => cur' \in Tables
           /\ pos' \in Nat \ {0}
           /\ inflight' = None
           /\ UNCHANGED <<jsonl, rows, ci, connOpen, clock, interrupts>>
<1>1. batch' \in [Tables -> Seq(Event)] /\ accepted' \in [Tables -> Seq(Event)]
  <2>1. Append(batch[t], e) \in Seq(Event) /\ Append(accepted[t], e) \in Seq(Event)
    BY AppendProperties DEF TypeOK
  <2>2. QED
    BY <2>1 DEF Buffer, TypeOK
<1>2. order' \in Seq(Tables)
  <2>1. order' = order \/ order' = Append(order, t)
    BY DEF Buffer
  <2>2. order \in Seq(Tables)
    BY DEF TypeOK
  <2>3. Append(order, t) \in Seq(Tables)
    BY <2>2, AppendProperties
  <2>4. QED
    BY <2>1, <2>2, <2>3
<1>3. \/ pc' = "insert" /\ cur' = t /\ pos' = 1
      \/ pc' = "idle" /\ cur' = cur /\ pos' = pos
  BY DEF Buffer, FirstRecord
<1>4. cur \in Tables \union {None} /\ pos \in Nat \ {0}
  BY DEF TypeOK
<1>5. inflight' = None /\ UNCHANGED <<jsonl, rows, ci, connOpen, clock, interrupts>>
  BY DEF Buffer
<1>6. QED
  BY <1>1, <1>2, <1>3, <1>4, <1>5

LEMMA FlushNextTable ==
    ASSUME TypeOK, FlushNext
    PROVE  ci \in 1..Len(order) /\ order[ci] \in Tables
<1>1. order \in Seq(Tables) /\ ci \in Nat /\ ci > 0 /\ ci <= Len(order)
  BY DEF TypeOK, FlushNext, TablesLeft
<1>2. QED
  BY <1>1

LEMMA TypeStep == TypeOK /\ [Next]_sinkVars => TypeOK'
<1> SUFFICES ASSUME TypeOK, [Next]_sinkVars PROVE TypeOK'
  OBVIOUS
<1> USE DEF TypeOK
<1>1. ASSUME NEW t \in Tables, NEW e \in EventsOf(t), WriteLine(t, e) PROVE TypeOK'
  BY <1>1 DEF WriteLine, Hand, EventsOf
<1>2. ASSUME NEW t \in Tables, NEW e \in EventsOf(t), FaultLine(t, e) PROVE TypeOK'
  BY <1>2 DEF FaultLine, Hand, Fault, EventsOf
<1>3. ASSUME NEW t \in Tables, NEW e \in EventsOf(t), WriteBatch(t, e) PROVE TypeOK'
  BY <1>3, BufferType DEF WriteBatch, EventsOf
<1>4. ASSUME NEW t \in Tables, NEW e \in EventsOf(t), FaultTable(t, e) PROVE TypeOK'
  <2>1. faults' \in 0..MaxFaults /\ Buffer(t, e) /\ e \in Event /\ UNCHANGED created
    BY SMTT(30), <1>4 DEF FaultTable, Fault, EventsOf
  <2>2. QED
    BY <2>1, BufferType
<1>5. CASE InsertRow
  BY <1>5 DEF InsertRow, Inserting, Record
<1>6. CASE RejectRow
  BY <1>6 DEF RejectRow, Raise, Unwound
<1>7. CASE FaultRow
  BY <1>7 DEF FaultRow, Fault, Raise, Unwound
<1>8. CASE FlushDone
  BY <1>8 DEF FlushDone
<1>9. CASE FlushNext
  <2>1. order[ci] \in Tables
    BY <1>9, FlushNextTable
  <2>2. \/ ci' = ci + 1 /\ UNCHANGED <<pc, cur, pos>>
        \/ pc' = "insert" /\ cur' = order[ci] /\ pos' = 1 /\ ci' = ci
    BY <1>9 DEF FlushNext, FirstRecord
  <2>3. UNCHANGED <<inflight, jsonl, accepted, created, batch, order, rows,
                    connOpen, clock, faults, interrupts>>
    BY <1>9 DEF FlushNext
  <2>4. CASE ci' = ci + 1 /\ UNCHANGED <<pc, cur, pos>>
    BY <2>3, <2>4
  <2>5. CASE pc' = "insert" /\ cur' = order[ci] /\ pos' = 1 /\ ci' = ci
    <3>1. pc' = "insert" /\ cur' \in Tables /\ pos' = 1 /\ ci' = ci
      BY <2>1, <2>5
    <3>2. QED
      BY <2>3, <3>1
  <2>6. QED
    BY <2>2, <2>4, <2>5
<1>10. CASE CloseConn
  BY <1>10 DEF CloseConn
<1>11. CASE StartClose
  BY <1>11 DEF StartClose
<1>12. CASE Interrupt
  BY <1>12 DEF Interrupt
<1>13. CASE UNCHANGED sinkVars
  BY <1>13 DEF sinkVars
<1>14. QED
  BY <1>1, <1>2, <1>3, <1>4, <1>5, <1>6, <1>7, <1>8, <1>9, <1>10, <1>11,
     <1>12, <1>13, StepCases

\* The variables keep to their types.
(* Every variable of the sinks keeps to its type.                          *)
THEOREM TypeCorrect == Spec => []TypeOK
<1>1. Init => TypeOK
  BY DEF Init, TypeOK
<1>2. QED
  BY <1>1, TypeStep, PTL DEF Spec
------------------------------------------------------------------------------
\* What DuckDBMetricsSink.write does to the tails and prefixes of BatchInv.
LEMMA BufferGrows ==
    ASSUME TypeOK, NEW t \in Tables, NEW e \in Event, Buffer(t, e), NEW u \in Tables
    PROVE  /\ Held(u)' = Held(u)
           /\ Held(u) \in Int
           /\ Len(accepted[u]) <= Len(accepted'[u])
           /\ \A i \in 1..Len(accepted[u]) : accepted'[u][i] = accepted[u][i]
           /\ Len(batch[u]) <= Len(batch'[u])
           /\ \A i \in 1..Len(batch[u]) : batch'[u][i] = batch[u][i]
           /\ Aligned(u) => Aligned(u)'
<1>1. /\ batch \in [Tables -> Seq(Event)] /\ accepted \in [Tables -> Seq(Event)]
      /\ batch' = [batch EXCEPT ![t] = Append(@, e)]
      /\ accepted' = [accepted EXCEPT ![t] = Append(@, e)]
  BY DEF TypeOK, Buffer
<1>2. /\ Len(batch[u]) \in Nat /\ Len(accepted[u]) \in Nat
      /\ Held(u) \in Int /\ Held(u) + Len(batch[u]) = Len(accepted[u])
  BY <1>1 DEF Held
<1>3. CASE u # t
  <2>1. batch'[u] = batch[u] /\ accepted'[u] = accepted[u]
    BY <1>1, <1>3
  <2>2. Held(u)' = Held(u)
    BY <2>1 DEF Held
  <2>3. Aligned(u) => Aligned(u)'
    BY <2>1, <2>2 DEF Aligned
  <2>4. QED
    BY <1>2, <2>1, <2>2, <2>3
<1>4. CASE u = t
  <2>1. /\ batch[u] \in Seq(Event) /\ accepted[u] \in Seq(Event)
        /\ batch'[u] = Append(batch[u], e) /\ accepted'[u] = Append(accepted[u], e)
    BY <1>1, <1>4
  <2>2. Len(batch'[u]) = Len(batch[u]) + 1 /\ Len(accepted'[u]) = Len(accepted[u]) + 1
    BY <2>1
  <2>3. /\ \A i \in 1..Len(batch[u]) : batch'[u][i] = batch[u][i]
        /\ \A i \in 1..Len(accepted[u]) : accepted'[u][i] = accepted[u][i]
        /\ batch'[u][Len(batch[u]) + 1] = e
        /\ accepted'[u][Len(accepted[u]) + 1] = e
    BY <2>1
  <2>4. Held(u)' = Held(u)
    BY <1>2, <2>2 DEF Held
  <2>5. ASSUME Aligned(u), NEW i \in 1..Len(batch'[u])
        PROVE  batch'[u][i] = accepted'[u][Held(u)' + i]
    <3>1. CASE i \in 1..Len(batch[u])
      <4>1. Len(batch[u]) <= Len(accepted[u]) /\ batch[u][i] = accepted[u][Held(u) + i]
        BY <2>5, <3>1 DEF Aligned
      <4>2. Held(u) + i \in 1..Len(accepted[u])
        BY <1>2, <3>1, <4>1
      <4>3. QED
        BY <2>3, <2>4, <3>1, <4>1, <4>2
    <3>2. CASE i = Len(batch[u]) + 1
      <4>1. Held(u)' + i = Len(accepted[u]) + 1
        BY <1>2, <2>4, <3>2
      <4>2. QED
        BY <2>3, <3>2, <4>1
    <3>3. QED
      BY <1>2, <2>2, <3>1, <3>2
  <2>6. Aligned(u) => Aligned(u)'
    BY <1>2, <2>2, <2>5 DEF Aligned
  <2>7. QED
    BY <1>2, <2>2, <2>3, <2>4, <2>6
<1>5. QED
  BY <1>3, <1>4
------------------------------------------------------------------------------
LEMMA LenTypes ==
    ASSUME TypeOK, NEW t \in Tables
    PROVE  /\ batch[t] \in Seq(Event) /\ accepted[t] \in Seq(Event) /\ rows[t] \in Seq(Event)
           /\ Len(batch[t]) \in Nat /\ Len(accepted[t]) \in Nat /\ Len(rows[t]) \in Nat
           /\ Held(t) \in Int /\ Held(t) + Len(batch[t]) = Len(accepted[t])
  BY DEF TypeOK, Held

\* A step that touches neither batches nor rows and starts no flush halfway.
LEMMA QuietStep ==
    ASSUME TypeOK, BatchInv, UNCHANGED <<accepted, batch, rows>>,
           pc' = "insert" => (cur' \in Tables /\ pos' = 1) \/ UNCHANGED <<pc, cur, pos>>
    PROVE  BatchInv'
<1>1. \A t \in Tables : Held(t)' = Held(t)
  BY DEF Held
<1>2. \A t \in Tables : Aligned(t)'
  BY <1>1 DEF BatchInv, Aligned
<1>3. \A t \in Keyed : IsPrefixOfAccepted(t)'
  BY <1>1 DEF BatchInv, IsPrefixOfAccepted
<1>4. FlushProgress'
  <2> SUFFICES ASSUME pc' = "insert"
               PROVE  /\ pos' <= Len(batch'[cur']) + 1
                      /\ cur' \in Keyed => pos' = 1 \/ Held(cur)' + pos' = Len(rows'[cur']) + 1
    BY DEF FlushProgress
  <2>1. CASE cur' \in Tables /\ pos' = 1
    <3>1. Len(batch'[cur']) \in Nat
      BY <2>1, LenTypes
    <3>2. QED
      BY <2>1, <3>1
  <2>2. CASE UNCHANGED <<pc, cur, pos>>
    <3>1. Held(cur)' = Held(cur)
      BY <2>2 DEF Held
    <3>2. QED
      BY <2>2, <3>1 DEF BatchInv, FlushProgress
  <2>3. QED
    BY <2>1, <2>2
<1>5. QED
  BY <1>2, <1>3, <1>4 DEF BatchInv

LEMMA BufferKeepsBatchInv ==
    ASSUME TypeOK, BatchInv, NEW t \in Tables, NEW e \in Event, Buffer(t, e)
    PROVE  BatchInv'
<1>1. \A u \in Tables : Aligned(u)'
  BY BufferGrows DEF BatchInv
<1>2. ASSUME NEW u \in Keyed PROVE IsPrefixOfAccepted(u)'
  <2>1. /\ Held(u)' = Held(u) /\ rows'[u] = rows[u]
        /\ Len(accepted[u]) <= Len(accepted'[u])
        /\ \A i \in 1..Len(accepted[u]) : accepted'[u][i] = accepted[u][i]
    BY BufferGrows DEF Buffer
  <2>2. Len(accepted[u]) \in Nat /\ Len(rows[u]) \in Nat
    BY LenTypes
  <2>3. Len(accepted'[u]) \in Nat
    BY BufferType
  <2>4. IsPrefixOfAccepted(u)
    BY DEF BatchInv
  <2>5. QED
    BY <2>1, <2>2, <2>3, <2>4 DEF IsPrefixOfAccepted
<1>3. FlushProgress'
  <2>1. ASSUME pc' = "insert" PROVE cur' = t /\ pos' = 1
    BY <2>1 DEF Buffer, FirstRecord
  <2>2. Len(batch'[t]) \in Nat
    BY BufferType
  <2>3. QED
    BY <2>1, <2>2 DEF FlushProgress
<1>4. QED
  BY <1>1, <1>2, <1>3 DEF BatchInv

\* A row that goes in is the event after the table's last row: were the flush
\* back at the first record with rows of the batch stored, the primary key
\* would refuse it.
LEMMA InsertRowExtends ==
    ASSUME TypeOK, BatchInv, InsertRow, cur \in Keyed
    PROVE  /\ Held(cur) + pos = Len(rows[cur]) + 1
           /\ Len(rows[cur]) < Len(accepted[cur])
           /\ Record = accepted[cur][Len(rows[cur]) + 1]
<1>1. /\ pos \in 1..Len(batch[cur]) /\ pos \in Nat
      /\ batch[cur][pos] = accepted[cur][Held(cur) + pos]
  <2>1. pos \in Nat \ {0} /\ pos <= Len(batch[cur]) /\ cur \in Tables
    BY DEF InsertRow, Inserting, TypeOK
  <2>2. Len(batch[cur]) \in Nat
    BY <2>1, LenTypes
  <2>3. pos \in 1..Len(batch[cur]) /\ pos \in Nat
    BY <2>1, <2>2
  <2>4. Aligned(cur)
    BY <2>1 DEF BatchInv
  <2>5. QED
    BY <2>3, <2>4 DEF Aligned
<1>2. \A i \in 1..Len(rows[cur]) : rows[cur][i] # batch[cur][pos]
  BY LenTypes DEF InsertRow, Insertable, Record
<1>3. /\ Held(cur) <= Len(rows[cur])
      /\ \A i \in 1..Len(rows[cur]) : rows[cur][i] = accepted[cur][i]
  BY DEF BatchInv, IsPrefixOfAccepted
<1>4. /\ Len(batch[cur]) \in Nat /\ Len(accepted[cur]) \in Nat /\ Len(rows[cur]) \in Nat
      /\ Held(cur) \in Int /\ Held(cur) + Len(batch[cur]) = Len(accepted[cur])
  BY LenTypes
<1>5. Len(batch[cur]) <= Len(accepted[cur])
  BY DEF BatchInv, Aligned
<1>6. Held(cur) + pos = Len(rows[cur]) + 1
  <2>1. pos = 1 \/ Held(cur) + pos = Len(rows[cur]) + 1
    BY DEF InsertRow, Inserting, BatchInv, FlushProgress
  <2>2. ASSUME pos = 1, Held(cur) < Len(rows[cur]) PROVE FALSE
    <3>1. Held(cur) + pos \in 1..Len(rows[cur])
      BY <1>4, <1>5, <2>2
    <3>2. QED
      BY <1>1, <1>2, <1>3, <3>1
  <2>3. QED
    BY <1>3, <1>4, <2>1, <2>2
<1>7. QED
  BY <1>1, <1>4, <1>6 DEF Record

LEMMA InsertRowKeepsBatchInv ==
    ASSUME TypeOK, BatchInv, InsertRow
    PROVE  BatchInv'
<1>1. /\ cur \in Tables /\ pos \in Nat \ {0} /\ pos <= Len(batch[cur])
      /\ rows \in [Tables -> Seq(Event)]
      /\ rows' = [rows EXCEPT ![cur] = Append(@, Record)]
      /\ pos' = pos + 1
      /\ UNCHANGED <<accepted, batch, cur>>
  BY DEF TypeOK, InsertRow, Inserting
<1>2. \A t \in Tables : Held(t)' = Held(t)
  BY <1>1 DEF Held
<1>3. \A t \in Tables : Aligned(t)'
  BY <1>1, <1>2 DEF BatchInv, Aligned
<1>4. /\ Len(rows'[cur]) = Len(rows[cur]) + 1
      /\ \A i \in 1..Len(rows[cur]) : rows'[cur][i] = rows[cur][i]
      /\ rows'[cur][Len(rows[cur]) + 1] = Record
  BY <1>1, LenTypes
<1>5. ASSUME NEW t \in Keyed PROVE IsPrefixOfAccepted(t)'
  <2>1. IsPrefixOfAccepted(t) /\ Held(t)' = Held(t)
    BY <1>2 DEF BatchInv
  <2>2. CASE t # cur
    <3>1. rows'[t] = rows[t]
      BY <1>1, <2>2
    <3>2. QED
      BY <1>1, <2>1, <3>1 DEF IsPrefixOfAccepted
  <2>3. CASE t = cur
    <3>1. Len(rows[t]) < Len(accepted[t]) /\ Record = accepted[t][Len(rows[t]) + 1]
      BY <2>3, InsertRowExtends
    <3>2. Len(rows[t]) \in Nat /\ Len(accepted[t]) \in Nat /\ Held(t) \in Int
      BY LenTypes
    <3>3. ASSUME NEW i \in 1..Len(rows'[t]) PROVE rows'[t][i] = accepted'[t][i]
      <4>1. i \in 1..Len(rows[t]) \/ i = Len(rows[t]) + 1
        BY <1>4, <2>3, <3>2
      <4>2. QED
        BY <1>1, <1>4, <2>1, <2>3, <3>1, <4>1 DEF IsPrefixOfAccepted
    <3>4. Held(t)' <= Len(rows'[t]) /\ Len(rows'[t]) <= Len(accepted'[t])
      BY <1>1, <1>4, <2>1, <2>3, <3>1, <3>2 DEF IsPrefixOfAccepted
    <3>5. QED
      BY <3>3, <3>4 DEF IsPrefixOfAccepted
  <2>4. QED
    BY <2>2, <2>3
<1>6. FlushProgress'
  <2>1. Len(batch[cur]) \in Nat /\ Len(rows[cur]) \in Nat /\ Held(cur) \in Int
    BY <1>1, LenTypes
  <2>2. pos' <= Len(batch'[cur']) + 1
    BY <1>1, <2>1
  <2>3. cur' \in Keyed => Held(cur)' + pos' = Len(rows'[cur']) + 1
    BY <1>1, <1>2, <1>4, <2>1, InsertRowExtends
  <2>4. QED
    BY <1>1, <2>2, <2>3 DEF FlushProgress
<1>7. QED
  BY <1>3, <1>5, <1>6 DEF BatchInv

LEMMA FlushDoneKeepsBatchInv ==
    ASSUME TypeOK, BatchInv, FlushDone
    PROVE  BatchInv'
<1>1. /\ cur \in Tables /\ pos \in Nat \ {0} /\ pos > Len(batch[cur])
      /\ batch \in [Tables -> Seq(Event)]
      /\ batch' = [batch EXCEPT ![cur] = <<>>]
      /\ pc' # "insert"
      /\ UNCHANGED <<accepted, rows, cur>>
  BY DEF TypeOK, FlushDone
<1>2. \A t \in Tables : t # cur => batch'[t] = batch[t] /\ Held(t)' = Held(t)
  BY <1>1 DEF Held
<1>3. batch'[cur] = <<>> /\ Held(cur)' = Len(accepted[cur])
  BY <1>1, LenTypes DEF Held
<1>4. ASSUME NEW t \in Tables PROVE Aligned(t)'
  <2>1. CASE t # cur
    BY <1>1, <1>2, <2>1 DEF BatchInv, Aligned
  <2>2. CASE t = cur
    BY <1>1, <1>3, <2>2, LenTypes DEF Aligned
  <2>3. QED
    BY <2>1, <2>2
<1>5. ASSUME NEW t \in Keyed PROVE IsPrefixOfAccepted(t)'
  <2>1. IsPrefixOfAccepted(t)
    BY DEF BatchInv
  <2>2. CASE t # cur
    BY <1>1, <1>2, <2>1, <2>2 DEF IsPrefixOfAccepted
  <2>3. CASE t = cur
    <3>1. /\ Len(batch[t]) \in Nat /\ Len(rows[t]) \in Nat /\ Held(t) \in Int
          /\ Held(t) + Len(batch[t]) = Len(accepted[t])
      BY LenTypes
    <3>2. pos <= Len(batch[t]) + 1 /\ (pos = 1 \/ Held(t) + pos = Len(rows[t]) + 1)
      BY <2>3 DEF FlushDone, BatchInv, FlushProgress
    <3>3. Len(accepted[t]) <= Len(rows[t])
      BY <1>1, <2>1, <2>3, <3>1, <3>2 DEF IsPrefixOfAccepted
    <3>4. QED
      BY <1>1, <1>3, <2>1, <2>3, <3>3 DEF IsPrefixOfAccepted
  <2>4. QED
    BY <2>2, <2>3
<1>6. FlushProgress'
  BY <1>1 DEF FlushProgress
<1>7. QED
  BY <1>4, <1>5, <1>6 DEF BatchInv

LEMMA InitBatchInv == Init => BatchInv
<1> SUFFICES ASSUME Init PROVE BatchInv
  OBVIOUS
<1>1. \A t \in Tables : Len(accepted[t]) = 0 /\ Len(batch[t]) = 0 /\ Len(rows[t]) = 0
  <2>1. \A t \in Tables : accepted[t] = <<>> /\ batch[t] = <<>> /\ rows[t] = <<>>
    BY DEF Init
  <2>2. Len(<<>>) = 0
    BY EmptySeq
  <2>3. QED
    BY <2>1, <2>2
<1>2. ASSUME NEW t \in Tables PROVE Held(t) = 0
  BY <1>1 DEF Held
<1>3. ASSUME NEW t \in Tables PROVE Aligned(t)
  <2>1. Len(accepted[t]) = 0 /\ Len(batch[t]) = 0
    BY <1>1
  <2>2. QED
    BY <2>1 DEF Aligned
<1>4. ASSUME NEW t \in Keyed PROVE IsPrefixOfAccepted(t)
  <2>1. Len(accepted[t]) = 0 /\ Len(rows[t]) = 0 /\ Held(t) = 0
    BY <1>1, <1>2
  <2>2. QED
    BY <2>1 DEF IsPrefixOfAccepted
<1>5. FlushProgress
  <2>1. pc = "idle"
    BY DEF Init
  <2>2. QED
    BY <2>1 DEF FlushProgress
<1>6. QED
  BY <1>3, <1>4, <1>5 DEF BatchInv

LEMMA NextBatchInv == TypeOK /\ BatchInv /\ [Next]_sinkVars => BatchInv'
<1> SUFFICES ASSUME TypeOK, BatchInv, [Next]_sinkVars PROVE BatchInv'
  OBVIOUS
<1>1. ASSUME NEW t \in Tables, NEW e \in EventsOf(t), WriteLine(t, e) \/ FaultLine(t, e)
      PROVE  BatchInv'
  <2>1. pc' = "between" /\ UNCHANGED <<accepted, batch, rows>>
    BY <1>1 DEF WriteLine, FaultLine, Hand
  <2>2. QED
    BY <2>1, QuietStep
<1>2. ASSUME NEW t \in Tables, NEW e \in EventsOf(t), WriteBatch(t, e) \/ FaultTable(t, e)
      PROVE  BatchInv'
  BY <1>2, BufferKeepsBatchInv DEF WriteBatch, FaultTable, EventsOf
<1>3. CASE InsertRow
  BY <1>3, InsertRowKeepsBatchInv
<1>4. CASE RejectRow \/ FaultRow
  <2>1. pc' # "insert" /\ UNCHANGED <<accepted, batch, rows>>
    BY <1>4 DEF RejectRow, FaultRow, Raise, Unwound
  <2>2. QED
    BY <2>1, QuietStep
<1>5. CASE FlushDone
  BY <1>5, FlushDoneKeepsBatchInv
<1>6. CASE FlushNext
  <2>1. UNCHANGED <<accepted, batch, rows>>
    BY <1>6 DEF FlushNext
  <2>2. pc' = "insert" => cur' \in Tables /\ pos' = 1
    <3>1. order[ci] \in Tables
      BY <1>6, FlushNextTable
    <3>2. \/ pc' = pc /\ pc = "close"
          \/ cur' = order[ci] /\ pos' = 1
      BY <1>6 DEF FlushNext, FirstRecord
    <3>3. pc' = pc /\ pc = "close" => pc' # "insert"
      OBVIOUS
    <3>4. QED
      BY <3>1, <3>2, <3>3, Zenon
  <2>3. QED
    BY <2>1, <2>2, QuietStep
<1>7. CASE CloseConn \/ StartClose
  <2>1. pc' # "insert" /\ UNCHANGED <<accepted, batch, rows>>
    BY <1>7 DEF CloseConn, StartClose
  <2>2. QED
    BY <2>1, QuietStep
<1>8. CASE Interrupt
  <2>1. pc' # "insert" /\ UNCHANGED <<accepted, batch, rows>>
    BY <1>8 DEF Interrupt
  <2>2. QED
    BY <2>1, QuietStep
<1>9. CASE UNCHANGED sinkVars
  BY <1>9, QuietStep DEF sinkVars
<1>10. QED
  BY <1>1, <1>2, <1>3, <1>4, <1>5, <1>6, <1>7, <1>8, <1>9, StepCases

(* A batch is the tail of what was accepted and a keyed table's rows end   *)
(* inside it: the inductive core.                                          *)
THEOREM BatchInvariance == Spec => []BatchInv
<1>1. QED
  BY InitBatchInv, NextBatchInv, TypeCorrect, PTL DEF Spec

\* For every batch size, every set of tables and every run of failing calls and
\* interrupts, the rows of a table with a primary key are a prefix of the events
\* its batch took: no gap, no duplicate, no reordering.
(* The rows of a keyed table are a gap-free, duplicate-free prefix of the  *)
(* events its batch took, for every batch size and any number of failures  *)
(* and interrupts.                                                         *)
THEOREM PrefixTheorem == Spec => []KeyedRowsArePrefix
<1>1. BatchInv => KeyedRowsArePrefix
  BY DEF BatchInv, IsPrefixOfAccepted, KeyedRowsArePrefix
<1>2. QED
  BY <1>1, BatchInvariance, PTL
------------------------------------------------------------------------------
(* What has left a batch is stored.                                        *)

\* What one step may do to rows: nothing, or append the record at pos.
LEMMA RowsGrow ==
    ASSUME TypeOK, [Next]_sinkVars, NEW t \in Tables
    PROVE  \/ rows'[t] = rows[t]
           \/ /\ InsertRow /\ t = cur
              /\ Len(rows'[t]) = Len(rows[t]) + 1
              /\ rows'[t][Len(rows[t]) + 1] = Record
              /\ \A i \in 1..Len(rows[t]) : rows'[t][i] = rows[t][i]
<1>1. CASE InsertRow
  <2>1. rows \in [Tables -> Seq(Event)] /\ rows' = [rows EXCEPT ![cur] = Append(@, Record)]
    BY <1>1 DEF TypeOK, InsertRow
  <2>2. CASE t = cur
    <3>1. rows[t] \in Seq(Event) /\ rows'[t] = Append(rows[t], Record)
      BY <2>1, <2>2
    <3>2. QED
      BY <1>1, <2>2, <3>1
  <2>3. CASE t # cur
    BY <2>1, <2>3
  <2>4. QED
    BY <2>2, <2>3
<1>2. CASE ~InsertRow
  <2>1. rows' = rows
    BY <1>2, StepCases DEF WriteLine, FaultLine, Hand, WriteBatch, FaultTable, Buffer,
       RejectRow, FaultRow, Raise, FlushDone, FlushNext, CloseConn, StartClose, Interrupt, sinkVars
  <2>2. QED
    BY <2>1
<1>3. QED
  BY <1>1, <1>2

LEMMA HasLasts ==
    ASSUME TypeOK, [Next]_sinkVars, NEW t \in Tables, NEW e, Has(t, e)
    PROVE  Has(t, e)'
<1>1. PICK i \in 1..Len(rows[t]) : rows[t][i] = e
  BY LenTypes DEF Has
<1>2. rows[t] \in Seq(Event) /\ rows'[t] \in Seq(Event)
  <2>1. TypeOK'
    BY TypeStep
  <2>2. QED
    BY <2>1 DEF TypeOK
<1>3. i \in 1..Len(rows'[t]) /\ rows'[t][i] = e
  BY <1>1, <1>2, RowsGrow
<1>4. QED
  BY <1>2, <1>3 DEF Has

\* A step that leaves the batches, and what was accepted, alone.
LEMMA QuietStored ==
    ASSUME TypeOK, StoredInv, [Next]_sinkVars, UNCHANGED <<accepted, batch>>,
           pc' = "insert" => pos' = 1 \/ UNCHANGED <<pc, cur, pos>>
    PROVE  StoredInv'
<1>1. ASSUME NEW t \in Tables, NEW i \in 1..Held(t)' PROVE Has(t, accepted[t][i])'
  <2>1. Held(t)' = Held(t)
    BY DEF Held
  <2>2. Has(t, accepted[t][i])
    BY <1>1, <2>1 DEF StoredInv
  <2>3. QED
    BY <2>2, HasLasts
<1>2. ASSUME pc' = "insert", NEW i \in 1..(pos' - 1) PROVE Has(cur, batch[cur][i])'
  <2>1. UNCHANGED <<pc, cur, pos>>
    BY <1>2
  <2>2. cur \in Tables /\ Has(cur, batch[cur][i])
    BY <1>2, <2>1 DEF TypeOK, StoredInv
  <2>3. QED
    BY <2>1, <2>2, HasLasts
<1>3. QED
  BY <1>1, <1>2 DEF StoredInv

LEMMA BufferStored ==
    ASSUME TypeOK, StoredInv, [Next]_sinkVars,
           NEW t \in Tables, NEW e \in Event, Buffer(t, e)
    PROVE  StoredInv'
<1>1. ASSUME NEW u \in Tables, NEW i \in 1..Held(u)' PROVE Has(u, accepted[u][i])'
  <2>1. /\ Held(u)' = Held(u) /\ Held(u) \in Int
        /\ \A j \in 1..Len(accepted[u]) : accepted'[u][j] = accepted[u][j]
    BY BufferGrows
  <2>2. Len(batch[u]) \in Nat /\ Len(accepted[u]) \in Nat /\ Held(u) + Len(batch[u]) = Len(accepted[u])
    BY LenTypes
  <2>3. i \in 1..Held(u) /\ i \in 1..Len(accepted[u])
    BY <1>1, <2>1, <2>2
  <2>4. Has(u, accepted[u][i]) /\ accepted'[u][i] = accepted[u][i]
    BY <2>1, <2>3 DEF StoredInv
  <2>5. QED
    BY <2>4, HasLasts DEF Has
<1>2. pc' = "insert" => pos' = 1
  BY DEF Buffer, FirstRecord
<1>3. QED
  BY <1>1, <1>2 DEF StoredInv

LEMMA InsertStored ==
    ASSUME TypeOK, StoredInv, InsertRow
    PROVE  StoredInv'
<1>1. /\ UNCHANGED <<accepted, batch, pc, cur>> /\ pos' = pos + 1 /\ pos \in Nat \ {0}
      /\ cur \in Tables /\ pc = "insert"
  BY DEF InsertRow, Inserting, TypeOK
<1>2. [Next]_sinkVars
  BY DEF Next, Step
<1>3. \E k \in DOMAIN rows'[cur] : rows'[cur][k] = batch[cur][pos]
  <2>1. /\ rows[cur] \in Seq(Event) /\ rows' = [rows EXCEPT ![cur] = Append(@, Record)]
        /\ rows \in [Tables -> Seq(Event)]
    BY <1>1 DEF InsertRow, TypeOK
  <2>2. rows'[cur] = Append(rows[cur], Record)
    BY <1>1, <2>1
  <2>3. /\ Len(rows[cur]) + 1 \in DOMAIN rows'[cur]
        /\ rows'[cur][Len(rows[cur]) + 1] = batch[cur][pos]
    BY <2>1, <2>2 DEF Record
  <2>4. QED
    BY <2>3
<1>4. ASSUME NEW t \in Tables, NEW i \in 1..Held(t)' PROVE Has(t, accepted[t][i])'
  <2>1. Held(t)' = Held(t)
    BY <1>1 DEF Held
  <2>2. Has(t, accepted[t][i])
    BY <1>4, <2>1 DEF StoredInv
  <2>3. QED
    BY <1>1, <1>2, <2>2, HasLasts
<1>5. ASSUME NEW i \in 1..(pos' - 1) PROVE Has(cur, batch[cur][i])'
  <2>1. CASE i = pos
    BY <1>1, <1>3, <2>1 DEF Has
  <2>2. CASE i # pos
    <3>1. i \in 1..(pos - 1)
      BY <1>1, <1>5, <2>2
    <3>2. Has(cur, batch[cur][i])
      BY <1>1, <3>1 DEF StoredInv
    <3>3. QED
      BY <1>1, <1>2, <3>2, HasLasts
  <2>3. QED
    BY <2>1, <2>2
<1>6. QED
  BY <1>4, <1>5 DEF StoredInv

\* A flush that reached the end of its batch has stored all of it.
LEMMA DoneStored ==
    ASSUME TypeOK, BatchInv, StoredInv, FlushDone
    PROVE  StoredInv'
<1>1. /\ cur \in Tables /\ pc = "insert" /\ pos \in Nat \ {0} /\ pos > Len(batch[cur])
      /\ batch \in [Tables -> Seq(Event)] /\ batch' = [batch EXCEPT ![cur] = <<>>]
      /\ pc' # "insert" /\ UNCHANGED <<accepted, rows, cur>>
  BY DEF TypeOK, FlushDone
<1>2. ASSUME NEW t \in Tables, NEW i \in 1..Held(t)' PROVE Has(t, accepted[t][i])
  <2>1. CASE i \in 1..Held(t)
    BY <2>1 DEF StoredInv
  <2>2. CASE i \notin 1..Held(t)
    <3>1. t = cur
      <4>1. t # cur => batch'[t] = batch[t] /\ accepted'[t] = accepted[t]
        BY <1>1
      <4>2. t # cur => Held(t)' = Held(t)
        BY <4>1 DEF Held
      <4>3. QED
        BY <1>2, <2>2, <4>2
    <3>2. Len(batch'[t]) = 0 /\ accepted'[t] = accepted[t]
      BY <1>1, <3>1
    <3>3. /\ Len(batch[t]) \in Nat /\ Len(accepted[t]) \in Nat /\ Held(t) \in Int
          /\ Held(t) + Len(batch[t]) = Len(accepted[t])
      BY LenTypes
    <3>4. Held(t)' = Len(accepted[t])
      BY <3>2, <3>3 DEF Held
    <3>5. i - Held(t) \in 1..Len(batch[t]) /\ i - Held(t) \in 1..(pos - 1)
      BY <1>1, <1>2, <2>2, <3>1, <3>3, <3>4
    <3>6. batch[t][i - Held(t)] = accepted[t][Held(t) + (i - Held(t))]
      BY <3>5 DEF BatchInv, Aligned
    <3>7. Has(cur, batch[cur][i - Held(t)])
      BY <1>1, <3>5 DEF StoredInv
    <3>8. Held(t) + (i - Held(t)) = i
      BY <3>3
    <3>9. QED
      BY <3>1, <3>6, <3>7, <3>8
  <2>3. QED
    BY <2>1, <2>2
<1>3. QED
  BY <1>1, <1>2 DEF StoredInv, Has

LEMMA NextStored == TypeOK /\ BatchInv /\ StoredInv /\ [Next]_sinkVars => StoredInv'
<1> SUFFICES ASSUME TypeOK, BatchInv, StoredInv, [Next]_sinkVars PROVE StoredInv'
  OBVIOUS
<1>1. ASSUME NEW t \in Tables, NEW e \in EventsOf(t), WriteBatch(t, e) \/ FaultTable(t, e)
      PROVE  StoredInv'
  BY <1>1, BufferStored DEF WriteBatch, FaultTable, EventsOf
<1>2. CASE InsertRow
  BY <1>2, InsertStored
<1>3. CASE FlushDone
  BY <1>3, DoneStored
<1>4. CASE FlushNext
  BY <1>4, QuietStored DEF FlushNext, FirstRecord
<1>5. CASE \/ \E t \in Tables : \E e \in EventsOf(t) : WriteLine(t, e) \/ FaultLine(t, e)
           \/ RejectRow \/ FaultRow \/ CloseConn \/ StartClose \/ Interrupt
  <2>1. pc' # "insert" /\ UNCHANGED <<accepted, batch>>
    BY <1>5 DEF WriteLine, FaultLine, Hand, RejectRow, FaultRow, Raise, Unwound, CloseConn,
                StartClose, Interrupt
  <2>2. QED
    BY <2>1, QuietStored
<1>6. CASE UNCHANGED sinkVars
  BY <1>6, QuietStored DEF sinkVars
<1>7. QED
  BY <1>1, <1>2, <1>3, <1>4, <1>5, <1>6, StepCases

(* Whatever has left a batch is stored, whatever failed on the way.        *)
THEOREM StoredInvariance == Spec => []StoredInv
<1>1. Init => StoredInv
  <2> SUFFICES ASSUME Init PROVE StoredInv
    OBVIOUS
  <2>1. \A t \in Tables : Len(accepted[t]) = 0 /\ Len(batch[t]) = 0
    BY EmptySeq DEF Init
  <2>2. ASSUME NEW t \in Tables PROVE Held(t) = 0
    BY <2>1 DEF Held
  <2>3. QED
    BY <2>2 DEF StoredInv, Init
<1>2. QED
  BY <1>1, NextStored, TypeCorrect, BatchInvariance, PTL DEF Spec
------------------------------------------------------------------------------
(* The order in which close() empties the batches.                         *)

\* A step that leaves batch and order alone.
LEMMA QuietClose ==
    ASSUME TypeOK, CloseInv, UNCHANGED <<batch, order, connOpen>>, connOpen,
           pc' \in {"idle", "between"} => ci' = 0,
           pc' \in {"insert", "close"} =>
               \A i \in 1..Len(order) : i < ci' => batch[order[i]] = <<>>
    PROVE  CloseInv'
  BY DEF CloseInv

LEMMA BufferClose ==
    ASSUME TypeOK, CloseInv, NEW t \in Tables, NEW e \in Event, Buffer(t, e), pc = "between"
    PROVE  CloseInv'
<1>1. /\ ci = 0 /\ ci' = 0 /\ connOpen /\ connOpen'
      /\ batch \in [Tables -> Seq(Event)] /\ batch' = [batch EXCEPT ![t] = Append(@, e)]
      /\ order \in Seq(Tables) /\ (order' = order \/ order' = Append(order, t))
      /\ (\E i \in DOMAIN order : order[i] = t) \/ order' = Append(order, t)
  BY DEF TypeOK, CloseInv, Buffer
<1>2. order' \in Seq(Tables) /\ \A i \in 1..Len(order) : i \in 1..Len(order') /\ order'[i] = order[i]
  <2>1. CASE order' = Append(order, t)
    BY <1>1, <2>1, AppendProperties
  <2>2. QED
    BY <1>1, <2>1
<1>3. \E i \in 1..Len(order') : order'[i] = t
  <2>1. CASE \E i \in DOMAIN order : order[i] = t
    BY <1>1, <1>2, <2>1
  <2>2. CASE order' = Append(order, t)
    <3>1. Len(order') = Len(order) + 1 /\ order'[Len(order) + 1] = t /\ Len(order) \in Nat
      BY <1>1, <2>2
    <3>2. QED
      BY <3>1
  <2>3. QED
    BY <1>1, <2>1, <2>2
<1>4. ASSUME NEW u \in Tables, batch'[u] # <<>> PROVE \E i \in 1..Len(order') : order'[i] = u
  <2>1. CASE u = t
    BY <1>3, <2>1
  <2>2. CASE u # t
    <3>1. batch[u] # <<>>
      BY <1>1, <1>4, <2>2
    <3>2. QED
      BY <1>2, <3>1 DEF CloseInv
  <2>3. QED
    BY <2>1, <2>2
<1>5. \A i \in 1..Len(order') : ~(i < ci')
  BY <1>1
<1>6. QED
  BY <1>1, <1>4, <1>5 DEF CloseInv

LEMMA DoneClose ==
    ASSUME TypeOK, CloseInv, FlushDone
    PROVE  CloseInv'
<1>1. /\ pc = "insert" /\ cur \in Tables /\ batch \in [Tables -> Seq(Event)]
      /\ batch' = [batch EXCEPT ![cur] = <<>>] /\ UNCHANGED <<order, ci, connOpen>>
      /\ order \in Seq(Tables)
      /\ pc' = IF ci = 0 THEN "idle" ELSE "close"
  BY DEF TypeOK, FlushDone
<1>2. \A u \in Tables : batch'[u] = <<>> \/ batch'[u] = batch[u]
  BY <1>1
<1>3. connOpen
  BY <1>1 DEF CloseInv
<1>4. ASSUME NEW i \in 1..Len(order), i < ci PROVE batch'[order[i]] = <<>>
  <2>1. order[i] \in Tables /\ batch[order[i]] = <<>>
    BY <1>1, <1>4 DEF CloseInv
  <2>2. QED
    BY <1>2, <2>1
<1>5. \A u \in Tables : batch'[u] # <<>> => \E i \in 1..Len(order) : order[i] = u
  BY <1>2 DEF CloseInv
<1>6. QED
  BY <1>1, <1>3, <1>4, <1>5 DEF CloseInv

LEMMA FlushNextClose ==
    ASSUME TypeOK, CloseInv, FlushNext
    PROVE  CloseInv'
<1>1. /\ pc = "close" /\ UNCHANGED <<batch, order, connOpen>> /\ connOpen
      /\ ci \in 1..Len(order) /\ order \in Seq(Tables)
  BY FlushNextTable DEF FlushNext, CloseInv, TypeOK
<1>2. \A i \in 1..Len(order) : i < ci => batch[order[i]] = <<>>
  BY <1>1 DEF CloseInv
<1>3. CASE batch[order[ci]] = <<>>
  <2>1. ci' = ci + 1 /\ pc' = pc
    BY <1>3 DEF FlushNext
  <2>2. \A i \in 1..Len(order) : i < ci' => i < ci \/ i = ci
    BY <1>1, <2>1
  <2>3. QED
    BY <1>1, <1>2, <1>3, <2>1, <2>2, QuietClose
<1>4. CASE batch[order[ci]] # <<>>
  BY <1>1, <1>2, <1>4, QuietClose DEF FlushNext
<1>5. QED
  BY <1>3, <1>4

\* The connection is closed when the last key of _batches has been passed.
LEMMA ConnClose ==
    ASSUME TypeOK, CloseInv, CloseConn
    PROVE  CloseInv' /\ \A t \in Tables : batch[t] = <<>>
<1>1. /\ pc = "close" /\ ci > Len(order) /\ ci \in Nat /\ Len(order) \in Nat
      /\ pc' = "closed" /\ UNCHANGED <<batch, order>>
  BY DEF CloseConn, TablesLeft, TypeOK
<1>2. \A i \in 1..Len(order) : batch[order[i]] = <<>>
  BY <1>1 DEF CloseInv
<1>3. \A t \in Tables : batch[t] = <<>>
  BY <1>2 DEF CloseInv
<1>4. QED
  BY <1>1, <1>3 DEF CloseInv

LEMMA NextClose == TypeOK /\ CloseInv /\ [Next]_sinkVars => CloseInv'
<1> SUFFICES ASSUME TypeOK, CloseInv, [Next]_sinkVars PROVE CloseInv'
  OBVIOUS
<1>1. ASSUME NEW t \in Tables, NEW e \in EventsOf(t), WriteLine(t, e) \/ FaultLine(t, e)
      PROVE  CloseInv'
  <2>1. pc = "idle" /\ pc' = "between" /\ ci' = ci /\ UNCHANGED <<batch, order, connOpen>>
    BY <1>1 DEF WriteLine, FaultLine, Hand
  <2>2. QED
    BY <2>1, QuietClose DEF CloseInv
<1>2. ASSUME NEW t \in Tables, NEW e \in EventsOf(t), WriteBatch(t, e) \/ FaultTable(t, e)
      PROVE  CloseInv'
  BY <1>2, BufferClose DEF WriteBatch, FaultTable, EventsOf
<1>3. CASE InsertRow
  BY <1>3, QuietClose DEF InsertRow, Inserting, CloseInv
<1>4. CASE RejectRow \/ FaultRow
  <2>1. pc = "insert" /\ pc' = Unwound /\ UNCHANGED <<batch, order, connOpen, ci>>
    BY <1>4 DEF RejectRow, FaultRow, Raise, Inserting
  <2>2. QED
    BY <2>1, QuietClose DEF CloseInv, Unwound
<1>5. CASE FlushDone
  BY <1>5, DoneClose
<1>6. CASE FlushNext
  BY <1>6, FlushNextClose
<1>7. CASE CloseConn
  BY <1>7, ConnClose
<1>8. CASE StartClose
  <2>1. /\ pc = "idle" /\ pc' = "close" /\ ci' = 1 /\ UNCHANGED <<batch, order, connOpen>>
        /\ Len(order) \in Nat
    BY <1>8 DEF StartClose, TypeOK
  <2>2. \A i \in 1..Len(order) : ~(i < ci')
    BY <2>1
  <2>3. QED
    BY <2>1, <2>2, QuietClose DEF CloseInv
<1>9. CASE Interrupt
  <2>1. /\ \/ pc \in {"between", "insert"} /\ pc' = "close" /\ ci' = 1
           \/ pc \in {"insert", "close"} /\ pc' = "closed"
        /\ UNCHANGED <<batch, order, connOpen>> /\ Len(order) \in Nat
    BY <1>9 DEF Interrupt, TypeOK
  <2>2. ci' = 1 => \A i \in 1..Len(order) : ~(i < ci')
    BY <2>1
  <2>3. QED
    BY <2>1, <2>2, QuietClose DEF CloseInv
<1>10. CASE UNCHANGED sinkVars
  BY <1>10 DEF sinkVars, CloseInv
<1>11. QED
  BY <1>1, <1>2, <1>3, <1>4, <1>5, <1>6, <1>7, <1>8, <1>9, <1>10, StepCases

(* close() has left an empty batch behind each table that it has passed.   *)
THEOREM CloseInvariance == Spec => []CloseInv
<1>1. Init => CloseInv
  <2> SUFFICES ASSUME Init PROVE CloseInv
    OBVIOUS
  <2>1. /\ pc = "idle" /\ ci = 0 /\ connOpen
        /\ \A t \in Tables : batch[t] = <<>>
    BY DEF Init
  <2>2. QED
    BY <2>1 DEF CloseInv
<1>2. QED
  BY <1>1, NextClose, TypeCorrect, PTL DEF Spec

\* A database whose connection was closed in good order is complete, for every
\* batch size and every run of faults and interrupts before.
(* conn.close() is reached only with every buffered event of every table   *)
(* stored, for any tables, batch size, faults and interrupts.              *)
THEOREM ClosedTheorem == Spec => []ClosedMeansStored
<1>1. TypeOK /\ StoredInv /\ CloseInv => ClosedMeansStored
  <2> SUFFICES ASSUME TypeOK, StoredInv, CloseInv, ~connOpen,
                      NEW t \in Tables, NEW i \in 1..Len(accepted[t])
               PROVE  Has(t, accepted[t][i])
    BY DEF ClosedMeansStored
  <2>1. Len(batch[t]) = 0
    BY EmptySeq DEF CloseInv
  <2>2. Held(t) = Len(accepted[t])
    BY <2>1, LenTypes
  <2>3. QED
    BY <2>2 DEF StoredInv
<1>2. QED
  BY <1>1, TypeCorrect, StoredInvariance, CloseInvariance, PTL
------------------------------------------------------------------------------
(* The JSONL files are ahead of the database.                              *)

LEMMA LineLasts ==
    ASSUME TypeOK, [Next]_sinkVars, NEW t \in Tables, NEW e, IsLine(t, e)
    PROVE  IsLine(t, e)'
<1>1. CASE \E u \in Tables : \E x \in EventsOf(u) : WriteLine(u, x)
  <2>1. PICK u \in Tables : \E x \in EventsOf(u) : WriteLine(u, x)
    BY <1>1
  <2>2. PICK x \in EventsOf(u) : WriteLine(u, x)
    BY <2>1
  <2>3. /\ jsonl \in [Tables -> Seq(Event)] /\ jsonl[t] \in Seq(Event) /\ x \in Event
        /\ jsonl' = jsonl \/ jsonl' = [jsonl EXCEPT ![u] = Append(@, x)]
    BY <2>2 DEF WriteLine, TypeOK, EventsOf
  <2>4. jsonl'[t] = jsonl[t] \/ jsonl'[t] = Append(jsonl[t], x)
    BY <2>3
  <2>5. CASE jsonl'[t] = Append(jsonl[t], x)
    <3>1. Len(jsonl'[t]) = Len(jsonl[t]) + 1 /\ Len(jsonl[t]) \in Nat
          /\ \A j \in 1..Len(jsonl[t]) : jsonl'[t][j] = jsonl[t][j]
      BY <2>3, <2>5
    <3>2. QED
      BY <3>1 DEF IsLine
  <2>6. QED
    BY <2>4, <2>5 DEF IsLine
<1>2. CASE ~\E u \in Tables : \E x \in EventsOf(u) : WriteLine(u, x)
  <2>1. jsonl' = jsonl
    BY <1>2, StepCases DEF FaultLine, WriteBatch, FaultTable, Buffer, InsertRow, RejectRow,
       FaultRow, Raise, FlushDone, FlushNext, CloseConn, StartClose, Interrupt, sinkVars
  <2>2. QED
    BY <2>1 DEF IsLine
<1>3. QED
  BY <1>1, <1>2

\* A step that takes no event and stores none.
LEMMA QuietLines ==
    ASSUME TypeOK, LinesInv, [Next]_sinkVars, UNCHANGED <<accepted, rows>>,
           faults' = 0 => faults = 0,
           pc' = "between" => pc = "between" /\ inflight' = inflight
                              /\ inflight \in [table : Tables, event : Event]
    PROVE  LinesInv'
<1> SUFFICES ASSUME JsonlEnabled, faults' = 0
             PROVE  /\ pc' = "between" => IsLine(inflight.table, inflight.event)'
                    /\ \A t \in Tables : \A i \in 1..Len(accepted'[t]) : IsLine(t, accepted[t][i])'
                    /\ \A t \in Tables : \A i \in 1..Len(rows'[t]) : IsLine(t, rows[t][i])'
  BY DEF LinesInv
<1>1. ASSUME NEW t \in Tables, NEW i \in 1..Len(accepted'[t]) PROVE IsLine(t, accepted[t][i])'
  <2>1. IsLine(t, accepted[t][i])
    BY DEF LinesInv
  <2>2. QED
    BY <2>1, LineLasts
<1>2. ASSUME NEW t \in Tables, NEW i \in 1..Len(rows'[t]) PROVE IsLine(t, rows[t][i])'
  <2>1. IsLine(t, rows[t][i])
    BY DEF LinesInv
  <2>2. QED
    BY <2>1, LineLasts
<1>3. ASSUME pc' = "between" PROVE IsLine(inflight.table, inflight.event)'
  <2>1. inflight.table \in Tables /\ IsLine(inflight.table, inflight.event)
    BY <1>3 DEF LinesInv
  <2>2. QED
    BY <1>3, <2>1, LineLasts
<1>4. QED
  BY <1>1, <1>2, <1>3

LEMMA WriteLines ==
    ASSUME TypeOK, LinesInv, NEW t \in Tables, NEW e \in EventsOf(t), WriteLine(t, e),
           [Next]_sinkVars
    PROVE  LinesInv'
<1> SUFFICES ASSUME JsonlEnabled, faults' = 0 PROVE LinesInv'
  BY DEF LinesInv
<1>1. /\ faults = 0 /\ UNCHANGED <<accepted, rows>> /\ inflight' = [table |-> t, event |-> e]
      /\ jsonl \in [Tables -> Seq(Event)] /\ jsonl' = [jsonl EXCEPT ![t] = Append(@, e)]
      /\ e \in Event
  BY DEF WriteLine, Hand, TypeOK, EventsOf
<1>2. Len(jsonl'[t]) \in 1..Len(jsonl'[t]) /\ jsonl'[t][Len(jsonl'[t])] = e
  <2>1. jsonl[t] \in Seq(Event) /\ jsonl'[t] = Append(jsonl[t], e)
    BY <1>1
  <2>2. QED
    BY <2>1
<1>3. IsLine(inflight.table, inflight.event)'
  BY <1>1, <1>2 DEF IsLine
<1>4. ASSUME NEW u \in Tables, NEW i \in 1..Len(accepted'[u]) PROVE IsLine(u, accepted[u][i])'
  <2>1. IsLine(u, accepted[u][i])
    BY <1>1 DEF LinesInv
  <2>2. QED
    BY <1>1, <2>1, LineLasts
<1>5. ASSUME NEW u \in Tables, NEW i \in 1..Len(rows'[u]) PROVE IsLine(u, rows[u][i])'
  <2>1. IsLine(u, rows[u][i])
    BY <1>1 DEF LinesInv
  <2>2. QED
    BY <1>1, <2>1, LineLasts
<1>6. QED
  BY <1>3, <1>4, <1>5 DEF LinesInv

LEMMA BufferLines ==
    ASSUME TypeOK, LinesInv, NEW t \in Tables, NEW e \in Event, Buffer(t, e),
           pc = "between", inflight = [table |-> t, event |-> e],
           faults' = 0 => faults = 0, [Next]_sinkVars
    PROVE  LinesInv'
<1> SUFFICES ASSUME JsonlEnabled, faults' = 0 PROVE LinesInv'
  BY DEF LinesInv
<1>1. /\ faults = 0 /\ UNCHANGED <<jsonl, rows>> /\ pc' # "between"
      /\ accepted \in [Tables -> Seq(Event)] /\ accepted' = [accepted EXCEPT ![t] = Append(@, e)]
  BY DEF Buffer, TypeOK
<1>2. IsLine(t, e)
  BY <1>1 DEF LinesInv
<1>3. ASSUME NEW u \in Tables, NEW i \in 1..Len(accepted'[u])
      PROVE  IsLine(u, accepted'[u][i])
  <2>1. CASE u = t
    <3>1. accepted[u] \in Seq(Event) /\ accepted'[u] = Append(accepted[u], e)
      BY <1>1, <2>1
    <3>2. \/ i \in 1..Len(accepted[u]) /\ accepted'[u][i] = accepted[u][i]
          \/ accepted'[u][i] = e
      BY <1>3, <3>1
    <3>3. QED
      BY <1>1, <1>2, <2>1, <3>2 DEF LinesInv
  <2>2. CASE u # t
    BY <1>1, <1>3, <2>2 DEF LinesInv
  <2>3. QED
    BY <2>1, <2>2
<1>4. \A u \in Tables : \A i \in 1..Len(rows[u]) : IsLine(u, rows[u][i])
  BY <1>1 DEF LinesInv
<1>5. jsonl' = jsonl /\ rows' = rows /\ pc' # "between"
  BY <1>1
<1>6. QED
  BY <1>3, <1>4, <1>5 DEF LinesInv, IsLine

LEMMA InsertLines ==
    ASSUME TypeOK, BatchInv, LinesInv, InsertRow
    PROVE  LinesInv'
<1> SUFFICES ASSUME JsonlEnabled, faults' = 0 PROVE LinesInv'
  BY DEF LinesInv
<1>1. /\ faults = 0 /\ UNCHANGED <<accepted, jsonl, pc, inflight>> /\ pc # "between"
      /\ cur \in Tables /\ pos \in Nat \ {0} /\ pos <= Len(batch[cur]) /\ [Next]_sinkVars
  BY DEF InsertRow, Inserting, TypeOK, Next, Step
<1>2. IsLine(cur, Record)
  <2>1. /\ Len(batch[cur]) \in Nat /\ Len(accepted[cur]) \in Nat /\ Held(cur) \in Int
        /\ Held(cur) + Len(batch[cur]) = Len(accepted[cur])
    BY <1>1, LenTypes
  <2>2. Len(batch[cur]) <= Len(accepted[cur])
    BY <1>1 DEF BatchInv, Aligned
  <2>3. pos \in 1..Len(batch[cur]) /\ Held(cur) + pos \in 1..Len(accepted[cur])
    BY <1>1, <2>1, <2>2
  <2>4. Record = accepted[cur][Held(cur) + pos]
    BY <1>1, <2>3 DEF Record, BatchInv, Aligned
  <2>5. QED
    BY <1>1, <2>3, <2>4 DEF LinesInv
<1>3. ASSUME NEW t \in Tables, NEW i \in 1..Len(rows'[t]) PROVE IsLine(t, rows'[t][i])
  <2>1. Len(rows[t]) \in Nat
    BY LenTypes
  <2>2. CASE rows'[t] = rows[t]
    BY <1>1, <1>3, <2>2 DEF LinesInv
  <2>3. CASE /\ InsertRow /\ t = cur
             /\ Len(rows'[t]) = Len(rows[t]) + 1
             /\ rows'[t][Len(rows[t]) + 1] = Record
             /\ \A k \in 1..Len(rows[t]) : rows'[t][k] = rows[t][k]
    <3>1. i \in 1..Len(rows[t]) \/ i = Len(rows[t]) + 1
      BY <1>3, <2>1, <2>3
    <3>2. QED
      BY <1>1, <1>2, <2>3, <3>1 DEF LinesInv
  <2>4. QED
    BY <1>1, <2>2, <2>3, RowsGrow
<1>4. \A t \in Tables : \A i \in 1..Len(accepted[t]) : IsLine(t, accepted[t][i])
  BY <1>1 DEF LinesInv
<1>5. QED
  BY <1>1, <1>3, <1>4 DEF LinesInv, IsLine

LEMMA NextLines == TypeOK /\ BatchInv /\ LinesInv /\ [Next]_sinkVars => LinesInv'
<1> SUFFICES ASSUME TypeOK, BatchInv, LinesInv, [Next]_sinkVars PROVE LinesInv'
  OBVIOUS
<1>1. ASSUME NEW t \in Tables, NEW e \in EventsOf(t), WriteLine(t, e) PROVE LinesInv'
  BY <1>1, WriteLines
<1>2. ASSUME NEW t \in Tables, NEW e \in EventsOf(t), FaultLine(t, e) \/ FaultTable(t, e)
      PROVE  LinesInv'
  <2>1. faults' # 0
    BY <1>2 DEF FaultLine, FaultTable, Fault, TypeOK
  <2>2. QED
    BY <2>1 DEF LinesInv
<1>3. ASSUME NEW t \in Tables, NEW e \in EventsOf(t), WriteBatch(t, e) PROVE LinesInv'
  BY <1>3, BufferLines DEF WriteBatch, EventsOf
<1>4. CASE InsertRow
  BY <1>4, InsertLines
<1>5. CASE FaultRow
  <2>1. faults' # 0
    BY <1>5 DEF FaultRow, Fault, TypeOK
  <2>2. QED
    BY <2>1 DEF LinesInv
<1>6. CASE RejectRow \/ FlushDone \/ FlushNext \/ CloseConn \/ StartClose \/ Interrupt
  <2>1. pc' # "between" /\ faults' = faults /\ UNCHANGED <<accepted, rows>>
    BY <1>6 DEF RejectRow, Raise, Unwound, FlushDone, FlushNext, CloseConn, StartClose, Interrupt
  <2>2. QED
    BY <2>1, QuietLines
<1>7. CASE UNCHANGED sinkVars
  <2>1. UNCHANGED <<accepted, rows, jsonl, pc, inflight, faults>>
    BY <1>7 DEF sinkVars
  <2>2. JsonlEnabled /\ faults' = 0 =>
          /\ pc' = "between" => IsLine(inflight.table, inflight.event)
          /\ \A t \in Tables : \A i \in 1..Len(accepted'[t]) : IsLine(t, accepted'[t][i])
          /\ \A t \in Tables : \A i \in 1..Len(rows'[t]) : IsLine(t, rows'[t][i])
    BY <2>1 DEF LinesInv
  <2>3. \A t, e : IsLine(t, e) => \E j \in 1..Len(jsonl'[t]) : jsonl'[t][j] = e
    BY <2>1 DEF IsLine
  <2>4. QED
    BY <2>1, <2>2, <2>3 DEF LinesInv, IsLine
<1>8. QED
  BY <1>1, <1>2, <1>3, <1>4, <1>5, <1>6, <1>7, StepCases

\* Whatever the batch size and however often it is interrupted, a run whose
\* storage calls all succeed has every database row in the JSONL file.
(* While no storage call fails, every row of the database is a line of its *)
(* table's JSONL file.                                                     *)
THEOREM LinesTheorem == Spec => []RowsAreLines
<1>1. Init => LinesInv
  <2> SUFFICES ASSUME Init PROVE LinesInv
    OBVIOUS
  <2>1. pc = "idle" /\ \A t \in Tables : Len(accepted[t]) = 0 /\ Len(rows[t]) = 0
    BY EmptySeq DEF Init
  <2>2. QED
    BY <2>1 DEF LinesInv
<1>2. Spec => []LinesInv
  BY <1>1, NextLines, TypeCorrect, BatchInvariance, PTL DEF Spec
<1>3. LinesInv => RowsAreLines
  BY DEF LinesInv, RowsAreLines, IsLine
<1>4. QED
  BY <1>2, <1>3, PTL
------------------------------------------------------------------------------
(* Tables without a key: while nothing goes wrong, no event is stored twice. *)

\* What a step does to a table's accepted events.
LEMMA AcceptedGrow ==
    ASSUME TypeOK, [Next]_sinkVars, NEW t \in Tables
    PROVE  \/ accepted'[t] = accepted[t]
           \/ \E e \in EventsOf(t) :
                /\ WriteBatch(t, e) \/ FaultTable(t, e)
                /\ Len(accepted'[t]) = Len(accepted[t]) + 1
                /\ accepted'[t][Len(accepted[t]) + 1] = e
                /\ \A i \in 1..Len(accepted[t]) : accepted'[t][i] = accepted[t][i]
<1>1. ASSUME NEW u \in Tables, NEW e \in EventsOf(u), WriteBatch(u, e) \/ FaultTable(u, e)
      PROVE  \/ accepted'[t] = accepted[t]
             \/ /\ u = t
                /\ Len(accepted'[t]) = Len(accepted[t]) + 1
                /\ accepted'[t][Len(accepted[t]) + 1] = e
                /\ \A i \in 1..Len(accepted[t]) : accepted'[t][i] = accepted[t][i]
  <2>1. /\ accepted \in [Tables -> Seq(Event)] /\ e \in Event
        /\ accepted' = [accepted EXCEPT ![u] = Append(@, e)]
    BY <1>1 DEF WriteBatch, FaultTable, Buffer, TypeOK, EventsOf
  <2>2. CASE u = t
    <3>1. accepted[t] \in Seq(Event) /\ accepted'[t] = Append(accepted[t], e)
      BY <2>1, <2>2
    <3>2. QED
      BY <2>1, <2>2, <3>1
  <2>3. QED
    BY <2>1, <2>2
<1>2. CASE ~\E u \in Tables : \E e \in EventsOf(u) : WriteBatch(u, e) \/ FaultTable(u, e)
  <2>1. accepted' = accepted
    BY <1>2, StepCases DEF WriteLine, FaultLine, Hand, InsertRow, RejectRow,
       FaultRow, Raise, FlushDone, FlushNext, CloseConn, StartClose, Interrupt, sinkVars
  <2>2. QED
    BY <2>1
<1>3. QED
  BY <1>1, <1>2

LEMMA NextClock == TypeOK /\ ClockInv /\ [Next]_sinkVars => ClockInv'
<1> SUFFICES ASSUME TypeOK, ClockInv, [Next]_sinkVars PROVE ClockInv'
  OBVIOUS
<1>1. ASSUME NEW t \in Tables PROVE /\ Len(accepted[t]) \in Nat /\ clock \in Nat
                                    /\ \A i \in 1..Len(accepted[t]) : accepted[t][i].ts \in Nat
  <2>1. accepted[t] \in Seq(Event)
    BY DEF TypeOK
  <2>2. \A i \in 1..Len(accepted[t]) : accepted[t][i] \in Event
    BY <2>1
  <2>3. QED
    BY <2>1, <2>2 DEF TypeOK, Event
<1>2. ASSUME NEW t \in Tables, NEW e \in EventsOf(t), WriteLine(t, e) \/ FaultLine(t, e)
      PROVE  ClockInv'
  <2>1. /\ pc = "idle" /\ pc' = "between" /\ clock' = clock + 1 /\ e.ts = clock + 1
        /\ inflight'.event = e /\ accepted' = accepted
    BY <1>2 DEF WriteLine, FaultLine, Hand
  <2>2. \A u \in Tables : \A i \in 1..Len(accepted[u]) : accepted[u][i].ts < clock'
    BY <1>1, <2>1 DEF ClockInv
  <2>3. \A u \in Tables : \A i \in 1..Len(accepted[u]) : accepted[u][i].ts <= clock'
    BY <1>1, <2>1, <2>2
  <2>4. QED
    BY <2>1, <2>2, <2>3 DEF ClockInv
<1>3. ASSUME NEW t \in Tables, NEW e \in EventsOf(t), WriteBatch(t, e) \/ FaultTable(t, e)
      PROVE  ClockInv'
  <2>1. /\ pc = "between" /\ pc' # "between" /\ clock' = clock /\ e.ts = clock
        /\ inflight = [table |-> t, event |-> e]
        /\ \A u \in Tables \ {t} : accepted'[u] = accepted[u]
    <3>1. pc = "between" /\ inflight = [table |-> t, event |-> e] /\ Buffer(t, e)
      BY <1>3 DEF WriteBatch, FaultTable
    <3>2. e.ts = clock
      BY <3>1 DEF ClockInv
    <3>3. \A u \in Tables \ {t} : accepted'[u] = accepted[u]
      BY <3>1 DEF Buffer, TypeOK
    <3>4. pc' # "between" /\ clock' = clock
      BY <3>1 DEF Buffer
    <3>5. QED
      BY <3>1, <3>2, <3>3, <3>4
  <2>2. ASSUME NEW u \in Tables
        PROVE  \/ accepted'[u] = accepted[u]
               \/ /\ Len(accepted'[u]) = Len(accepted[u]) + 1
                  /\ accepted'[u][Len(accepted[u]) + 1].ts = clock
                  /\ \A i \in 1..Len(accepted[u]) : accepted'[u][i] = accepted[u][i]
    <3>1. ASSUME NEW x \in EventsOf(u), WriteBatch(u, x) \/ FaultTable(u, x) PROVE x.ts = clock
      BY <2>1, <3>1 DEF WriteBatch, FaultTable
    <3>2. QED
      BY <3>1, AcceptedGrow
  <2>3. ASSUME NEW u \in Tables, NEW i \in 1..Len(accepted'[u])
        PROVE  /\ accepted'[u][i].ts <= clock
               /\ \A j \in 1..Len(accepted'[u]) : i < j => accepted'[u][i].ts < accepted'[u][j].ts
    <3>1. /\ Len(accepted[u]) \in Nat /\ clock \in Nat
          /\ \A k \in 1..Len(accepted[u]) : accepted[u][k].ts < clock /\ accepted[u][k].ts <= clock
      BY <1>1, <2>1 DEF ClockInv
    <3>2. \A k, j \in 1..Len(accepted[u]) : k < j => accepted[u][k].ts < accepted[u][j].ts
      BY DEF ClockInv
    <3>3. CASE accepted'[u] = accepted[u]
      BY <2>3, <3>1, <3>2, <3>3
    <3>4. CASE /\ Len(accepted'[u]) = Len(accepted[u]) + 1
               /\ accepted'[u][Len(accepted[u]) + 1].ts = clock
               /\ \A k \in 1..Len(accepted[u]) : accepted'[u][k] = accepted[u][k]
      <4>1. \A k \in 1..Len(accepted'[u]) : k \in 1..Len(accepted[u]) \/ k = Len(accepted[u]) + 1
        BY <3>1, <3>4
      <4>2. accepted'[u][i].ts <= clock
        BY SMTT(30), <2>3, <3>1, <3>4, <4>1
      <4>3. ASSUME NEW j \in 1..Len(accepted'[u]), i < j
            PROVE  accepted'[u][i].ts < accepted'[u][j].ts
        <5>1. i \in 1..Len(accepted[u])
          BY <2>3, <3>1, <3>4, <4>3
        <5>2. QED
          BY <3>1, <3>2, <3>4, <4>1, <4>3, <5>1
      <4>4. QED
        BY <4>2, <4>3
    <3>5. QED
      BY <2>2, <3>3, <3>4
  <2>4. QED
    BY <2>1, <2>3 DEF ClockInv
<1>4. CASE InsertRow \/ RejectRow \/ FaultRow \/ FlushDone \/ FlushNext \/ CloseConn \/ StartClose
           \/ Interrupt
  <2>1. pc' # "between" /\ UNCHANGED <<accepted, clock>>
    BY <1>4 DEF InsertRow, Inserting, RejectRow, FaultRow, Raise, Unwound, FlushDone, FlushNext,
                CloseConn, StartClose, Interrupt
  <2>2. QED
    BY <2>1 DEF ClockInv
<1>5. CASE UNCHANGED sinkVars
  BY <1>5 DEF sinkVars, ClockInv
<1>6. QED
  BY <1>2, <1>3, <1>4, <1>5, StepCases

\* A step that takes no event, stores none and leaves no flush halfway.
LEMMA QuietOnce ==
    ASSUME TypeOK, OnceInv, UNCHANGED <<accepted, rows, batch>>, created \subseteq created',
           Undisturbed' => /\ Undisturbed
                           /\ pc = "insert" => cur \in Keyed \/ pos = 1
                           /\ pc' = "insert" => pos' = 1
    PROVE  OnceInv'
<1> SUFFICES ASSUME Undisturbed' PROVE OnceInv'
  BY DEF OnceInv
<1>1. \A t \in Tables : accepted'[t] # <<>> => t \in created'
  BY DEF OnceInv
<1>2. ASSUME NEW t \in Tables \ Keyed
      PROVE  /\ Len(rows'[t]) = Held(t)' + (IF pc' = "insert" /\ cur' = t THEN pos' - 1 ELSE 0)
             /\ \A i \in 1..Len(rows'[t]) : rows'[t][i] = accepted'[t][i]
  <2>1. Held(t)' = Held(t) /\ Held(t) \in Int
    BY LenTypes DEF Held
  <2>2. Len(rows[t]) = Held(t)
    BY <2>1 DEF OnceInv
  <2>3. QED
    BY <2>1, <2>2 DEF OnceInv
<1>3. QED
  BY <1>1, <1>2 DEF OnceInv

LEMMA BufferOnce ==
    ASSUME TypeOK, OnceInv, NEW t \in Tables, NEW e \in EventsOf(t), WriteBatch(t, e)
    PROVE  OnceInv'
<1> SUFFICES ASSUME Undisturbed' PROVE OnceInv'
  BY DEF OnceInv
<1>1. /\ Undisturbed /\ pc = "between" /\ Buffer(t, e) /\ e \in Event /\ created' = created \union {t}
      /\ rows' = rows /\ (pc' = "insert" => pos' = 1)
      /\ \A u \in Tables \ {t} : accepted'[u] = accepted[u]
  BY DEF WriteBatch, Buffer, FirstRecord, Undisturbed, TypeOK, EventsOf
<1>2. \A u \in Tables : accepted'[u] # <<>> => u \in created'
  BY <1>1 DEF OnceInv
<1>3. ASSUME NEW u \in Tables \ Keyed
      PROVE  /\ Len(rows'[u]) = Held(u)' + (IF pc' = "insert" /\ cur' = u THEN pos' - 1 ELSE 0)
             /\ \A i \in 1..Len(rows'[u]) : rows'[u][i] = accepted'[u][i]
  <2>1. /\ Held(u)' = Held(u) /\ Held(u) \in Int
        /\ \A i \in 1..Len(accepted[u]) : accepted'[u][i] = accepted[u][i]
    BY <1>1, BufferGrows
  <2>2. /\ Len(batch[u]) \in Nat /\ Len(accepted[u]) \in Nat
        /\ Held(u) + Len(batch[u]) = Len(accepted[u])
    BY LenTypes
  <2>3. Len(rows[u]) = Held(u) /\ \A i \in 1..Len(rows[u]) : rows[u][i] = accepted[u][i]
    BY <1>1, <2>1 DEF OnceInv
  <2>4. \A i \in 1..Len(rows[u]) : i \in 1..Len(accepted[u])
    BY <2>1, <2>2, <2>3
  <2>5. QED
    BY <1>1, <2>1, <2>3, <2>4
<1>4. QED
  BY <1>2, <1>3 DEF OnceInv

LEMMA InsertOnce ==
    ASSUME TypeOK, BatchInv, OnceInv, InsertRow
    PROVE  OnceInv'
<1> SUFFICES ASSUME Undisturbed' PROVE OnceInv'
  BY DEF OnceInv
<1>1. /\ Undisturbed /\ UNCHANGED <<accepted, batch, created, pc, cur>> /\ pc = "insert"
      /\ pos' = pos + 1 /\ pos \in Nat \ {0} /\ pos <= Len(batch[cur]) /\ cur \in Tables
      /\ [Next]_sinkVars
  BY DEF InsertRow, Inserting, Undisturbed, TypeOK, Next, Step
<1>2. ASSUME NEW t \in Tables \ Keyed
      PROVE  /\ Len(rows'[t]) = Held(t)' + (IF pc' = "insert" /\ cur' = t THEN pos' - 1 ELSE 0)
             /\ \A i \in 1..Len(rows'[t]) : rows'[t][i] = accepted'[t][i]
  <2>1. /\ Held(t)' = Held(t) /\ Held(t) \in Int /\ Len(rows[t]) \in Nat /\ Len(batch[t]) \in Nat
    BY <1>1, LenTypes DEF Held
  <2>2. /\ Len(rows[t]) = Held(t) + (IF cur = t THEN pos - 1 ELSE 0)
        /\ \A i \in 1..Len(rows[t]) : rows[t][i] = accepted[t][i]
    BY <1>1 DEF OnceInv
  <2>3. CASE t # cur
    <3>1. rows'[t] = rows[t]
      BY <2>3, <1>1, RowsGrow
    <3>2. QED
      BY <1>1, <2>1, <2>2, <2>3, <3>1
  <2>4. CASE t = cur
    <3>1. /\ Len(rows'[t]) = Len(rows[t]) + 1 /\ rows'[t][Len(rows[t]) + 1] = Record
          /\ \A i \in 1..Len(rows[t]) : rows'[t][i] = rows[t][i]
      <4>1. rows[t] \in Seq(Event) /\ rows'[t] = Append(rows[t], Record)
        BY <2>4 DEF InsertRow, TypeOK
      <4>2. QED
        BY <4>1
    <3>2. pos \in 1..Len(batch[t])
      BY <1>1, <2>1, <2>4
    <3>3. Record = accepted[t][Held(t) + pos]
      BY <2>4, <3>2 DEF Record, BatchInv, Aligned
    <3>4. Held(t) + pos = Len(rows[t]) + 1
      BY <1>1, <2>1, <2>2, <2>4
    <3>5. Len(rows'[t]) = Held(t)' + (pos' - 1)
      BY <1>1, <2>1, <3>1, <3>4
    <3>6. ASSUME NEW i \in 1..Len(rows'[t]) PROVE rows'[t][i] = accepted[t][i]
      <4>1. i \in 1..Len(rows[t]) \/ i = Len(rows[t]) + 1
        BY <2>1, <3>1, <3>6
      <4>2. QED
        BY <2>2, <3>1, <3>3, <3>4, <4>1
    <3>7. QED
      BY <1>1, <2>4, <3>5, <3>6
  <2>5. QED
    BY <2>3, <2>4
<1>3. QED
  BY <1>1, <1>2 DEF OnceInv

LEMMA DoneOnce ==
    ASSUME TypeOK, BatchInv, OnceInv, FlushDone
    PROVE  OnceInv'
<1> SUFFICES ASSUME Undisturbed' PROVE OnceInv'
  BY DEF OnceInv
<1>1. /\ Undisturbed /\ UNCHANGED <<accepted, rows, created>> /\ pc = "insert" /\ pc' # "insert"
      /\ cur \in Tables /\ pos \in Nat /\ pos > Len(batch[cur]) /\ pos <= Len(batch[cur]) + 1
      /\ batch' = [batch EXCEPT ![cur] = <<>>] /\ batch \in [Tables -> Seq(Event)]
  BY DEF FlushDone, Undisturbed, TypeOK, BatchInv, FlushProgress
<1>2. ASSUME NEW t \in Tables \ Keyed
      PROVE  /\ Len(rows'[t]) = Held(t)'
             /\ \A i \in 1..Len(rows'[t]) : rows'[t][i] = accepted'[t][i]
  <2>1. /\ Len(rows[t]) = Held(t) + (IF cur = t THEN pos - 1 ELSE 0)
        /\ \A i \in 1..Len(rows[t]) : rows[t][i] = accepted[t][i]
    BY <1>1 DEF OnceInv
  <2>2. /\ Len(batch[t]) \in Nat /\ Len(accepted[t]) \in Nat /\ Held(t) \in Int
        /\ Held(t) + Len(batch[t]) = Len(accepted[t])
    BY LenTypes
  <2>3. CASE t # cur
    <3>1. batch'[t] = batch[t] /\ accepted'[t] = accepted[t] /\ rows'[t] = rows[t]
      BY <1>1, <2>3
    <3>2. Held(t)' = Held(t)
      BY <3>1 DEF Held
    <3>3. QED
      BY <2>1, <2>2, <2>3, <3>1, <3>2
  <2>4. CASE t = cur
    <3>1. Len(batch'[t]) = 0 /\ accepted'[t] = accepted[t] /\ rows'[t] = rows[t]
      BY <1>1, <2>4
    <3>2. Held(t)' = Len(accepted[t])
      BY <2>2, <3>1 DEF Held
    <3>3. Len(rows[t]) = Len(accepted[t])
      BY <1>1, <2>1, <2>2, <2>4
    <3>4. QED
      BY <2>1, <3>1, <3>2, <3>3
  <2>5. QED
    BY <2>3, <2>4
<1>3. QED
  BY <1>1, <1>2 DEF OnceInv

\* A table without key refuses a row only when it does not exist.
LEMMA RejectOnce ==
    ASSUME TypeOK, BatchInv, OnceInv, RejectRow
    PROVE  OnceInv'
<1>1. /\ pc = "insert" /\ cur \in Tables /\ pos \in Nat \ {0} /\ pos <= Len(batch[cur])
      /\ ~Insertable(cur, Record) /\ pc' # "insert" /\ UNCHANGED <<accepted, batch, rows, created>>
      /\ UNCHANGED <<faults, interrupts>>
  BY DEF RejectRow, Inserting, Raise, Unwound, TypeOK
<1>2. ASSUME Undisturbed, cur \notin Keyed PROVE FALSE
  <2>1. accepted[cur] # <<>>
    <3>1. Len(batch[cur]) \in Nat /\ Len(batch[cur]) <= Len(accepted[cur])
      BY <1>1, <1>2, LenTypes DEF BatchInv, Aligned
    <3>2. Len(accepted[cur]) # 0
      BY <1>1, <3>1, LenTypes
    <3>3. QED
      BY <3>2
  <2>2. QED
    BY <1>1, <1>2, <2>1 DEF OnceInv, Insertable
<1>3. QED
  BY <1>1, <1>2, QuietOnce DEF Undisturbed

LEMMA NextOnce == TypeOK /\ BatchInv /\ OnceInv /\ [Next]_sinkVars => OnceInv'
<1> SUFFICES ASSUME TypeOK, BatchInv, OnceInv, [Next]_sinkVars PROVE OnceInv'
  OBVIOUS
<1>1. ASSUME NEW t \in Tables, NEW e \in EventsOf(t), WriteBatch(t, e) PROVE OnceInv'
  BY <1>1, BufferOnce
<1>2. CASE InsertRow
  BY <1>2, InsertOnce
<1>3. CASE FlushDone
  BY <1>3, DoneOnce
<1>4. CASE RejectRow
  BY <1>4, RejectOnce
<1>5. CASE \/ \E t \in Tables : \E e \in EventsOf(t) : FaultLine(t, e) \/ FaultTable(t, e)
           \/ FaultRow \/ Interrupt
  <2>1. ~Undisturbed'
    BY <1>5 DEF FaultLine, FaultTable, FaultRow, Fault, Interrupt, Undisturbed, TypeOK
  <2>2. QED
    BY <2>1 DEF OnceInv
<1>6. CASE FlushNext
  <2>1. /\ pc = "close" /\ (pc' = "insert" => pos' = 1)
        /\ UNCHANGED <<accepted, rows, batch, created, faults, interrupts>>
    BY <1>6 DEF FlushNext, FirstRecord
  <2>2. QED
    BY <2>1, QuietOnce DEF Undisturbed
<1>7. CASE \/ \E t \in Tables : \E e \in EventsOf(t) : WriteLine(t, e)
           \/ CloseConn \/ StartClose
  <2>1. /\ pc # "insert" /\ pc' # "insert"
        /\ UNCHANGED <<accepted, rows, batch, created, faults, interrupts>>
    BY <1>7 DEF WriteLine, Hand, CloseConn, StartClose
  <2>2. QED
    BY <2>1, QuietOnce DEF Undisturbed
<1>8. CASE UNCHANGED sinkVars
  BY <1>8 DEF sinkVars, OnceInv, Undisturbed, Held
<1>9. QED
  BY <1>1, <1>2, <1>3, <1>4, <1>5, <1>6, <1>7, <1>8, StepCases

\* For every batch size and number of tables, a run without failing calls and
\* interrupts stores no event of a table without key twice.
(* A table without a key holds an event twice only after a fault or an     *)
(* interrupt.                                                              *)
THEOREM OnceTheorem == Spec => []UnkeyedRowsOnce
<1>1. Init => ClockInv /\ OnceInv
  <2> SUFFICES ASSUME Init PROVE ClockInv /\ OnceInv
    OBVIOUS
  <2>1. /\ pc = "idle" /\ \A t \in Tables : accepted[t] = <<>> /\ batch[t] = <<>> /\ rows[t] = <<>>
    BY DEF Init
  <2>2. \A t \in Tables : Len(accepted[t]) = 0 /\ Len(batch[t]) = 0 /\ Len(rows[t]) = 0
    BY <2>1, EmptySeq
  <2>3. ASSUME NEW t \in Tables PROVE Held(t) = 0
    BY <2>2 DEF Held
  <2>4. QED
    BY <2>1, <2>2, <2>3 DEF ClockInv, OnceInv
<1>2. Spec => [](ClockInv /\ OnceInv)
  BY <1>1, NextClock, NextOnce, TypeCorrect, BatchInvariance, PTL DEF Spec
<1>3. TypeOK /\ BatchInv /\ ClockInv /\ OnceInv => UnkeyedRowsOnce
  <2> SUFFICES ASSUME TypeOK, BatchInv, ClockInv, OnceInv, Undisturbed,
                      NEW t \in Tables \ Keyed,
                      NEW i \in 1..Len(rows[t]), NEW j \in 1..Len(rows[t]), i # j
               PROVE  rows[t][i] # rows[t][j]
    BY DEF UnkeyedRowsOnce, Undisturbed
  <2>1. rows[t][i] = accepted[t][i] /\ rows[t][j] = accepted[t][j]
    BY DEF OnceInv
  <2>2. Len(rows[t]) <= Len(accepted[t])
    <3>1. Len(rows[t]) = Held(t) + (IF pc = "insert" /\ cur = t THEN pos - 1 ELSE 0)
      BY DEF OnceInv
    <3>2. /\ Len(batch[t]) \in Nat /\ Len(accepted[t]) \in Nat /\ Held(t) \in Int /\ pos \in Nat
          /\ Held(t) + Len(batch[t]) = Len(accepted[t])
      BY LenTypes DEF TypeOK
    <3>3. pc = "insert" /\ cur = t => pos <= Len(batch[t]) + 1
      BY DEF BatchInv, FlushProgress
    <3>4. QED
      BY <3>1, <3>2, <3>3
  <2>3. i \in 1..Len(accepted[t]) /\ j \in 1..Len(accepted[t])
    BY <2>2, LenTypes
  <2>4. accepted[t][i].ts \in Int /\ accepted[t][j].ts \in Int
    <3>1. accepted[t] \in Seq(Event)
      BY LenTypes
    <3>2. accepted[t][i] \in Event /\ accepted[t][j] \in Event
      BY <2>3, <3>1
    <3>3. QED
      BY <3>2 DEF Event
  <2>5. accepted[t][i].ts # accepted[t][j].ts
    <3>1. i < j \/ j < i
      BY <2>3
    <3>2. QED
      BY <2>3, <2>4, <3>1 DEF ClockInv
  <2>6. QED
    BY <2>1, <2>5
<1>4. QED
  BY <1>2, <1>3, TypeCorrect, BatchInvariance, PTL
------------------------------------------------------------------------------
(* A table that is stuck, and the log the sink implements.                 *)

LEMMA StuckStays ==
    ASSUME TypeOK, [Next]_sinkVars, NEW t \in Keyed, Stuck(t)
    PROVE  rows'[t] = rows[t] /\ Stuck(t)'
<1>1. /\ batch[t] \in Seq(Event) /\ batch[t] # <<>> /\ Len(batch[t]) \in Nat /\ Len(batch[t]) > 0
      /\ pos \in Nat \ {0} /\ t \in Tables
      /\ ~(pc = "insert" /\ cur = t /\ pos > 1)
  BY EmptySeq DEF Stuck, TypeOK
<1>2. ~(InsertRow /\ cur = t)
  <2> SUFFICES ASSUME InsertRow, cur = t PROVE FALSE
    OBVIOUS
  <2>1. pos = 1
    BY <1>1 DEF InsertRow, Inserting
  <2>2. QED
    BY <2>1 DEF InsertRow, Insertable, Record, Stuck, Has
<1>3. rows'[t] = rows[t]
  BY <1>1, <1>2, RowsGrow
<1>4. ~(FlushDone /\ cur = t)
  BY <1>1 DEF FlushDone
<1>5. batch'[t] # <<>> /\ batch'[t][1] = batch[t][1]
  <2>1. ASSUME NEW u \in Tables, NEW e \in EventsOf(u), WriteBatch(u, e) \/ FaultTable(u, e)
        PROVE  batch'[t] # <<>> /\ batch'[t][1] = batch[t][1]
    <3>1. e \in Event /\ batch' = [batch EXCEPT ![u] = Append(@, e)] /\ batch \in [Tables -> Seq(Event)]
      BY <2>1 DEF WriteBatch, FaultTable, Buffer, EventsOf, TypeOK
    <3>2. batch'[t] = batch[t] \/ batch'[t] = Append(batch[t], e)
      BY <1>1, <3>1
    <3>3. CASE batch'[t] = Append(batch[t], e)
      <4>1. Len(batch'[t]) = Len(batch[t]) + 1 /\ batch'[t][1] = batch[t][1]
        BY <1>1, <3>1, <3>3
      <4>2. QED
        BY <1>1, <4>1, EmptySeq
    <3>4. QED
      BY <1>1, <3>2, <3>3
  <2>2. CASE FlushDone
    BY <1>1, <1>4, <2>2 DEF FlushDone, TypeOK
  <2>3. CASE ~FlushDone /\ ~\E u \in Tables : \E e \in EventsOf(u) : WriteBatch(u, e) \/ FaultTable(u, e)
    <3>1. batch' = batch
      BY <2>3, StepCases DEF WriteLine, FaultLine, Hand, InsertRow, RejectRow, FaultRow, Raise,
         FlushNext, CloseConn, StartClose, Interrupt, sinkVars
    <3>2. QED
      BY <1>1, <3>1
  <2>4. QED
    BY <2>1, <2>2, <2>3
<1>6. ~(pc' = "insert" /\ cur' = t /\ pos' > 1)
  <2> SUFFICES ASSUME pc' = "insert" /\ cur' = t PROVE ~(pos' > 1)
    OBVIOUS
  <2>1. CASE \E u \in Tables : \E e \in EventsOf(u) : WriteBatch(u, e) \/ FaultTable(u, e)
    BY <2>1 DEF WriteBatch, FaultTable, Buffer, FirstRecord
  <2>2. CASE FlushNext
    BY <2>2 DEF FlushNext, FirstRecord
  <2>3. CASE UNCHANGED sinkVars
    BY <1>1, <2>3 DEF sinkVars
  <2>4. ~\E u \in Tables : \E e \in EventsOf(u) : WriteLine(u, e) \/ FaultLine(u, e)
    BY DEF WriteLine, FaultLine, Hand
  <2>5. ~(RejectRow \/ FaultRow \/ FlushDone \/ CloseConn \/ StartClose \/ Interrupt)
    BY DEF RejectRow, FaultRow, Raise, Unwound, FlushDone, CloseConn, StartClose, Interrupt
  <2>6. ~InsertRow
    BY <1>2 DEF InsertRow
  <2>7. QED
    BY <2>1, <2>2, <2>3, <2>4, <2>5, <2>6, StepCases
<1>7. QED
  BY <1>3, <1>5, <1>6 DEF Stuck, Has

\* A keyed table that is stuck at the head of its batch stores nothing more
\* and stays stuck, whatever is written, flushed or interrupted afterwards.
(* A keyed table whose batch begins with a stored event or a NULL key      *)
(* stores nothing more for the rest of the run.                            *)
THEOREM StuckTheorem == Spec => StuckTableStoresNoMore
<1>1. TypeOK /\ [Next]_sinkVars =>
        [\A t \in Keyed : Stuck(t) => rows'[t] = rows[t] /\ Stuck(t)']_sinkVars
  BY StuckStays
<1>2. QED
  BY <1>1, TypeCorrect, PTL DEF Spec, StuckTableStoresNoMore

LogState == <<[t \in Keyed |-> accepted[t]], [t \in Keyed |-> rows[t]], ~connOpen>>

LEMMA LogInitial == Init => Log!Init
  BY DEF Init, Log!Init

\* An event taken by the batch of a keyed table is accepted by the log.
LEMMA BufferLogs ==
    ASSUME TypeOK, CloseInv, pc = "between", NEW t \in Tables, NEW e \in Event, Buffer(t, e)
    PROVE  Log!Next \/ UNCHANGED LogState
<1>1. /\ connOpen /\ connOpen' = connOpen /\ rows' = rows
      /\ accepted \in [Tables -> Seq(Event)] /\ accepted' = [accepted EXCEPT ![t] = Append(@, e)]
  BY DEF CloseInv, Buffer, TypeOK
<1>2. CASE t \in Keyed
  <2>1. [u \in Keyed |-> accepted'[u]]
          = [[u \in Keyed |-> accepted[u]] EXCEPT ![t] = Append(@, e)]
    BY <1>1, <1>2
  <2>2. Log!Accept(t, e)
    BY <1>1, <2>1 DEF Log!Accept
  <2>3. QED
    BY <1>2, <2>2 DEF Log!Next
<1>3. CASE t \notin Keyed
  <2>1. \A u \in Keyed : accepted'[u] = accepted[u]
    BY <1>1, <1>3
  <2>2. [u \in Keyed |-> accepted'[u]] = [u \in Keyed |-> accepted[u]]
    BY <2>1
  <2>3. QED
    BY <1>1, <2>2 DEF LogState
<1>4. QED
  BY <1>2, <1>3

\* A row that goes into a keyed table is the next the log stores.
LEMMA InsertLogs ==
    ASSUME TypeOK, BatchInv, CloseInv, InsertRow
    PROVE  Log!Next \/ UNCHANGED LogState
<1>1. /\ connOpen /\ connOpen' = connOpen /\ accepted' = accepted /\ cur \in Tables
      /\ rows \in [Tables -> Seq(Event)] /\ rows' = [rows EXCEPT ![cur] = Append(@, Record)]
  BY DEF CloseInv, InsertRow, Inserting, TypeOK
<1>2. CASE cur \in Keyed
  <2>1. PICK t \in Keyed : t = cur
    BY <1>2
  <2>2. /\ Len(rows[t]) < Len(accepted[t])
        /\ Record = accepted[t][Len(rows[t]) + 1]
    BY <2>1, InsertRowExtends
  <2>3. [u \in Keyed |-> rows'[u]]
          = [[u \in Keyed |-> rows[u]] EXCEPT ![t] = Append(@, accepted[t][Len(rows[t]) + 1])]
    BY <1>1, <2>1, <2>2
  <2>4. Log!Store(t)
    BY <1>1, <2>2, <2>3 DEF Log!Store
  <2>5. QED
    BY <2>4 DEF Log!Next
<1>3. CASE cur \notin Keyed
  <2>1. \A u \in Keyed : rows'[u] = rows[u]
    BY <1>1, <1>3
  <2>2. [u \in Keyed |-> rows'[u]] = [u \in Keyed |-> rows[u]]
    BY <2>1
  <2>3. QED
    BY <1>1, <2>2 DEF LogState
<1>4. QED
  BY <1>2, <1>3

\* The connection closes on a complete log.
LEMMA CloseLogs ==
    ASSUME TypeOK, BatchInv, CloseInv, CloseConn
    PROVE  Log!Next
<1>1. /\ connOpen /\ ~connOpen' /\ accepted' = accepted /\ rows' = rows
  BY DEF CloseInv, CloseConn
<1>2. ASSUME NEW t \in Keyed PROVE rows[t] = accepted[t]
  <2>1. Len(batch[t]) = 0
    BY ConnClose, EmptySeq
  <2>2. /\ Len(rows[t]) \in Nat /\ Len(accepted[t]) \in Nat
        /\ Held(t) + Len(batch[t]) = Len(accepted[t]) /\ Held(t) \in Int
        /\ rows[t] \in Seq(Event) /\ accepted[t] \in Seq(Event)
    BY LenTypes
  <2>3. IsPrefixOfAccepted(t)
    BY DEF BatchInv
  <2>4. Len(rows[t]) = Len(accepted[t]) /\ \A i \in 1..Len(rows[t]) : rows[t][i] = accepted[t][i]
    BY <2>1, <2>2, <2>3 DEF IsPrefixOfAccepted
  <2>5. QED
    BY <2>2, <2>4, SeqEqual
<1>3. [t \in Keyed |-> rows[t]] = [t \in Keyed |-> accepted[t]]
  BY <1>2
<1>4. Log!Seal
  BY <1>1, <1>3 DEF Log!Seal
<1>5. QED
  BY <1>4 DEF Log!Next

LEMMA LogSteps == TypeOK /\ BatchInv /\ CloseInv /\ [Next]_sinkVars => [Log!Next]_(Log!logVars)
<1> SUFFICES ASSUME TypeOK, BatchInv, CloseInv, [Next]_sinkVars
             PROVE  Log!Next \/ UNCHANGED LogState
  BY DEF LogState, Log!logVars
<1>1. ASSUME NEW t \in Tables, NEW e \in EventsOf(t), WriteBatch(t, e) \/ FaultTable(t, e)
      PROVE  Log!Next \/ UNCHANGED LogState
  BY <1>1, BufferLogs DEF WriteBatch, FaultTable, EventsOf
<1>2. CASE InsertRow
  BY <1>2, InsertLogs
<1>3. CASE CloseConn
  BY <1>3, CloseLogs
<1>4. CASE \/ \E t \in Tables : \E e \in EventsOf(t) : WriteLine(t, e) \/ FaultLine(t, e)
           \/ RejectRow \/ FaultRow \/ FlushDone \/ FlushNext \/ StartClose \/ Interrupt
           \/ UNCHANGED sinkVars
  <2>1. UNCHANGED <<accepted, rows, connOpen>>
    BY <1>4 DEF WriteLine, FaultLine, Hand, RejectRow, FaultRow, Raise, FlushDone, FlushNext,
                StartClose, Interrupt, sinkVars
  <2>2. QED
    BY <2>1 DEF LogState
<1>5. QED
  BY <1>1, <1>2, <1>3, <1>4, StepCases

\* The sink implements the store that promises its events in order, each once,
\* and that closes complete, for the tables with a key and every batch size.
(* The keyed tables implement the abstract metric store: every step of the *)
(* sinks is a step of MetricLog or a stutter.                              *)
THEOREM LogTheorem == Spec => ImplementsLog
<1>1. QED
  BY LogInitial, LogSteps, TypeCorrect, BatchInvariance, CloseInvariance, PTL
     DEF Spec, ImplementsLog, Log!Spec
==============================================================================
