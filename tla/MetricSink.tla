------------------------------ MODULE MetricSink ------------------------------
(***************************************************************************)
(* CompositeMetricsSink over JsonlMetricsSink and DuckDBMetricsSink: one   *)
(* write() hands an event to the JSONL file of its analyzer at once and to *)
(* a per-table batch of the DuckDB sink, which inserts a full batch row by *)
(* row (autocommit), clears it only when every row went in, and flushes    *)
(* what is left when it is closed.                                         *)
(*                                                                         *)
(* One action per storage call, because a storage error (FaultRow,         *)
(* FaultLine, FaultTable) or a KeyboardInterrupt (Interrupt), which        *)
(* `except Exception` does not catch, can strike between any two of them;  *)
(* a killed process is a behaviour that stops.                             *)
(***************************************************************************)
EXTENDS Naturals, Sequences

CONSTANTS
    Tables,         \* event.name of each analyzer: one table and one JSONL file each
    Keyed,          \* the tables with a PRIMARY KEY (all but _generic_table's)
    NullKeys,       \* the tables some event of which has a NULL key column
    None,           \* no table, no event
    BatchSize,      \* DuckDBMetricsSink._batch_size (100 in the code)
    JsonlEnabled,   \* output.jsonl_enabled
    MaxEvents,      \* bound: events written
    MaxFaults,      \* bound: failing storage calls
    MaxInterrupts   \* bound: KeyboardInterrupts

ASSUME SinkAssumption ==
    /\ Keyed \subseteq Tables
    /\ NullKeys \subseteq Tables
    /\ None \notin Tables
    /\ BatchSize \in Nat \ {0}
    /\ JsonlEnabled \in BOOLEAN
    /\ MaxEvents \in Nat
    /\ MaxFaults \in Nat
    /\ MaxInterrupts \in Nat

VARIABLES
    pc,         \* what the writing thread does next
    inflight,   \* the event composite.write has given to the JSONL sink only
    jsonl,      \* the lines of each <table>_metrics.jsonl
    accepted,   \* history: the events each table's batch has taken
    created,    \* DuckDBMetricsSink._created_tables
    batch,      \* DuckDBMetricsSink._batches
    order,      \* the keys of _batches, in insertion order
    rows,       \* the rows of each DuckDB table
    cur, pos,   \* the table being flushed and the next record of its batch
    ci,         \* 0, or while close() runs the index in order it has reached
    connOpen,   \* the DuckDB connection is open
    clock,      \* events written so far: the next event's ts
    faults, interrupts

sinkVars == <<pc, inflight, jsonl, accepted, created, batch, order, rows,
              cur, pos, ci, connOpen, clock, faults, interrupts>>

\* An event of a table: its timestamp and whether a column of the key is NULL.
Event == [ts : 1..MaxEvents, null : BOOLEAN]

EventsOf(t) == {e \in Event : e.null => t \in NullKeys}

------------------------------------------------------------------------------
Init ==
    /\ pc = "idle"
    /\ inflight = None
    /\ jsonl = [t \in Tables |-> <<>>]
    /\ accepted = [t \in Tables |-> <<>>]
    /\ created = {}
    /\ batch = [t \in Tables |-> <<>>]
    /\ order = <<>>
    /\ rows = [t \in Tables |-> <<>>]
    /\ cur = None
    /\ pos = 1
    /\ ci = 0
    /\ connOpen = TRUE
    /\ clock = 0
    /\ faults = 0
    /\ interrupts = 0

\* A storage call fails: the bound on how many do.
Fault == faults < MaxFaults /\ faults' = faults + 1

\* composite.write: the JSONL sink has the event, the DuckDB sink not yet.
Hand(t, e) ==
    /\ pc = "idle"
    /\ ci = 0
    /\ clock < MaxEvents
    /\ e.ts = clock + 1
    /\ clock' = clock + 1
    /\ pc' = "between"
    /\ inflight' = [table |-> t, event |-> e]
    /\ UNCHANGED <<accepted, created, batch, order, rows, cur, pos, ci,
                   connOpen, interrupts>>

\* Mutant: write_record without its flush, the line is not in the file.
WriteLine_Unflushed(t, e) ==
    /\ Hand(t, e)
    /\ UNCHANGED <<jsonl, faults>>

\* JsonlMetricsSink.write: one line, flushed.
WriteLine(t, e) ==
    /\ Hand(t, e)
    /\ jsonl' = IF JsonlEnabled THEN [jsonl EXCEPT ![t] = Append(@, e)] ELSE jsonl
    /\ UNCHANGED faults

\* The JSONL sink raises; the composite goes on to the next sink.
FaultLine(t, e) ==
    /\ JsonlEnabled
    /\ Hand(t, e)
    /\ Fault
    /\ UNCHANGED jsonl

\* `len(batch) >= self._batch_size`.
Full(n) == n >= BatchSize

\* A flush goes through its batch from the first record.
FirstRecord == 1

\* DuckDBMetricsSink.write after _ensure_table: buffer the event, and start
\* flushing its table when the batch is full.
Buffer(t, e) ==
    /\ batch' = [batch EXCEPT ![t] = Append(@, e)]
    /\ accepted' = [accepted EXCEPT ![t] = Append(@, e)]
    /\ order' = IF \E i \in DOMAIN order : order[i] = t THEN order ELSE Append(order, t)
    /\ IF Full(Len(batch[t]) + 1)
       THEN pc' = "insert" /\ cur' = t /\ pos' = FirstRecord
       ELSE pc' = "idle" /\ UNCHANGED <<cur, pos>>
    /\ inflight' = None
    /\ UNCHANGED <<jsonl, rows, ci, connOpen, clock, interrupts>>

WriteBatch(t, e) ==
    /\ pc = "between"
    /\ inflight = [table |-> t, event |-> e]
    /\ Buffer(t, e)
    /\ created' = created \union {t}
    /\ UNCHANGED faults

\* CREATE TABLE fails: _ensure_table prints a warning and the event is buffered.
FaultTable(t, e) ==
    /\ pc = "between"
    /\ inflight = [table |-> t, event |-> e]
    /\ t \notin created
    /\ Buffer(t, e)
    /\ Fault
    /\ UNCHANGED created
------------------------------------------------------------------------------
\* Mutant: no PRIMARY KEY in the CREATE TABLE.
Insertable_NoKey(t, e) == t \in created

\* DuckDB takes the row: the table exists and, with a primary key, no column
\* of the key is NULL and no row has the same one.
Insertable(t, e) ==
    /\ t \in created
    /\ t \in Keyed => ~e.null /\ (\A i \in DOMAIN rows[t] : rows[t][i] # e)

\* The next record of the batch being flushed.
Inserting == pc = "insert" /\ pos <= Len(batch[cur])
Record == batch[cur][pos]

InsertRow ==
    /\ Inserting
    /\ Insertable(cur, Record)
    /\ rows' = [rows EXCEPT ![cur] = Append(@, Record)]
    /\ pos' = pos + 1
    /\ UNCHANGED <<pc, inflight, jsonl, accepted, created, batch, order, cur,
                   ci, connOpen, clock, faults, interrupts>>

\* Mutant: close() tries the failed batch again.
Unwound_Retries == IF ci = 0 THEN "idle" ELSE "close"

\* Where an exception of _flush_table ends up: composite.write swallows it, and
\* so does composite.close, whose DuckDB sink then reaches neither the other
\* tables nor conn.close().
Unwound == IF ci = 0 THEN "idle" ELSE "closed"

\* _flush_table re-raises with the batch uncleared.
Raise ==
    /\ pc' = Unwound
    /\ UNCHANGED <<inflight, jsonl, accepted, created, batch, order, rows, cur,
                   pos, ci, connOpen, clock, interrupts>>

RejectRow ==
    /\ Inserting
    /\ ~Insertable(cur, Record)
    /\ Raise
    /\ UNCHANGED faults

FaultRow == Inserting /\ Fault /\ Raise

\* Mutant: the batch is not cleared.
FlushDone_Keeps ==
    /\ pc = "insert"
    /\ pos > Len(batch[cur])
    /\ pc' = IF ci = 0 THEN "idle" ELSE "close"
    /\ UNCHANGED <<inflight, jsonl, accepted, created, batch, order, rows, cur,
                   pos, ci, connOpen, clock, faults, interrupts>>

\* Every record went in: clear the batch.
FlushDone ==
    /\ pc = "insert"
    /\ pos > Len(batch[cur])
    /\ batch' = [batch EXCEPT ![cur] = <<>>]
    /\ pc' = IF ci = 0 THEN "idle" ELSE "close"
    /\ UNCHANGED <<inflight, jsonl, accepted, created, order, rows, cur, pos,
                   ci, connOpen, clock, faults, interrupts>>
------------------------------------------------------------------------------
\* The end of the run, or an exception that unwinds it: metric_sink_context's
\* finally clause closes the composite.
StartClose ==
    /\ pc = "idle"
    /\ ci = 0
    /\ pc' = "close"
    /\ ci' = 1
    /\ UNCHANGED <<inflight, jsonl, accepted, created, batch, order, rows, cur,
                   pos, connOpen, clock, faults, interrupts>>

\* Mutant: the last table is left out.
TablesLeft_OffByOne == ci < Len(order)

\* `for table_name in list(self._batches.keys())`.
TablesLeft == ci <= Len(order)

\* flush(): each table in turn; an empty batch is skipped.
FlushNext ==
    /\ pc = "close"
    /\ TablesLeft
    /\ IF batch[order[ci]] = <<>>
       THEN ci' = ci + 1 /\ UNCHANGED <<pc, cur, pos>>
       ELSE pc' = "insert" /\ cur' = order[ci] /\ pos' = FirstRecord /\ UNCHANGED ci
    /\ UNCHANGED <<inflight, jsonl, accepted, created, batch, order, rows,
                   connOpen, clock, faults, interrupts>>

CloseConn ==
    /\ pc = "close"
    /\ ~TablesLeft
    /\ pc' = "closed"
    /\ connOpen' = FALSE
    /\ UNCHANGED <<inflight, jsonl, accepted, created, batch, order, rows, cur,
                   pos, ci, clock, faults, interrupts>>

\* A KeyboardInterrupt inside write() unwinds to the finally clause; inside
\* close() it leaves it.  (In "idle" it is StartClose.)
Interrupt ==
    /\ interrupts < MaxInterrupts
    /\ interrupts' = interrupts + 1
    /\ \/ /\ pc \in {"between", "insert"} /\ ci = 0
          /\ pc' = "close" /\ ci' = 1
       \/ /\ pc \in {"insert", "close"} /\ ci > 0
          /\ pc' = "closed" /\ UNCHANGED ci
    /\ UNCHANGED <<inflight, jsonl, accepted, created, batch, order, rows, cur,
                   pos, connOpen, clock, faults>>
------------------------------------------------------------------------------
\* What the thread does by itself once it holds an event or is closing.
Step ==
    \/ \E t \in Tables : \E e \in EventsOf(t) : WriteBatch(t, e) \/ FaultTable(t, e)
    \/ InsertRow \/ RejectRow \/ FaultRow \/ FlushDone
    \/ FlushNext \/ CloseConn

Next ==
    \/ \E t \in Tables : \E e \in EventsOf(t) : WriteLine(t, e) \/ FaultLine(t, e)
    \/ Step
    \/ StartClose
    \/ Interrupt

Spec == Init /\ [][Next]_sinkVars

\* The thread runs: a synchronous call that has begun goes on.
FairSpec == Spec /\ WF_sinkVars(Step)
------------------------------------------------------------------------------
Held(t) == Len(accepted[t]) - Len(batch[t])     \* accepted, flushed and cleared

Has(t, e) == \E i \in DOMAIN rows[t] : rows[t][i] = e

\* Every variable keeps to its type (the state of both sinks and of close()).
TypeOK ==
    /\ pc \in {"idle", "between", "insert", "close", "closed"}
    /\ inflight \in [table : Tables, event : Event] \union {None}
    /\ jsonl \in [Tables -> Seq(Event)]
    /\ accepted \in [Tables -> Seq(Event)]
    /\ created \in SUBSET Tables
    /\ batch \in [Tables -> Seq(Event)]
    /\ order \in Seq(Tables)
    /\ rows \in [Tables -> Seq(Event)]
    /\ cur \in Tables \union {None}
    /\ pc = "insert" => cur \in Tables
    /\ pc = "close" => ci > 0
    /\ pos \in Nat \ {0}
    /\ ci \in Nat
    /\ connOpen \in BOOLEAN
    /\ clock \in 0..MaxEvents
    /\ faults \in 0..MaxFaults
    /\ interrupts \in 0..MaxInterrupts

\* A table with a primary key never has a gap, a duplicate or a reordering:
\* whatever fails, its rows are the first so many events its batch took
\* (_flush_table re-inserts a batch from its first record after a failure).
KeyedRowsArePrefix ==
    \A t \in Keyed :
        /\ Len(rows[t]) <= Len(accepted[t])
        /\ \A i \in 1..Len(rows[t]) : rows[t][i] = accepted[t][i]

\* conn.close() is reached only with every buffered event of every table
\* stored: a closed database file is a complete one (close, flush).
ClosedMeansStored ==
    ~connOpen => \A t \in Tables : \A i \in 1..Len(accepted[t]) : Has(t, accepted[t][i])

\* The JSONL files are ahead of the database: while no line failed, each row
\* of the database is a line of the table's file (composite's sink order).
RowsAreLines ==
    JsonlEnabled /\ faults = 0 =>
        \A t \in Tables : \A i \in 1..Len(rows[t]) :
            \E j \in 1..Len(jsonl[t]) : jsonl[t][j] = rows[t][i]

\* A table without primary key stores an event twice only if a storage call
\* failed or an interrupt cut a flush (a batch is cleared once it is stored).
UnkeyedRowsOnce ==
    faults = 0 /\ interrupts = 0 =>
        \A t \in Tables \ Keyed : \A i, j \in 1..Len(rows[t]) :
            rows[t][i] = rows[t][j] => i = j

------------------------------------------------------------------------------
\* The inductive invariant behind these: a batch is the tail of what was
\* accepted, a keyed table's rows end inside it, and a flush that is under way
\* is either at the batch's first record or just past the table's last row.
Aligned(t) ==
    /\ Len(batch[t]) <= Len(accepted[t])
    /\ \A i \in 1..Len(batch[t]) : batch[t][i] = accepted[t][Held(t) + i]

IsPrefixOfAccepted(t) ==
    /\ Held(t) <= Len(rows[t])
    /\ Len(rows[t]) <= Len(accepted[t])
    /\ \A i \in 1..Len(rows[t]) : rows[t][i] = accepted[t][i]

FlushProgress ==
    pc = "insert" =>
        /\ pos <= Len(batch[cur]) + 1
        /\ cur \in Keyed => pos = 1 \/ Held(cur) + pos = Len(rows[cur]) + 1

BatchInv ==
    /\ \A t \in Tables : Aligned(t)
    /\ \A t \in Keyed : IsPrefixOfAccepted(t)
    /\ FlushProgress

\* Whatever has left a batch is stored, and the records before pos are.
StoredInv ==
    /\ \A t \in Tables : \A i \in 1..Held(t) : Has(t, accepted[t][i])
    /\ pc = "insert" => \A i \in 1..(pos - 1) : Has(cur, batch[cur][i])

\* close() leaves an empty batch behind each table it has passed.
CloseInv ==
    /\ pc \in {"idle", "between"} => ci = 0
    /\ \A t \in Tables : batch[t] # <<>> => \E i \in 1..Len(order) : order[i] = t
    /\ pc \in {"insert", "close"} =>
          \A i \in 1..Len(order) : i < ci => batch[order[i]] = <<>>
    /\ ~connOpen => pc = "closed" /\ \A t \in Tables : batch[t] = <<>>

\* While no storage call failed, every event taken is a line already.
IsLine(t, e) == \E j \in 1..Len(jsonl[t]) : jsonl[t][j] = e

LinesInv ==
    JsonlEnabled /\ faults = 0 =>
        /\ pc = "between" => IsLine(inflight.table, inflight.event)
        /\ \A t \in Tables : \A i \in 1..Len(accepted[t]) : IsLine(t, accepted[t][i])
        /\ \A t \in Tables : \A i \in 1..Len(rows[t]) : IsLine(t, rows[t][i])

\* The clock tells the events of a table apart.
ClockInv ==
    /\ pc = "between" => inflight.event.ts = clock
    /\ \A t \in Tables : \A i \in 1..Len(accepted[t]) :
          /\ accepted[t][i].ts <= clock
          /\ pc = "between" => accepted[t][i].ts < clock
          /\ \A j \in 1..Len(accepted[t]) : i < j => accepted[t][i].ts < accepted[t][j].ts

\* While nothing went wrong, a table without key has the accepted events up
\* to where its flush is.
Undisturbed == faults = 0 /\ interrupts = 0

OnceInv ==
    Undisturbed =>
        /\ \A t \in Tables : accepted[t] # <<>> => t \in created
        /\ \A t \in Tables \ Keyed :
              /\ Len(rows[t]) = Held(t) + (IF pc = "insert" /\ cur = t THEN pos - 1 ELSE 0)
              /\ \A i \in 1..Len(rows[t]) : rows[t][i] = accepted[t][i]
------------------------------------------------------------------------------
\* The head of a keyed table's batch can never be inserted, now or later.
Stuck(t) ==
    /\ t \in Keyed
    /\ batch[t] # <<>>
    /\ batch[t][1].null \/ Has(t, batch[t][1])
    /\ ~(pc = "insert" /\ cur = t /\ pos > 1)

\* A keyed table whose flush failed after its first record, or at a NULL key,
\* stores nothing more: every later flush fails at the head of the same batch.
StuckTableStoresNoMore ==
    [][\A t \in Keyed : Stuck(t) => rows'[t] = rows[t] /\ Stuck(t)']_sinkVars

\* The batching, flushing and closing of the keyed tables implement MetricLog.
Log == INSTANCE MetricLog WITH
    Tables <- Keyed,
    log    <- [t \in Keyed |-> accepted[t]],
    stored <- [t \in Keyed |-> rows[t]],
    sealed <- ~connOpen

ImplementsLog == Log!Spec

\* Once metric_sink_context starts to close the sinks, the cleanup ends, even
\* with rows that can never be inserted.
CloseEnds == (ci > 0) ~> (pc = "closed")

\* "Flushes on close or when batch full" (output/README.md:344): after close,
\* a table none of whose own events is at fault has all of them stored.
CloseFlushesHealthyTables ==
    pc = "closed" =>
        \A t \in Tables \ NullKeys : \A i \in 1..Len(accepted[t]) : Has(t, accepted[t][i])
==============================================================================
