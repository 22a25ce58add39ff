------------------------------ MODULE MetricLog ------------------------------
(***************************************************************************)
(* What a metric store promises, whatever its batching: per table, the     *)
(* events that were accepted are stored in the order they were accepted,   *)
(* each once and none skipped, and the store is sealed only when every     *)
(* accepted event is stored.  MetricSink is shown to implement it for the  *)
(* tables of DuckDBMetricsSink that have a primary key.                    *)
(***************************************************************************)
EXTENDS Naturals, Sequences

CONSTANTS Tables,     \* the tables of the store
          Event       \* the events a table can hold

VARIABLES log,        \* [Tables -> Seq(Event)]: the events accepted, in order
          stored,     \* [Tables -> Seq(Event)]: the rows a reader of the store sees
          sealed      \* the store was closed in good order

logVars == <<log, stored, sealed>>

Init ==
    /\ log = [t \in Tables |-> <<>>]
    /\ stored = [t \in Tables |-> <<>>]
    /\ sealed = FALSE

\* The store takes responsibility for an event.
Accept(t, e) ==
    /\ ~sealed
    /\ log' = [log EXCEPT ![t] = Append(@, e)]
    /\ UNCHANGED <<stored, sealed>>

\* The next accepted event of a table becomes a row of it.
Store(t) ==
    /\ ~sealed
    /\ Len(stored[t]) < Len(log[t])
    /\ stored' = [stored EXCEPT ![t] = Append(@, log[t][Len(stored[t]) + 1])]
    /\ UNCHANGED <<log, sealed>>

\* The store is closed: nothing accepted is missing.
Seal ==
    /\ ~sealed
    /\ stored = log
    /\ sealed' = TRUE
    /\ UNCHANGED <<log, stored>>

Next ==
    \/ \E t \in Tables : Store(t) \/ (\E e \in Event : Accept(t, e))
    \/ Seal

Spec == Init /\ [][Next]_logVars
==============================================================================
