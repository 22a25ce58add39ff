----------------------------- MODULE QueryExecution -----------------------------
(***************************************************************************)
(* QueryExecutionAnalyzer on one SQLite database: each query runs in a     *)
(* thread of its own that the analyzer joins for timeout_seconds,          *)
(* interrupts, joins for five more and then leaves behind.  A thread left  *)
(* behind goes on beside those of the next items.                          *)
(*                                                                         *)
(* sqlite3 opens a transaction only for a text that starts with INSERT,    *)
(* UPDATE, DELETE or REPLACE; any other statement commits by itself.       *)
(***************************************************************************)
EXTENDS ResultCanon

CONSTANTS
    Statements,     \* what items carry
    Policies,       \* the analyzer's configurations
    Content,        \* the rows of the tables before and after a change of the data
    MaxItems        \* bound: items

Versions == {"before", "after"}

\* A query; a mutation that starts with its verb, and one that starts with a
\* WITH; a statement that is neither and yields no rows (CREATE TABLE); one that
\* starts with a destructive verb; nothing; and what sqlglot cannot parse.
Kinds == {"select", "write", "cte", "other", "drop", "empty", "garbled"}

Statement == [kind : Kinds, query : Query \union {None}]

Policy == [mode : {"select_only", "all"}, safety : (Nat \ {0}) \union {None},
           cap : (Nat \ {0}) \union {None}]

\* The kinds of error _classify_error gives a statement that is not executed.
Refusals == {"empty_sql", "blocked", "syntax_error", "mode_rejected"}

ASSUME ExecutionAssumption ==
    /\ Statements \subseteq {s \in Statement : s.kind = "select" <=> s.query # None}
    /\ Policies \subseteq Policy
    /\ Content \in [Versions -> [Tables -> Seq(Row)]]
    /\ \A v \in Versions : \A t \in Tables : Sorted(Content[v][t])
    /\ None \notin Query \union Versions \union Refusals
    /\ MaxItems \in Nat

VARIABLES
    policy,     \* mode, safety_limit and read_cap
    data,       \* the committed content of the database
    writer,     \* the thread whose write transaction is open, 0 without one
    threads,    \* the threads started so far; the analyzer waits for the last
    pc,         \* what the analyzer does next
    stmt,       \* the statement it is at
    read,       \* the content its query saw, None before it has an answer
    report,     \* the last event
    taken       \* bound: items taken

execVars == <<policy, data, writer, threads, pc, stmt, read, report, taken>>

Init ==
    /\ policy \in Policies
    /\ data = "before"
    /\ writer = 0
    /\ threads = <<>>
    /\ pc = "idle"
    /\ stmt = None
    /\ read = None
    /\ report = None
    /\ taken = 0

------------------------------------------------------------------------------
\* The LIMIT the executed text has, its rows, and what the analyzer makes of it.
RealLimit(q) == IF q.limit = None THEN policy.safety ELSE q.limit
RowsOf(q, v) == Content[v][q.table]
Count(q, v) == RowCount(q, RealLimit(q), Len(RowsOf(q, v)))
Truncated(q, v) == policy.cap # None /\ Count(q, v) > policy.cap
Seen(q, v) == IF Truncated(q, v) THEN policy.cap ELSE Count(q, v)
Limit(q) == EffectiveLimit(q, policy.safety)

Label(q, v, tie) == Classify(q, Seen(q, v), Truncated(q, v), Limit(q), tie)
NeedsProbe(q, v) == Probes(q, Seen(q, v), Truncated(q, v), Limit(q))
TieSeen(q, v) == TieAt(RowsOf(q, v), CutPosition(q, Limit(q)))

\* The event and the annotation of the item; probe says how the probe went and
\* call is the thread of the query.
Report(status, error, label, probe, call) ==
    /\ report' = [stmt |-> stmt', status |-> status, error |-> error, label |-> label,
                  probe |-> probe, read |-> read', call |-> call]
    /\ pc' = "idle"

Failure(error) == Report("failed", error, None, "none", 0)

\* Mutant: only the destructive verbs are refused.
Refusal_AnyMode(s) ==
    CASE s.kind = "empty" -> "empty_sql"
      [] s.kind = "drop" -> "blocked"
      [] s.kind = "garbled" -> "syntax_error"
      [] OTHER -> None

\* The checks of _execute_query_safe, in its order.
Refusal(s) ==
    CASE s.kind = "empty" -> "empty_sql"
      [] s.kind = "drop" -> "blocked"
      [] s.kind = "garbled" -> "syntax_error"
      [] policy.mode = "select_only" /\ s.kind # "select" -> "mode_rejected"
      [] OTHER -> None

Take(s) ==
    /\ pc = "idle"
    /\ taken < MaxItems
    /\ taken' = taken + 1
    /\ stmt' = s
    /\ read' = None
    /\ UNCHANGED <<policy, data, writer>>

\* The probe of the database's health fails.
TakeUnreachable(s) == Take(s) /\ Failure("db_unreachable") /\ UNCHANGED threads

TakeRefused(s) ==
    /\ Refusal(s) # None
    /\ Take(s)
    /\ Failure(Refusal(s))
    /\ UNCHANGED threads

\* A thread for the query or for the probe of its cut.
Thread(purpose, s) ==
    [purpose |-> purpose, stmt |-> s, state |-> "connect", failed |-> FALSE,
     interrupted |-> FALSE, saw |-> None]

Start(purpose, s) ==
    /\ threads' = Append(threads, Thread(purpose, s))
    /\ pc' = "join"
    /\ UNCHANGED report

TakeExecuted(s) ==
    /\ Refusal(s) = None
    /\ Take(s)
    /\ Start("query", s)
------------------------------------------------------------------------------
Now == threads[Len(threads)]
Probing == Now.purpose = "probe"
QueryCall == IF Probing THEN Len(threads) - 1 ELSE Len(threads)

\* Mutant: whatever the thread has left counts, even after the interrupt.
Joined_Late(failed) == pc \in {"join", "grace"} /\ Now.state = "ended" /\ Now.failed = failed

\* The thread has ended within the time.
Joined(failed) == pc = "join" /\ Now.state = "ended" /\ Now.failed = failed

\* The item is at its end; its query saw this content.
Concludes(seen) ==
    read' = seen /\ UNCHANGED <<policy, data, writer, threads, stmt, taken>>

Raised ==
    /\ Joined(TRUE)
    /\ ~Probing
    /\ Concludes(read)
    /\ Failure("execution")

\* A mutation: no rows to describe.
MutationDone ==
    /\ Joined(FALSE)
    /\ stmt.kind # "select"
    /\ Concludes(read)
    /\ Report("ok", None, None, "none", QueryCall)

QueryDone ==
    /\ Joined(FALSE)
    /\ stmt.kind = "select" /\ ~Probing
    /\ ~NeedsProbe(stmt.query, Now.saw)
    /\ Concludes(Now.saw)
    /\ Report("ok", None, Label(stmt.query, Now.saw, None), "none", QueryCall)

StartProbe ==
    /\ Joined(FALSE)
    /\ stmt.kind = "select" /\ ~Probing
    /\ NeedsProbe(stmt.query, Now.saw)
    /\ read' = Now.saw
    /\ Start("probe", stmt)
    /\ UNCHANGED <<policy, data, writer, stmt, taken>>

\* The end of the item after its probe.
ProbeEnds(probe, tie) ==
    /\ Probing
    /\ Concludes(read)
    /\ Report("ok", None, Label(stmt.query, read, tie), probe, QueryCall)

ProbeDone ==
    /\ Joined(FALSE) /\ Probing
    /\ \E tie \in TieSeen(stmt.query, Now.saw) : ProbeEnds(Now.saw, tie)

ProbeRaised == Joined(TRUE) /\ ProbeEnds("failed", None)

\* t.join returned after timeout_seconds and t.is_alive().
Timeout ==
    /\ pc = "join"
    /\ Now.state # "ended"
    /\ pc' = "overdue"
    /\ UNCHANGED <<policy, data, writer, threads, stmt, read, report, taken>>

\* raw_conn_ref[0].interrupt() aborts the statement that runs on the
\* connection; it is without effect before and after.
Interrupt ==
    /\ pc = "overdue"
    /\ threads' = [threads EXCEPT ![Len(threads)] = [Now EXCEPT !.interrupted = Now.state = "exec"]]
    /\ pc' = "grace"
    /\ UNCHANGED <<policy, data, writer, stmt, read, report, taken>>

\* Mutant: the second join has no timeout.
GraceOver_Joins == pc = "grace" /\ Now.state = "ended"

\* The second join returns when the thread has ended or after five seconds.
GraceOver == pc = "grace"

GiveUp ==
    /\ GraceOver
    /\ ~Probing
    /\ Concludes(read)
    /\ Failure("timeout")

\* A probe without an answer counts as one that found no row beyond the cut.
GiveUpProbe == GraceOver /\ ProbeEnds("timeout", FALSE)

Analyzer ==
    \/ Raised \/ MutationDone \/ QueryDone \/ StartProbe \/ ProbeDone \/ ProbeRaised
    \/ Timeout \/ Interrupt \/ GiveUp \/ GiveUpProbe
------------------------------------------------------------------------------
Writes(k) == threads[k].stmt.kind # "select"

Moves(k, from) ==
    /\ threads[k].state = from
    /\ UNCHANGED <<policy, pc, stmt, read, report, taken>>

Becomes(k, thread) == threads' = [threads EXCEPT ![k] = thread]
Ended(k, failed) == [threads[k] EXCEPT !.state = "ended", !.failed = failed]

\* The connection is there, and published in raw_conn_ref.
Connect(k) ==
    /\ Moves(k, "connect")
    /\ Becomes(k, [threads[k] EXCEPT !.state = "ready"])
    /\ UNCHANGED <<data, writer>>

\* No connection, or the database stays locked longer than sqlite3 waits.
Refused(k) ==
    /\ \/ Moves(k, "connect")
       \/ Moves(k, "ready") /\ Writes(k) /\ writer # 0
    /\ Becomes(k, Ended(k, TRUE))
    /\ UNCHANGED <<data, writer>>

\* A query reads what is committed when it starts; a write waits for the lock.
Execute(k) ==
    /\ Moves(k, "ready")
    /\ Writes(k) => writer = 0
    /\ Becomes(k, [threads[k] EXCEPT !.state = "exec", !.saw = data])
    /\ writer' = IF Writes(k) THEN k ELSE writer
    /\ UNCHANGED data

\* Mutant: the statement is refused and the transaction stays open.
Released_OnlyDone(k) == IF writer = k /\ ~threads'[k].failed THEN 0 ELSE writer

\* Whether by trans.rollback() or by its own commit, the transaction is over.
Released(k) == IF writer = k THEN 0 ELSE writer

\* There was no transaction for rollback to undo.
SelfCommits(s) == s.kind \in {"cte", "other"}

\* The statement runs to its end.  Fetching the rows of one that has none
\* raises, after its effect.
Finish(k) ==
    /\ Moves(k, "exec")
    /\ Becomes(k, Ended(k, threads[k].stmt.kind = "other"))
    /\ data' = IF SelfCommits(threads[k].stmt) THEN "after" ELSE data
    /\ writer' = Released(k)

\* The database refuses it, or the interrupt ends it.
Fail(k) ==
    /\ Moves(k, "exec")
    /\ Becomes(k, Ended(k, TRUE))
    /\ writer' = Released(k)
    /\ UNCHANGED data

Next ==
    \/ \E s \in Statements : TakeUnreachable(s) \/ TakeRefused(s) \/ TakeExecuted(s)
    \/ Analyzer
    \/ \E k \in DOMAIN threads : Connect(k) \/ Refused(k) \/ Execute(k) \/ Finish(k) \/ Fail(k)

Spec == Init /\ [][Next]_execVars

\* The analyzer's own thread runs and its joins time out; nothing is assumed of
\* the threads it starts.
FairSpec == Spec /\ WF_execVars(Analyzer)
------------------------------------------------------------------------------
ThreadType ==
    [purpose : {"query", "probe"}, stmt : Statements,
     state : {"connect", "ready", "exec", "ended"}, failed : BOOLEAN,
     interrupted : BOOLEAN, saw : Versions \union {None}]

ReportType ==
    [stmt : Statements, status : {"ok", "failed"},
     error : Refusals \union {None, "db_unreachable", "execution", "timeout"},
     label : Labels \union {None}, probe : Versions \union {"none", "failed", "timeout"},
     read : Versions \union {None}, call : Nat]

\* Every variable keeps to its type: the analyzer's, its threads' and the file's.
TypeOK ==
    /\ policy \in Policies
    /\ data \in Versions
    /\ writer \in 0..Len(threads)
    /\ threads \in Seq(ThreadType)
    /\ pc \in {"idle", "join", "overdue", "grace"}
    /\ stmt \in Statements \union {None}
    /\ read \in Versions \union {None}
    /\ report \in ReportType \union {None}
    /\ taken \in 0..MaxItems
    /\ \A k \in DOMAIN threads : threads[k].saw = None =>
            \/ threads[k].state \in {"connect", "ready"}
            \/ threads[k].state = "ended" /\ threads[k].failed
    /\ pc # "idle" => threads # <<>> /\ Now.stmt = stmt /\ stmt \in Statements
    /\ pc # "idle" /\ Probing => Len(threads) > 1 /\ stmt.kind = "select" /\ read # None

\* In select_only mode nothing an item carries reaches the database but a
\* query, so neither the data nor its lock is ever touched.
SelectOnlyIsInert ==
    policy.mode = "select_only" =>
        /\ data = "before" /\ writer = 0
        /\ \A k \in DOMAIN threads : threads[k].stmt.kind = "select"

\* A mutation that starts with its verb leaves no trace, whether it ends, is
\* refused, is interrupted or is left behind: the data change only by a
\* statement sqlite3 opens no transaction for, and the lock is held only by a
\* thread that is inside its statement.
TransactionsLeaveNoTrace ==
    /\ data # "before" =>
        \E k \in DOMAIN threads :
            threads[k].state = "ended" /\ threads[k].stmt.kind \in {"cte", "other"}
    /\ writer # 0 => threads[writer].state = "exec" /\ Writes(writer)
    /\ \A k \in DOMAIN threads : threads[k].state = "exec" /\ Writes(k) => writer = k

\* What an ok event reports is the answer of the item's own statement, and not
\* one that came after its time or from a thread left behind.
OkIsOwnAnswer ==
    report # None /\ report.status = "ok" =>
        LET t == threads[report.call]
        IN  /\ t.purpose = "query" /\ t.stmt = report.stmt
            /\ t.state = "ended" /\ ~t.failed /\ ~t.interrupted
            /\ report.read = IF t.stmt.kind = "select" THEN t.saw ELSE None

\* The label is what the data say: DETERMINISTIC only if every database would
\* return these values, SET_AMBIGUOUS only if other rows rank equally.  A label
\* is wrong, and the code lets it be, when the data change before the probe,
\* when ties and canonical forms differ, when a cut at an OFFSET divides equals
\* or cannot be told, and for an aggregate that is called ambiguous.
LabelSound ==
    report # None /\ report.label # None /\ report.probe \in {"none", report.read} =>
        LET q == report.stmt.query
            rows == RowsOf(q, report.read)
        IN  CutKnown(q) =>
                /\ report.label = "DETERMINISTIC" /\ SkipsCleanly(q, rows) =>
                    Determined(q, RealLimit(q), rows) \/ (report.probe # "none" /\ ~TiesShow(rows))
                /\ report.label = "SET_AMBIGUOUS" =>
                    SeveralAnswers(q, RealLimit(q), rows) \/ q.aggregate \/ ~TiesTrue(rows)

\* Whatever the threads do, each item gets its event.
EveryItemReported == (pc # "idle") ~> (pc = "idle")

\* query_execution/README.md:198: "UPDATE/DELETE/INSERT queries are executed in
\* a transaction that is always rolled back."  One that starts with WITH is not.
MutationsRolledBack ==
    data # "before" =>
        \E k \in DOMAIN threads : threads[k].state = "ended" /\ threads[k].stmt.kind = "other"

\* _probe_tie: "Returns None when the question could not be settled, so that an
\* unprovable case is never reported as proven safe" (lines 295-296).
UnprovenIsNotSafe ==
    report # None /\ report.label = "DETERMINISTIC" => report.probe \in {"none"} \union Versions
================================================================================
