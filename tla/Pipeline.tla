------------------------------- MODULE Pipeline -------------------------------
(***************************************************************************)
(* run_pipeline: a chain of generators.  The writer pulls one item at a    *)
(* time through the loader, the normalizers and the analyzers; each        *)
(* analyzer sends an event to the sink and appends a step to the item, or  *)
(* skips an item that an earlier step failed.  An exception that no stage  *)
(* catches ends the run where it stands.                                   *)
(*                                                                         *)
(* What schema validation finds in a database is SchemaChecks.  What the   *)
(* other analyzers find is modelled elsewhere (QueryExecution, LlmJudge);  *)
(* here it is any of the statuses they can give.                           *)
(***************************************************************************)
EXTENDS SchemaChecks

CONSTANTS
    Ids, Dbs, Texts,    \* ids and dbIds of source items, their question and sql
    Jobs                \* the runs: what a run loads, and its configuration

\* The statuses of each analyzer for an item it does not skip.
Outcomes == [
    schema_analysis          |-> {"ok", "errors", "warns", "failed"},
    query_syntax             |-> {"ok", "failed"},
    query_execution          |-> {"ok", "failed"},
    query_antipattern        |-> {"ok", "warns", "failed"},
    question_sql_consistency |-> {"ok", "warns", "skipped", "errors"},
    semantic_llm_judge       |-> {"ok", "warns", "errors", "failed"}]

Analyzers == DOMAIN Outcomes
Status == {"ok", "warns", "errors", "failed", "skipped"}

\* A source item: the id and dbId it came with, the dbId db_identity_assign
\* gives it and whether that fails, its question and sql (None when one of them
\* is null), and the stage that raises on it: the loader on a line that is no
\* item, json.dumps on a value it cannot write.
SourceItem ==
    [id : Ids \union {None}, db : Dbs \union {None}, target : Dbs \union {None},
     unusable : BOOLEAN, text : Texts \union {None}, raises : {"none", "load", "write"}]

\* What the stages make of it: its steps, and the events about it.
Step == [name : Analyzers \union {"db_identity_assign"}, status : Status]
Id == Ids \union ({"n"} \X Nat) \union ({"h"} \X Dbs \X Texts)
Item == [n : Nat \ {0}, id : Id \union {None}, db : Dbs \union {None}, steps : Seq(Step)]
Event == [n : Nat \ {0}, name : Analyzers, db : Dbs \union {None}, status : Status]

\* A run: the items it loads, what the databases hold, its normalizers and
\* enabled analyzers in configuration order (each analyzer once), and the mode
\* of id_assign.
Distinct(s) == \A i, j \in DOMAIN s : s[i] = s[j] => i = j

Job ==
    [dataset : Seq(SourceItem), contents : [Dbs -> Database],
     normalizers : Seq({"id_assign", "db_identity_assign"}),
     idMode : {"incremental", "hash"},
     chain : {s \in Seq(Analyzers) : Distinct(s)}]

ASSUME PipelineAssumption ==
    /\ Jobs \subseteq Job /\ \A j \in Jobs, d \in Dbs : Accepted(j.contents[d])
    /\ None \notin Id \union Dbs \union Texts \union Item \union Status

VARIABLES
    state,      \* "run", "done" or "aborted"
    job,        \* the run's dataset and configuration
    loaded,     \* how many items it has yielded
    cur,        \* the item between the loader and the writer, None without one
    stage,      \* the stage it is at
    counter,    \* IdAssign._counter
    cache,      \* SchemaValidationAnalyzer._analyzed_dbs
    events,     \* what the analyzers wrote to the sink
    lines       \* annotatedOutputDataset.jsonl

pipeVars == <<state, job, loaded, cur, stage, counter, cache, events, lines>>

Stages == job.normalizers \o job.chain
Source == job.dataset[cur.n]

------------------------------------------------------------------------------
Init ==
    /\ state = "run"
    /\ job \in Jobs
    /\ loaded = 0
    /\ cur = None
    /\ stage = 1
    /\ counter = 1
    /\ cache = [d \in Dbs \union {None} |-> None]
    /\ events = <<>>
    /\ lines = <<>>

Load ==
    /\ state = "run"
    /\ cur = None
    /\ loaded < Len(job.dataset)
    /\ job.dataset[loaded + 1].raises # "load"
    /\ loaded' = loaded + 1
    /\ cur' = [n |-> loaded + 1, id |-> job.dataset[loaded + 1].id,
               db |-> job.dataset[loaded + 1].db, steps |-> <<>>]
    /\ stage' = 1
    /\ UNCHANGED <<state, job, counter, cache, events, lines>>

\* An exception nobody catches: the files and the sink are closed as they are.
Abort ==
    /\ state' = "aborted"
    /\ UNCHANGED <<job, loaded, cur, stage, counter, cache, events, lines>>

LoadRaises ==
    /\ state = "run"
    /\ cur = None
    /\ loaded < Len(job.dataset)
    /\ job.dataset[loaded + 1].raises = "load"
    /\ Abort

\* The item is at the stage of that name.
At(name) ==
    /\ state = "run"
    /\ cur # None
    /\ stage <= Len(Stages)
    /\ Stages[stage] = name

\* The item leaves its stage.
Pass(item) ==
    /\ cur' = item
    /\ stage' = stage + 1
    /\ UNCHANGED <<state, job, loaded, lines>>

Annotated(name, status) ==
    [cur EXCEPT !.steps = Append(@, [name |-> name, status |-> status])]
------------------------------------------------------------------------------
KeepId == At("id_assign") /\ cur.id # None /\ Pass(cur) /\ UNCHANGED <<counter, cache, events>>

CountId ==
    /\ At("id_assign")
    /\ cur.id = None
    /\ job.idMode = "incremental"
    /\ Pass([cur EXCEPT !.id = <<"n", counter>>])
    /\ counter' = counter + 1
    /\ UNCHANGED <<cache, events>>

\* _stable_hash encodes dbId, question and sql.
Hashable == cur.db # None /\ Source.text # None

HashId ==
    /\ At("id_assign")
    /\ cur.id = None
    /\ job.idMode = "hash"
    /\ Hashable
    /\ Pass([cur EXCEPT !.id = <<"h", cur.db, Source.text>>])
    /\ UNCHANGED <<counter, cache, events>>

\* None has no encode().
HashRaises ==
    /\ At("id_assign")
    /\ cur.id = None
    /\ job.idMode = "hash"
    /\ ~Hashable
    /\ Abort

\* The status _mark_failed gives.
MarkStatus == "failed"

\* DbIdentityAssign (module DbIdentity): the dbId, and a step if it fails.
AssignDb ==
    /\ At("db_identity_assign")
    /\ Pass([(IF Source.unusable THEN Annotated("db_identity_assign", MarkStatus) ELSE cur)
                EXCEPT !.db = Source.target])
    /\ UNCHANGED <<counter, cache, events>>
------------------------------------------------------------------------------
\* Mutant: only the last step is looked at.
Failed_Last(steps) == steps # <<>> /\ steps[Len(steps)].status = "failed"

\* has_previous_failure.
Failed(steps) == \E i \in DOMAIN steps : steps[i].status = "failed"

\* The analyzer writes an event with the status and annotates the item with it.
Report(name, status) ==
    /\ events' = Append(events, [n |-> cur.n, name |-> name, db |-> cur.db, status |-> status])
    /\ Pass(Annotated(name, status))

\* Mutant: an item that is skipped has no event.
Skip_Silent(name) ==
    /\ At(name)
    /\ Failed(cur.steps)
    /\ Pass(Annotated(name, "skipped"))
    /\ UNCHANGED <<counter, cache, events>>

Skip(name) ==
    /\ At(name)
    /\ Failed(cur.steps)
    /\ Report(name, "skipped")
    /\ UNCHANGED <<counter, cache>>

Analyze(name, status) ==
    /\ name # "schema_analysis"
    /\ At(name)
    /\ ~Failed(cur.steps)
    /\ status \in Outcomes[name]
    /\ Report(name, status)
    /\ UNCHANGED <<counter, cache>>

\* Mutant: a database that failed is analyzed again.
Cached_NotFailed(status) == IF status = "failed" THEN None ELSE status

\* What _analyzed_dbs keeps of a database: its status, whatever it is.
Cached(status) == status

\* What the schema of that dbId can be found to be: it cannot be reached, or its
\* contents decide.
Verdicts(d) == {"failed"} \union (IF d \in Dbs THEN {Verdict(job.contents[d])} ELSE {})

\* The first item of a database: analyze the schema and keep the status.
AnalyzeSchema(status) ==
    /\ At("schema_analysis")
    /\ ~Failed(cur.steps)
    /\ cache[cur.db] = None
    /\ status \in Verdicts(cur.db)
    /\ Report("schema_analysis", status)
    /\ cache' = [cache EXCEPT ![cur.db] = Cached(status)]
    /\ UNCHANGED counter

\* The others are annotated with it, without an event.
RepeatSchema ==
    /\ At("schema_analysis")
    /\ ~Failed(cur.steps)
    /\ cache[cur.db] # None
    /\ Pass(Annotated("schema_analysis", cache[cur.db]))
    /\ UNCHANGED <<counter, cache, events>>
------------------------------------------------------------------------------
Finished == state = "run" /\ cur # None /\ stage > Len(Stages)

\* Mutant: the failed items are left out of the output.
Write_Passed ==
    /\ Finished
    /\ Source.raises # "write"
    /\ lines' = IF Failed(cur.steps) THEN lines ELSE Append(lines, cur)
    /\ cur' = None
    /\ UNCHANGED <<state, job, loaded, stage, counter, cache, events>>

Write ==
    /\ Finished
    /\ Source.raises # "write"
    /\ lines' = Append(lines, cur)
    /\ cur' = None
    /\ UNCHANGED <<state, job, loaded, stage, counter, cache, events>>

WriteRaises == Finished /\ Source.raises = "write" /\ Abort

End ==
    /\ state = "run"
    /\ cur = None
    /\ loaded = Len(job.dataset)
    /\ state' = "done"
    /\ UNCHANGED <<job, loaded, cur, stage, counter, cache, events, lines>>

Interrupt == state = "run" /\ Abort

Next ==
    \/ Load \/ LoadRaises
    \/ KeepId \/ CountId \/ HashId \/ HashRaises
    \/ AssignDb
    \/ \E name \in Analyzers : Skip(name) \/ (\E status \in Status : Analyze(name, status))
    \/ RepeatSchema
    \/ \E status \in Status : AnalyzeSchema(status)
    \/ Write \/ WriteRaises
    \/ End
    \/ Interrupt

Spec == Init /\ [][Next]_pipeVars
------------------------------------------------------------------------------
\* Every variable keeps to its type: the chain's state and its two outputs.
TypeOK ==
    /\ state \in {"run", "done", "aborted"}
    /\ job \in Jobs
    /\ loaded \in 0..Len(job.dataset)
    /\ cur \in Item \union {None}
    /\ cur # None => cur.n = loaded /\ loaded > 0
    /\ stage \in Nat \ {0}
    /\ counter \in Nat
    /\ cache \in [Dbs \union {None} -> Outcomes.schema_analysis \union {None}]
    /\ events \in Seq(Event)
    /\ lines \in Seq(Item)

\* The items that have steps: the written ones and the one under way.
Written == {lines[i] : i \in DOMAIN lines}
Seen == Written \union (IF cur = None THEN {} ELSE {cur})

\* Once a step of an item has failed, a normalizer's or an analyzer's, every
\* later analyzer skips it, so none runs a query or asks a model about it.
NothingAfterFailure ==
    \A item \in Seen : \A i, j \in DOMAIN item.steps :
        i < j /\ item.steps[i].status = "failed" /\ item.steps[j].name \in Analyzers
            => item.steps[j].status = "skipped"

\* The annotated output is the dataset from its first item on, in order and
\* without a gap, wherever the run ends; the events are those of these items
\* and of at most one more.
OutputIsPrefix ==
    /\ \A i \in DOMAIN lines : lines[i].n = i
    /\ \A k \in DOMAIN events : events[k].n <= Len(lines) + 1
    /\ state = "done" => Len(lines) = Len(job.dataset)

\* The schema event of a database that an item without one of its own repeats.
Repeats(item, status) ==
    /\ status # "skipped"
    /\ \E k \in DOMAIN events :
        /\ events[k].name = "schema_analysis"
        /\ events[k].db = item.db
        /\ events[k].status = status
        /\ events[k].n < item.n

\* The metrics agree with the annotated items: each analyzer's step has exactly
\* one event, with its status; a schema step may instead repeat the event of an
\* earlier item of its database.
EventsMatchSteps ==
    \A item \in Seen : \A j \in DOMAIN item.steps : item.steps[j].name \in Analyzers =>
        LET step == item.steps[j]
            own == {k \in DOMAIN events : events[k].n = item.n /\ events[k].name = step.name}
        IN  \/ \E k \in own : own = {k} /\ events[k].status = step.status
            \/ own = {} /\ step.name = "schema_analysis" /\ Repeats(item, step.status)

\* A database gets one schema verdict in a run, and every item of it that is
\* not skipped carries that one.
OneVerdictPerDb ==
    /\ \A j, k \in DOMAIN events :
        /\ events[j].name = "schema_analysis" /\ events[j].status # "skipped"
        /\ events[k].name = "schema_analysis" /\ events[k].status # "skipped"
        /\ events[j].db = events[k].db
        => j = k
    /\ \A x, y \in Seen : \A i \in DOMAIN x.steps, j \in DOMAIN y.steps :
        /\ x.db = y.db
        /\ x.steps[i].name = "schema_analysis" /\ x.steps[i].status # "skipped"
        /\ y.steps[j].name = "schema_analysis" /\ y.steps[j].status # "skipped"
        => x.steps[i].status = y.steps[j].status

\* Of the item's database, what a schema step that is not skipped or failed says:
\* after "ok" or "warns" every reference can be followed, unless a foreign key
\* aims at part of a composite key, which also keeps SQLite from counting any
\* other's dangling rows; after "errors" some reference cannot, unless the
\* analyzer did not recognize a target; and no table is out of sight of an "ok".
SchemaStepRight(item, status) ==
    LET db == job.contents[item.db]
    IN  /\ status \in {"ok", "warns", "errors"} => item.db \in Dbs
        /\ status \in {"ok", "warns"} =>
            References(db) \/ \E f \in Foreign(db) : PartOfKey(db, f[2])
        /\ status = "errors" =>
            ~References(db) \/ \E f \in Foreign(db) : Unrecognized(db, f[2])
        /\ status = "ok" => Described(db) = Existing(db)

\* So it is for every item, however many items came before it and whatever is
\* cached of its database.
SchemaStepsRight ==
    \A item \in Seen : \A j \in DOMAIN item.steps :
        item.steps[j].name = "schema_analysis" => SchemaStepRight(item, item.steps[j].status)
===============================================================================
