----------------------------- MODULE PipelineProofs -----------------------------
(***************************************************************************)
(* Proofs about Pipeline: its types, the skip rule, the order of the       *)
(* output, the one verdict per database and what it says of it, and the    *)
(* agreement of events and steps, for any jobs.                            *)
(***************************************************************************)
EXTENDS Pipeline, SequenceTheorems, TLAPS

USE PipelineAssumption DEF PipelineAssumption

------------------------------------------------------------------------------
(* Types. *)

\* The item under way, and what its source says of it.
LEMMA CurType ==
    ASSUME TypeOK, cur # None
    PROVE  /\ cur \in Item /\ cur.n = loaded /\ loaded \in Nat \ {0}
           /\ cur.id \in Id \union {None} /\ cur.db \in Dbs \union {None} /\ cur.steps \in Seq(Step)
           /\ cur = [n |-> cur.n, id |-> cur.id, db |-> cur.db, steps |-> cur.steps]
           /\ Source \in SourceItem
<1>1. cur \in Item /\ cur.n = loaded /\ loaded > 0 /\ loaded \in 0..Len(job.dataset) /\ job \in Job
  BY DEF TypeOK
<1>2. job.dataset \in Seq(SourceItem)
  BY <1>1 DEF Job
<1>3. Source \in SourceItem
  BY <1>1, <1>2 DEF Source
<1>4. QED
  BY <1>1, <1>2, <1>3 DEF Item

LEMMA NextSource ==
    ASSUME TypeOK, loaded < Len(job.dataset)
    PROVE  /\ loaded + 1 \in 1..Len(job.dataset) /\ loaded \in Nat /\ Len(job.dataset) \in Nat
           /\ job.dataset[loaded + 1] \in SourceItem
<1>1. job \in Job /\ loaded \in 0..Len(job.dataset)
  BY DEF TypeOK
<1>2. job.dataset \in Seq(SourceItem)
  BY <1>1 DEF Job
<1>3. QED
  BY <1>1, <1>2

LEMMA NamesAndStatuses ==
    /\ Analyzers = {"schema_analysis", "query_syntax", "query_execution", "query_antipattern",
                    "question_sql_consistency", "semantic_llm_judge"}
    /\ \A name \in Analyzers : Outcomes[name] \subseteq Status \ {"skipped"} \/ name = "question_sql_consistency"
    /\ Outcomes.schema_analysis = {"ok", "errors", "warns", "failed"}
    /\ MarkStatus \in Status
  BY DEF Analyzers, Outcomes, Status, MarkStatus

\* The item that leaves a stage with one more step.
LEMMA AnnotatedType ==
    ASSUME TypeOK, cur # None, NEW name \in Analyzers \union {"db_identity_assign"}, NEW status \in Status
    PROVE  /\ Annotated(name, status) \in Item /\ Annotated(name, status).n = cur.n
           /\ Annotated(name, status).db = cur.db /\ Annotated(name, status).id = cur.id
           /\ Annotated(name, status).steps = Append(cur.steps, [name |-> name, status |-> status])
           /\ [name |-> name, status |-> status] \in Step
<1> DEFINE step == [name |-> name, status |-> status]
<1>1. step \in Step
  BY DEF Step
<1>2. cur.steps \in Seq(Step) /\ cur \in Item
  BY CurType
<1>3. Append(cur.steps, step) \in Seq(Step)
  BY <1>1, <1>2
<1>4. QED
  BY <1>1, <1>2, <1>3 DEF Annotated, Item

\* A stage passes the item on.
LEMMA PassType ==
    ASSUME TypeOK, cur # None, NEW item \in Item, item.n = cur.n, Pass(item), counter' \in Nat,
           cache' \in [Dbs \union {None} -> Outcomes.schema_analysis \union {None}],
           events' \in Seq(Event)
    PROVE  TypeOK'
<1>1. cur' = item /\ stage' = stage + 1 /\ UNCHANGED <<state, job, loaded, lines>> /\ item # None
  BY DEF Pass
<1>2. cur.n = loaded /\ loaded > 0
  BY DEF TypeOK
<1>3. QED
  BY <1>1, <1>2 DEF TypeOK

\* The item with another id, or with another dbId.
LEMMA ItemWith ==
    ASSUME NEW item \in Item, NEW id \in Id \union {None}, NEW db \in Dbs \union {None}
    PROVE  /\ [item EXCEPT !.id = id] \in Item /\ [item EXCEPT !.db = db] \in Item
           /\ [item EXCEPT !.id = id].n = item.n /\ [item EXCEPT !.id = id].steps = item.steps
           /\ [item EXCEPT !.id = id].db = item.db
           /\ [item EXCEPT !.db = db].n = item.n /\ [item EXCEPT !.db = db].steps = item.steps
           /\ [item EXCEPT !.db = db].db = db
  BY DEF Item

\* The event and the step of an analyzer.
LEMMA ReportType ==
    ASSUME TypeOK, cur # None, NEW name \in Analyzers, NEW status \in Status, Report(name, status)
    PROVE  /\ [n |-> cur.n, name |-> name, db |-> cur.db, status |-> status] \in Event
           /\ events' = Append(events, [n |-> cur.n, name |-> name, db |-> cur.db, status |-> status])
           /\ events' \in Seq(Event)
           /\ Annotated(name, status) \in Item /\ Annotated(name, status).n = cur.n
           /\ Pass(Annotated(name, status))
<1> DEFINE event == [n |-> cur.n, name |-> name, db |-> cur.db, status |-> status]
<1>1. event \in Event
  BY CurType DEF Event
<1>2. events' = Append(events, event) /\ Pass(Annotated(name, status))
  BY DEF Report
<1>3. events \in Seq(Event)
  BY DEF TypeOK
<1>4. events' \in Seq(Event)
  BY <1>1, <1>2, <1>3
<1>5. QED
  BY <1>1, <1>2, <1>4, AnnotatedType

\* What AssignDb makes of the item.
Assigned == [(IF Source.unusable THEN Annotated("db_identity_assign", MarkStatus) ELSE cur)
                EXCEPT !.db = Source.target]

LEMMA AssignedType ==
    ASSUME TypeOK, cur # None
    PROVE  /\ Assigned \in Item /\ Assigned.n = cur.n /\ Assigned.db = Source.target
           /\ \/ Assigned.steps = cur.steps
              \/ Assigned.steps = Append(cur.steps, [name |-> "db_identity_assign", status |-> MarkStatus])
<1> DEFINE item == IF Source.unusable THEN Annotated("db_identity_assign", MarkStatus) ELSE cur
<1>1. Source \in SourceItem /\ cur \in Item
  BY CurType
<1>2. Source.target \in Dbs \union {None} /\ None \in Id \union {None}
  BY <1>1 DEF SourceItem
<1>3. MarkStatus \in Status
  BY DEF MarkStatus, Status
<1>4. /\ item \in Item /\ item.n = cur.n
      /\ item.steps = cur.steps
         \/ item.steps = Append(cur.steps, [name |-> "db_identity_assign", status |-> MarkStatus])
  BY <1>1, <1>3, AnnotatedType
<1> HIDE DEF item
<1>5. [item EXCEPT !.db = Source.target] \in Item /\ [item EXCEPT !.db = Source.target].n = item.n
      /\ [item EXCEPT !.db = Source.target].steps = item.steps
      /\ [item EXCEPT !.db = Source.target].db = Source.target
  BY ZenonT(30), <1>2, <1>4, ItemWith
<1>6. Assigned = [item EXCEPT !.db = Source.target]
  BY DEF Assigned, item
<1>7. QED
  BY <1>4, <1>5, <1>6

\* The loader's next item.
LEMMA LoadType ==
    ASSUME TypeOK, Load
    PROVE  cur' \in Item /\ cur' # None /\ cur'.n = loaded' /\ loaded' = loaded + 1 /\ loaded \in Nat
           /\ cur'.steps = <<>> /\ loaded' \in 0..Len(job.dataset)
<1>1. /\ loaded + 1 \in 1..Len(job.dataset) /\ loaded \in Nat /\ Len(job.dataset) \in Nat
      /\ job.dataset[loaded + 1] \in SourceItem
  BY NextSource DEF Load
<1>2. /\ job.dataset[loaded + 1].id \in Id \union {None}
      /\ job.dataset[loaded + 1].db \in Dbs \union {None}
  BY <1>1 DEF SourceItem, Id
<1>3. <<>> \in Seq(Step)
  OBVIOUS
<1>4. /\ cur' = [n |-> loaded + 1, id |-> job.dataset[loaded + 1].id,
                 db |-> job.dataset[loaded + 1].db, steps |-> <<>>]
      /\ loaded' = loaded + 1
  BY DEF Load
<1>5. cur' \in Item
  BY <1>1, <1>2, <1>3, <1>4 DEF Item
<1>6. QED
  BY <1>1, <1>4, <1>5

\* An analyzer's step.
AnalyzerStep(name) ==
    \/ Skip(name)
    \/ \E status \in Status : Analyze(name, status)
    \/ name = "schema_analysis" /\ (RepeatSchema \/ \E status \in Status : AnalyzeSchema(status))

\* A normalizer's step.
NormalizerStep == KeepId \/ CountId \/ HashId \/ AssignDb

\* The steps that end the run.
Stop == LoadRaises \/ HashRaises \/ WriteRaises \/ End \/ Interrupt

LEMMA KindsOfPipelineStep ==
    Next <=> \/ Load \/ NormalizerStep \/ (\E name \in Analyzers : AnalyzerStep(name)) \/ Write \/ Stop
<1>1. "schema_analysis" \in Analyzers
  BY NamesAndStatuses
<1>2. QED
  BY <1>1 DEF Next, AnalyzerStep, NormalizerStep, Stop

\* What a normalizer does to the item.
LEMMA Normalizes ==
    ASSUME TypeOK, NormalizerStep
    PROVE  /\ state = "run" /\ cur # None /\ stage <= Len(Stages)
           /\ Stages[stage] \in {"id_assign", "db_identity_assign"}
           /\ UNCHANGED <<cache, events>> /\ counter' \in Nat
           /\ \E item \in Item :
                /\ Pass(item) /\ item.n = cur.n
                /\ \/ item.steps = cur.steps
                   \/ item.steps = Append(cur.steps, [name |-> "db_identity_assign", status |-> MarkStatus])
<1>1. /\ state = "run" /\ cur # None /\ stage <= Len(Stages)
      /\ Stages[stage] \in {"id_assign", "db_identity_assign"} /\ UNCHANGED <<cache, events>>
  BY DEF NormalizerStep, KeepId, CountId, HashId, AssignDb, At
<1>2. cur \in Item /\ counter \in Nat /\ Source \in SourceItem /\ cur.db \in Dbs \union {None}
  BY <1>1, CurType DEF TypeOK
<1>3. CASE KeepId
  BY <1>1, <1>2, <1>3 DEF KeepId
<1>4. CASE CountId
  <2>1. <<"n", counter>> \in Id
    BY <1>2 DEF Id
  <2>2. Pass([cur EXCEPT !.id = <<"n", counter>>]) /\ counter' \in Nat
    BY <1>2, <1>4 DEF CountId
  <2>3. QED
    BY ZenonT(30), <1>1, <1>2, <2>1, <2>2, ItemWith
<1>5. CASE HashId
  <2>1. cur.db \in Dbs /\ Source.text \in Texts
    BY <1>2, <1>5 DEF HashId, Hashable, SourceItem
  <2>2. <<"h", cur.db, Source.text>> \in Id
    BY <2>1 DEF Id
  <2>3. Pass([cur EXCEPT !.id = <<"h", cur.db, Source.text>>]) /\ counter' = counter
    BY <1>5 DEF HashId
  <2>4. QED
    BY ZenonT(30), <1>1, <1>2, <2>2, <2>3, ItemWith
<1>6. CASE AssignDb
  <2>1. Pass(Assigned) /\ counter' = counter
    BY <1>6 DEF AssignDb, Assigned
  <2>2. QED
    BY <1>1, <1>2, <2>1, AssignedType
<1>7. QED
  BY <1>3, <1>4, <1>5, <1>6 DEF NormalizerStep

\* What an analyzer does to the item: one step, "skipped" once one has failed.
LEMMA Analyzes ==
    ASSUME TypeOK, NEW name \in Analyzers, AnalyzerStep(name)
    PROVE  /\ state = "run" /\ cur # None /\ stage <= Len(Stages) /\ Stages[stage] = name
           /\ counter' = counter
           /\ \E status \in Status :
                /\ Pass(Annotated(name, status))
                /\ Failed(cur.steps) => status = "skipped"
                /\ events' = events \/ Report(name, status)
<1>1. /\ state = "run" /\ cur # None /\ stage <= Len(Stages) /\ Stages[stage] = name
      /\ counter' = counter
  BY DEF AnalyzerStep, Skip, Analyze, RepeatSchema, AnalyzeSchema, At
<1>2. CASE Skip(name)
  BY <1>1, <1>2 DEF Skip, Report, Status
<1>3. CASE \E status \in Status : Analyze(name, status)
  BY <1>1, <1>3 DEF Analyze, Report
<1>4. CASE name = "schema_analysis" /\ RepeatSchema
  <2>1. cache[cur.db] \in Status
    BY <1>4, CurType, NamesAndStatuses DEF RepeatSchema, TypeOK, Status, At
  <2>2. QED
    BY <1>1, <1>4, <2>1 DEF RepeatSchema
<1>5. CASE name = "schema_analysis" /\ \E status \in Status : AnalyzeSchema(status)
  BY <1>1, <1>5 DEF AnalyzeSchema, Report
<1>6. QED
  BY <1>2, <1>3, <1>4, <1>5 DEF AnalyzerStep
LEMMA VerdictsType == \A d : Verdicts(d) \subseteq Outcomes.schema_analysis
<1>1. \A d : Verdict(job.contents[d]) \in {"ok", "errors", "warns"}
  BY DEF Verdict
<1>2. QED
  BY <1>1, NamesAndStatuses DEF Verdicts

\* Only the schema analyzer's first item of a database changes what it keeps.
LEMMA AnalyzerCache ==
    ASSUME TypeOK, NEW name \in Analyzers, AnalyzerStep(name)
    PROVE  cache' \in [Dbs \union {None} -> Outcomes.schema_analysis \union {None}]
<1>1. cache \in [Dbs \union {None} -> Outcomes.schema_analysis \union {None}]
  BY DEF TypeOK
<1>2. CASE cache' = cache
  BY <1>1, <1>2
<1>3. CASE \E status \in Status : AnalyzeSchema(status)
  <2>1. PICK status \in Status : AnalyzeSchema(status)
    BY <1>3
  <2>2. status \in Outcomes.schema_analysis /\ cache' = [cache EXCEPT ![cur.db] = status]
    BY <2>1, VerdictsType DEF AnalyzeSchema, Cached
  <2>3. QED
    BY <1>1, <2>2
<1>4. QED
  BY <1>2, <1>3 DEF AnalyzerStep, Skip, Analyze, RepeatSchema

\* A step that ends the run changes nothing else.
LEMMA Stops ==
    ASSUME Stop
    PROVE  /\ state' \in {"done", "aborted"}
           /\ state' = "done" => cur = None /\ loaded = Len(job.dataset)
           /\ UNCHANGED <<job, loaded, cur, stage, counter, cache, events, lines>>
  BY DEF Stop, LoadRaises, HashRaises, WriteRaises, End, Interrupt, Abort

\* The writer's.
LEMMA Writes ==
    ASSUME TypeOK, Write
    PROVE  /\ cur \in Item /\ cur.n = loaded /\ cur # None /\ cur' = None
           /\ lines \in Seq(Item) /\ lines' = Append(lines, cur) /\ lines' \in Seq(Item)
           /\ UNCHANGED <<state, job, loaded, stage, counter, cache, events>>
<1>1. cur # None /\ cur' = None /\ lines' = Append(lines, cur)
      /\ UNCHANGED <<state, job, loaded, stage, counter, cache, events>>
  BY DEF Write, Finished
<1>2. cur \in Item /\ cur.n = loaded /\ lines \in Seq(Item)
  BY <1>1, CurType DEF TypeOK
<1>3. QED
  BY <1>1, <1>2

LEMMA TypeInit == Init => TypeOK
<1> SUFFICES ASSUME Init PROVE TypeOK
  OBVIOUS
<1>1. job \in Job /\ job \in Jobs
  BY DEF Init
<1>2. Len(job.dataset) \in Nat
  BY <1>1 DEF Job
<1>3. <<>> \in Seq(Event) /\ <<>> \in Seq(Item)
  OBVIOUS
<1>4. QED
  BY <1>1, <1>2, <1>3 DEF Init, TypeOK

LEMMA TypeStep == TypeOK /\ [Next]_pipeVars => TypeOK'
<1> SUFFICES ASSUME TypeOK, [Next]_pipeVars PROVE TypeOK'
  OBVIOUS
<1>1. CASE Load
  <2>1. cur' \in Item /\ cur' # None /\ cur'.n = loaded' /\ loaded' > 0 /\ loaded' \in 0..Len(job.dataset)
    BY <1>1, LoadType
  <2>2. stage' = 1 /\ UNCHANGED <<state, job, counter, cache, events, lines>>
    BY <1>1 DEF Load
  <2>3. QED
    BY <2>1, <2>2 DEF TypeOK
<1>2. CASE NormalizerStep
  <2>1. PICK item \in Item : Pass(item) /\ item.n = cur.n
    BY <1>2, Normalizes
  <2>2. cur # None /\ UNCHANGED <<cache, events>> /\ counter' \in Nat
    BY <1>2, Normalizes
  <2>3. cache' \in [Dbs \union {None} -> Outcomes.schema_analysis \union {None}] /\ events' \in Seq(Event)
    BY <2>2 DEF TypeOK
  <2>4. QED
    BY <2>1, <2>2, <2>3, PassType
<1>3. CASE \E name \in Analyzers : AnalyzerStep(name)
  <2>1. PICK name \in Analyzers : AnalyzerStep(name)
    BY <1>3
  <2>2. cur # None /\ counter' = counter
    BY <2>1, Analyzes
  <2>3. PICK status \in Status :
            Pass(Annotated(name, status)) /\ (events' = events \/ Report(name, status))
    BY <2>1, Analyzes
  <2>4. events' \in Seq(Event)
    BY <2>2, <2>3, ReportType DEF TypeOK
  <2>5. Annotated(name, status) \in Item /\ Annotated(name, status).n = cur.n
    BY <2>2, AnnotatedType
  <2>6. cache' \in [Dbs \union {None} -> Outcomes.schema_analysis \union {None}]
    BY <2>1, AnalyzerCache
  <2>7. counter' \in Nat
    BY <2>2 DEF TypeOK
  <2>8. QED
    BY <2>2, <2>3, <2>4, <2>5, <2>6, <2>7, PassType
<1>4. CASE Write
  BY <1>4, Writes DEF TypeOK
<1>5. CASE Stop
  BY <1>5, Stops DEF TypeOK
<1>6. CASE UNCHANGED pipeVars
  BY <1>6 DEF TypeOK, pipeVars
<1>7. QED
  BY <1>1, <1>2, <1>3, <1>4, <1>5, <1>6, KindsOfPipelineStep

\* Every variable keeps to its type, for any jobs.
(* Every variable of the generator chain keeps to its type, for any        *)
(* datasets, databases, normalizers and analyzer chains.                   *)
THEOREM PipelineTypeCorrect == Spec => []TypeOK
  BY TypeInit, TypeStep, PTL DEF Spec

------------------------------------------------------------------------------
(* The skip rule. *)

\* After a failed step, every analyzer's is "skipped".
Gated(steps) ==
    \A i, j \in DOMAIN steps :
        i < j /\ steps[i].status = "failed" /\ steps[j].name \in Analyzers => steps[j].status = "skipped"

GatedInv ==
    /\ cur # None => Gated(cur.steps)
    /\ \A i \in DOMAIN lines : Gated(lines[i].steps)

\* One more step, an analyzer's only after has_previous_failure.
LEMMA GatedAppend ==
    ASSUME NEW steps \in Seq(Step), NEW step \in Step, Gated(steps),
           step.name \in Analyzers /\ Failed(steps) => step.status = "skipped"
    PROVE  Gated(Append(steps, step))
<1> DEFINE more == Append(steps, step)
<1>1. /\ more \in Seq(Step) /\ DOMAIN more = 1..(Len(steps) + 1) /\ DOMAIN steps = 1..Len(steps)
      /\ Len(steps) \in Nat
      /\ more[Len(steps) + 1] = step /\ \A i \in 1..Len(steps) : more[i] = steps[i]
  BY AppendProperties
<1> HIDE DEF more
<1> SUFFICES ASSUME NEW i \in DOMAIN more, NEW j \in DOMAIN more, i < j, more[i].status = "failed",
                    more[j].name \in Analyzers
             PROVE  more[j].status = "skipped"
  BY DEF Gated, more
<1>2. i \in DOMAIN steps /\ more[i] = steps[i]
  BY <1>1
<1>3. CASE j \in DOMAIN steps
  BY <1>1, <1>2, <1>3 DEF Gated
<1>4. CASE j = Len(steps) + 1
  BY <1>1, <1>2, <1>4 DEF Failed
<1>5. QED
  BY <1>1, <1>3, <1>4

LEMMA GatedStep == TypeOK /\ GatedInv /\ [Next]_pipeVars => GatedInv'
<1> SUFFICES ASSUME TypeOK, GatedInv, [Next]_pipeVars PROVE GatedInv'
  OBVIOUS
<1>1. ASSUME NEW item, Pass(item), cur # None, Gated(item.steps) PROVE GatedInv'
  BY <1>1 DEF GatedInv, Pass, Gated
<1>2. CASE Load
  <2>1. cur'.steps = <<>> /\ lines' = lines
    BY <1>2, LoadType DEF Load
  <2>2. Gated(<<>>)
    BY DEF Gated
  <2>3. QED
    BY <2>1, <2>2 DEF GatedInv, Gated
<1>3. CASE NormalizerStep
  <2> DEFINE step == [name |-> "db_identity_assign", status |-> MarkStatus]
  <2>1. cur # None /\ cur.steps \in Seq(Step) /\ Gated(cur.steps)
    BY <1>3, Normalizes, CurType DEF GatedInv
  <2>2. step \in Step /\ step.name \notin Analyzers
    BY NamesAndStatuses DEF Step
  <2>3. PICK item \in Item : Pass(item) /\ (item.steps = cur.steps \/ item.steps = Append(cur.steps, step))
    BY <1>3, Normalizes
  <2> HIDE DEF step
  <2>4. Gated(Append(cur.steps, step))
    BY <2>1, <2>2, GatedAppend
  <2>5. QED
    BY <1>1, <2>1, <2>3, <2>4
<1>4. CASE \E name \in Analyzers : AnalyzerStep(name)
  <2>1. PICK name \in Analyzers : AnalyzerStep(name)
    BY <1>4
  <2>2. cur # None
    BY <2>1, Analyzes
  <2>3. PICK status \in Status : Pass(Annotated(name, status)) /\ (Failed(cur.steps) => status = "skipped")
    BY <2>1, Analyzes
  <2> DEFINE step == [name |-> name, status |-> status]
  <2>4. step \in Step /\ Annotated(name, status).steps = Append(cur.steps, step) /\ step.status = status
    BY <2>2, AnnotatedType
  <2> HIDE DEF step
  <2>5. cur.steps \in Seq(Step) /\ Gated(cur.steps)
    BY <2>2, CurType DEF GatedInv
  <2>6. Gated(Append(cur.steps, step))
    BY <2>3, <2>4, <2>5, GatedAppend
  <2>7. QED
    BY <1>1, <2>2, <2>3, <2>4, <2>6
<1>5. CASE Write
  <2>1. cur' = None /\ lines' = Append(lines, cur) /\ lines \in Seq(Item) /\ cur \in Item /\ cur # None
    BY <1>5, Writes
  <2>2. ASSUME NEW i \in DOMAIN lines' PROVE Gated(lines'[i].steps)
    BY <2>1, <2>2, AppendProperties DEF GatedInv
  <2>3. QED
    BY <2>1, <2>2 DEF GatedInv, Gated
<1>6. CASE Stop
  BY <1>6, Stops DEF GatedInv, Gated
<1>7. CASE UNCHANGED pipeVars
  BY <1>7 DEF GatedInv, Gated, pipeVars
<1>8. QED
  BY <1>2, <1>3, <1>4, <1>5, <1>6, <1>7, KindsOfPipelineStep

\* No analyzer after a failed step looks at the item, neither of a written one
\* nor of the one under way, for any dataset and any chain of analyzers.
(* No analyzer after a failed step looks at an item, whatever the dataset  *)
(* and the configured chain.                                               *)
THEOREM SkipTheorem == Spec => []NothingAfterFailure
<1>1. Init => GatedInv
  BY DEF Init, GatedInv
<1>2. GatedInv => NothingAfterFailure
  BY DEF GatedInv, NothingAfterFailure, Gated, Seen, Written
<1>3. QED
  BY <1>1, <1>2, GatedStep, PipelineTypeCorrect, PTL DEF Spec

------------------------------------------------------------------------------
(* The outputs. *)

\* The lines are the items before the one under way, the events at most its.
OrderInv ==
    /\ loaded = IF cur = None THEN Len(lines) ELSE Len(lines) + 1
    /\ \A i \in DOMAIN lines : lines[i].n = i
    /\ \A k \in DOMAIN events : events[k].n <= Len(lines) + 1
    /\ state = "done" => cur = None /\ loaded = Len(job.dataset)

\* One more event, of the item under way.
LEMMA EventAppend ==
    ASSUME NEW old \in Seq(Event), NEW event \in Event, NEW bound \in Nat, event.n <= bound,
           \A k \in DOMAIN old : old[k].n <= bound
    PROVE  \A k \in DOMAIN Append(old, event) : Append(old, event)[k].n <= bound
  BY AppendProperties

LEMMA OrderStep == TypeOK /\ OrderInv /\ [Next]_pipeVars => OrderInv'
<1> SUFFICES ASSUME TypeOK, OrderInv, [Next]_pipeVars PROVE OrderInv'
  OBVIOUS
<1>0. Len(lines) \in Nat /\ loaded \in Nat
  <2>1. job \in Job /\ lines \in Seq(Item) /\ loaded \in 0..Len(job.dataset)
    BY DEF TypeOK
  <2>2. Len(job.dataset) \in Nat
    BY <2>1 DEF Job
  <2>3. QED
    BY <2>1, <2>2
<1>1. CASE Load
  <2>1. /\ cur = None /\ cur' # None /\ loaded' = loaded + 1 /\ UNCHANGED <<state, job, events, lines>>
        /\ state = "run"
    BY <1>1, LoadType DEF Load
  <2>2. QED
    BY <1>0, <2>1 DEF OrderInv
<1>2. CASE NormalizerStep
  <2>1. state = "run" /\ cur # None /\ events' = events
    BY <1>2, Normalizes
  <2>2. PICK item \in Item : Pass(item)
    BY <1>2, Normalizes
  <2>3. cur' # None /\ UNCHANGED <<state, job, loaded, lines>>
    BY <2>2 DEF Pass
  <2>4. QED
    BY <2>1, <2>3 DEF OrderInv
<1>3. CASE \E name \in Analyzers : AnalyzerStep(name)
  <2>1. PICK name \in Analyzers : AnalyzerStep(name)
    BY <1>3
  <2>2. state = "run" /\ cur # None
    BY <2>1, Analyzes
  <2>3. PICK status \in Status : Pass(Annotated(name, status)) /\ (events' = events \/ Report(name, status))
    BY <2>1, Analyzes
  <2>4. cur' # None /\ UNCHANGED <<state, job, loaded, lines>>
    BY <2>2, <2>3, AnnotatedType DEF Pass
  <2>5. \A k \in DOMAIN events' : events'[k].n <= Len(lines) + 1
    <3>1. CASE events' = events
      BY <3>1 DEF OrderInv
    <3>2. CASE Report(name, status)
      <4> DEFINE event == [n |-> cur.n, name |-> name, db |-> cur.db, status |-> status]
      <4>1. event \in Event /\ events' = Append(events, event) /\ events \in Seq(Event) /\ event.n = cur.n
        BY <2>2, <3>2, ReportType DEF TypeOK
      <4> HIDE DEF event
      <4>2. event.n = Len(lines) + 1 /\ Len(lines) + 1 \in Nat /\ event.n <= Len(lines) + 1
        BY <1>0, <2>2, <4>1, CurType DEF OrderInv
      <4>3. \A k \in DOMAIN Append(events, event) : Append(events, event)[k].n <= Len(lines) + 1
        BY <4>1, <4>2, EventAppend DEF OrderInv
      <4>4. QED
        BY <4>1, <4>3
    <3>3. QED
      BY <2>3, <3>1, <3>2
  <2>6. QED
    BY <2>2, <2>4, <2>5 DEF OrderInv
<1>4. CASE Write
  <2>1. /\ cur \in Item /\ cur.n = loaded /\ cur # None /\ cur' = None
        /\ lines \in Seq(Item) /\ lines' = Append(lines, cur)
        /\ UNCHANGED <<state, job, loaded, events>> /\ state = "run"
    BY <1>4, Writes DEF Write, Finished
  <2>2. loaded = Len(lines) + 1 /\ Len(lines') = Len(lines) + 1
    BY <2>1 DEF OrderInv
  <2>3. ASSUME NEW i \in DOMAIN lines' PROVE lines'[i].n = i
    <3>1. /\ i \in 1..(Len(lines) + 1)
          /\ i \in DOMAIN lines => lines'[i] = lines[i]
          /\ i = Len(lines) + 1 => lines'[i] = cur
          /\ DOMAIN lines = 1..Len(lines)
      BY <2>1, <2>3, AppendProperties
    <3>2. QED
      BY <1>0, <2>1, <2>2, <3>1 DEF OrderInv
  <2>4. ASSUME NEW k \in DOMAIN events' PROVE events'[k].n <= Len(lines') + 1
    <3>1. k \in DOMAIN events /\ events' = events /\ events[k].n <= Len(lines) + 1 /\ events[k] \in Event
      BY <2>1, <2>4 DEF OrderInv, TypeOK
    <3>2. events[k].n \in Nat
      BY <3>1 DEF Event
    <3>3. QED
      BY <1>0, <2>2, <3>1, <3>2
  <2>5. QED
    BY <2>1, <2>2, <2>3, <2>4 DEF OrderInv
<1>5. CASE Stop
  BY <1>5, Stops DEF OrderInv
<1>6. CASE UNCHANGED pipeVars
  BY <1>6 DEF OrderInv, pipeVars
<1>7. QED
  BY <1>1, <1>2, <1>3, <1>4, <1>5, <1>6, KindsOfPipelineStep

\* However a run ends, its output is the dataset from the first item on, in
\* order and without a gap, and the metrics are at most one item ahead of it.
(* However a run ends, its output is the dataset's first items in order,   *)
(* and the metrics are at most one item ahead.                             *)
THEOREM PrefixTheorem == Spec => []OutputIsPrefix
<1>1. Init => OrderInv
  BY DEF Init, OrderInv
<1>2. OrderInv => OutputIsPrefix
  BY DEF OrderInv, OutputIsPrefix
<1>3. QED
  BY <1>1, <1>2, OrderStep, PipelineTypeCorrect, PTL DEF Spec

------------------------------------------------------------------------------
(* The verdicts about the databases. *)

IsVerdict(x) == x.name = "schema_analysis" /\ x.status # "skipped"

\* The item's verdicts are the one that c keeps of its database.
Carries(c, item) ==
    \A i \in DOMAIN item.steps : IsVerdict(item.steps[i]) => c[item.db] = item.steps[i].status

\* An item has none while a normalizer may still change its dbId.
Unjudged(item) == \A i \in DOMAIN item.steps : ~IsVerdict(item.steps[i])

Recorded(c, evs) == \A k \in DOMAIN evs : IsVerdict(evs[k]) => c[evs[k].db] = evs[k].status

Once(evs) ==
    \A j, k \in DOMAIN evs : IsVerdict(evs[j]) /\ IsVerdict(evs[k]) /\ evs[j].db = evs[k].db => j = k

VerdictInv ==
    /\ cur # None => Carries(cache, cur) /\ (stage <= Len(job.normalizers) => Unjudged(cur))
    /\ \A i \in DOMAIN lines : Carries(cache, lines[i])
    /\ Recorded(cache, events)
    /\ Once(events)


\* The normalizers come before the analyzers.
LEMMA StageOrder ==
    ASSUME TypeOK, stage <= Len(Stages)
    PROVE  /\ Len(job.normalizers) \in Nat /\ stage \in Nat
           /\ stage <= Len(job.normalizers) => Stages[stage] \in {"id_assign", "db_identity_assign"}
           /\ ~(stage <= Len(job.normalizers)) => Stages[stage] \in Analyzers
<1>1. /\ job.normalizers \in Seq({"id_assign", "db_identity_assign"}) /\ job.chain \in Seq(Analyzers)
      /\ stage \in Nat \ {0}
  <2>1. job \in Job /\ stage \in Nat \ {0}
    BY DEF TypeOK
  <2>2. QED
    BY <2>1 DEF Job
<1>2. ASSUME NEW S, NEW T, NEW x \in Seq(S), NEW y \in Seq(T), NEW n \in Nat \ {0}, n <= Len(x \o y)
      PROVE  /\ Len(x) \in Nat
             /\ n <= Len(x) => (x \o y)[n] \in S
             /\ ~(n <= Len(x)) => (x \o y)[n] \in T
  <2>1. /\ Len(x) \in Nat /\ Len(y) \in Nat /\ x \in Seq(S \union T) /\ y \in Seq(S \union T)
        /\ \A i \in 1..Len(x) : x[i] \in S
        /\ \A i \in 1..Len(y) : y[i] \in T
    BY <1>2
  <2>2. /\ Len(x \o y) = Len(x) + Len(y)
        /\ \A i \in 1..Len(x) + Len(y) : (x \o y)[i] = IF i <= Len(x) THEN x[i] ELSE y[i - Len(x)]
    BY <2>1, ConcatProperties
  <2>3. n \in 1..Len(x) + Len(y)
    BY <1>2, <2>1, <2>2
  <2>4. CASE n <= Len(x)
    BY <2>1, <2>2, <2>3, <2>4
  <2>5. CASE ~(n <= Len(x))
    <3>1. n - Len(x) \in 1..Len(y)
      BY <2>1, <2>3, <2>5
    <3>2. QED
      BY <2>1, <2>2, <2>3, <2>5, <3>1
  <2>6. QED
    BY <2>1, <2>4, <2>5
<1>3. stage <= Len(job.normalizers \o job.chain) /\ Stages = job.normalizers \o job.chain
  BY DEF Stages
<1>4. /\ Len(job.normalizers) \in Nat
      /\ stage <= Len(job.normalizers)
            => (job.normalizers \o job.chain)[stage] \in {"id_assign", "db_identity_assign"}
      /\ ~(stage <= Len(job.normalizers)) => (job.normalizers \o job.chain)[stage] \in Analyzers
  BY <1>1, <1>2, <1>3
<1>5. QED
  BY <1>1, <1>3, <1>4

\* A verdict's status is none, so a database that has none is nobody's.
LEMMA StatusKnown ==
    /\ \A step \in Step : step.status \in Status
    /\ \A event \in Event : event.status \in Status
    /\ \A status \in Status : status # None
<1>1. None \notin Status
  OBVIOUS
<1>2. QED
  BY <1>1 DEF Step, Event

\* A first verdict about a database leaves what others carry.
LEMMA CarriesOn ==
    ASSUME NEW c, NEW item \in Item, Carries(c, item), NEW db \in Dbs \union {None}, NEW status,
           c \in [Dbs \union {None} -> Outcomes.schema_analysis \union {None}], c[db] = None
    PROVE  Carries([c EXCEPT ![db] = status], item)
<1>1. item.steps \in Seq(Step)
  BY DEF Item
<1>2. SUFFICES ASSUME NEW i \in DOMAIN item.steps, IsVerdict(item.steps[i])
               PROVE  [c EXCEPT ![db] = status][item.db] = item.steps[i].status
  BY DEF Carries
<1>3. item.steps[i].status # None /\ c[item.db] = item.steps[i].status
  BY <1>1, <1>2, StatusKnown DEF Carries
<1>4. item.db # db /\ item.db \in Dbs \union {None}
  BY <1>3 DEF Item
<1>5. QED
  BY <1>3, <1>4

\* So does it leave what is recorded.
LEMMA RecordedOn ==
    ASSUME NEW c, Recorded(c, events), events \in Seq(Event), NEW db \in Dbs \union {None}, NEW status,
           c \in [Dbs \union {None} -> Outcomes.schema_analysis \union {None}], c[db] = None
    PROVE  /\ Recorded([c EXCEPT ![db] = status], events)
           /\ \A k \in DOMAIN events : IsVerdict(events[k]) => events[k].db # db
<1>1. ASSUME NEW k \in DOMAIN events, IsVerdict(events[k])
      PROVE  events[k].db # db /\ [c EXCEPT ![db] = status][events[k].db] = events[k].status
  <2>1. events[k] \in Event
    OBVIOUS
  <2>2. events[k].status # None /\ c[events[k].db] = events[k].status
    BY <1>1, <2>1, StatusKnown DEF Recorded
  <2>3. events[k].db \in Dbs \union {None}
    BY <2>1 DEF Event
  <2>4. QED
    BY <2>2, <2>3
<1>2. QED
  BY <1>1 DEF Recorded

\* One more step, its status the cache's if it is a verdict.
LEMMA CarriesAppend ==
    ASSUME NEW c, NEW old \in Item, NEW item, NEW step \in Step, Carries(c, old),
           item.db = old.db, item.steps = Append(old.steps, step),
           IsVerdict(step) => c[old.db] = step.status
    PROVE  Carries(c, item)
<1>1. old.steps \in Seq(Step)
  BY DEF Item
<1>2. ASSUME NEW i \in DOMAIN item.steps, IsVerdict(item.steps[i])
      PROVE  c[item.db] = item.steps[i].status
  <2>1. (i \in DOMAIN old.steps /\ item.steps[i] = old.steps[i]) \/ item.steps[i] = step
    BY <1>1, <1>2, AppendProperties
  <2>2. QED
    BY <1>2, <2>1 DEF Carries
<1>3. QED
  BY <1>2 DEF Carries

\* The three ways an analyzer treats verdicts: none, the kept one, a first one.
LEMMA Judges ==
    ASSUME TypeOK, NEW name \in Analyzers, AnalyzerStep(name)
    PROVE  \E status \in Status :
             /\ Pass(Annotated(name, status))
             /\ \/ /\ ~IsVerdict([name |-> name, status |-> status])
                   /\ cache' = cache /\ Report(name, status)
                \/ status = cache[cur.db] /\ cache' = cache /\ events' = events
                \/ /\ cache[cur.db] = None /\ cache' = [cache EXCEPT ![cur.db] = status]
                   /\ Report(name, status)
<1>1. CASE Skip(name)
  BY <1>1 DEF Skip, Report, Status, IsVerdict
<1>2. CASE \E status \in Status : Analyze(name, status)
  BY <1>2 DEF Analyze, Report, IsVerdict
<1>3. CASE name = "schema_analysis" /\ RepeatSchema
  <2>1. cache[cur.db] \in Status
    BY <1>3, CurType, NamesAndStatuses DEF RepeatSchema, TypeOK, Status, At
  <2>2. QED
    BY <1>3, <2>1 DEF RepeatSchema
<1>4. CASE name = "schema_analysis" /\ \E status \in Status : AnalyzeSchema(status)
  BY <1>4 DEF AnalyzeSchema, Report, Cached
<1>5. QED
  BY <1>1, <1>2, <1>3, <1>4 DEF AnalyzerStep

\* One more event, no verdict about a database that has one.
LEMMA OnceAppend ==
    ASSUME NEW c, NEW old \in Seq(Event), NEW event \in Event, Once(old), Recorded(c, old),
           IsVerdict(event) => c[event.db] = event.status
                               /\ \A k \in DOMAIN old : IsVerdict(old[k]) => old[k].db # event.db
    PROVE  Once(Append(old, event)) /\ Recorded(c, Append(old, event))
<1> DEFINE more == Append(old, event)
<1>1. \A k \in DOMAIN more : (k \in DOMAIN old /\ more[k] = old[k])
                             \/ (k = Len(old) + 1 /\ more[k] = event)
  BY AppendProperties
<1> HIDE DEF more
<1>2. Recorded(c, more)
  BY <1>1 DEF Recorded
<1>3. Once(more)
  BY <1>1 DEF Once
<1>4. QED
  BY <1>2, <1>3 DEF more

LEMMA VerdictStep == TypeOK /\ VerdictInv /\ [Next]_pipeVars => VerdictInv'
<1> SUFFICES ASSUME TypeOK, VerdictInv, [Next]_pipeVars PROVE VerdictInv'
  OBVIOUS
<1> USE DEF VerdictInv
<1>1. CASE Load
  <2>1. cur'.steps = <<>> /\ UNCHANGED <<job, cache, events, lines>>
    BY <1>1, LoadType DEF Load
  <2>2. QED
    BY <2>1 DEF Carries, Unjudged
<1>2. CASE NormalizerStep
  <2> DEFINE step == [name |-> "db_identity_assign", status |-> MarkStatus]
  <2>1. /\ cur # None /\ stage <= Len(Stages) /\ Stages[stage] \in {"id_assign", "db_identity_assign"}
        /\ UNCHANGED <<cache, events>>
    BY <1>2, Normalizes
  <2>2. stage <= Len(job.normalizers) /\ stage \in Nat /\ Len(job.normalizers) \in Nat
    BY <2>1, StageOrder, NamesAndStatuses
  <2>3. Unjudged(cur) /\ cur.steps \in Seq(Step)
    BY <2>1, <2>2, CurType
  <2>4. step \in Step /\ ~IsVerdict(step)
    BY NamesAndStatuses DEF Step, IsVerdict
  <2>5. PICK item \in Item : Pass(item) /\ (item.steps = cur.steps \/ item.steps = Append(cur.steps, step))
    BY <1>2, Normalizes
  <2> HIDE DEF step
  <2>6. Unjudged(item)
    <3>1. CASE item.steps = cur.steps
      BY <2>3, <3>1 DEF Unjudged
    <3>2. CASE item.steps = Append(cur.steps, step)
      BY <2>3, <2>4, <3>2, AppendProperties DEF Unjudged
    <3>3. QED
      BY <2>5, <3>1, <3>2
  <2>7. cur' = item /\ UNCHANGED <<job, lines>>
    BY <2>5 DEF Pass
  <2>8. Carries(cache, item)
    BY <2>6 DEF Carries, Unjudged
  <2>9. QED
    BY <2>1, <2>6, <2>7, <2>8 DEF Carries, Unjudged
<1>3. CASE \E name \in Analyzers : AnalyzerStep(name)
  <2>1. PICK name \in Analyzers : AnalyzerStep(name)
    BY <1>3
  <2>2. PICK status \in Status :
          /\ Pass(Annotated(name, status))
          /\ \/ /\ ~IsVerdict([name |-> name, status |-> status])
                /\ cache' = cache /\ Report(name, status)
             \/ status = cache[cur.db] /\ cache' = cache /\ events' = events
             \/ /\ cache[cur.db] = None /\ cache' = [cache EXCEPT ![cur.db] = status]
                /\ Report(name, status)
    BY <2>1, Judges
  <2> DEFINE step == [name |-> name, status |-> status]
             event == [n |-> cur.n, name |-> name, db |-> cur.db, status |-> status]
             item == Annotated(name, status)
  <2>3. /\ cur # None /\ stage <= Len(Stages) /\ Stages[stage] = name
    BY <2>1, Analyzes
  <2>4. /\ step \in Step /\ item.steps = Append(cur.steps, step) /\ item.db = cur.db
        /\ step.status = status /\ step.name = name
    BY <2>3, AnnotatedType
  <2>5. /\ cur \in Item /\ cur.db \in Dbs \union {None} /\ Carries(cache, cur)
        /\ cache \in [Dbs \union {None} -> Outcomes.schema_analysis \union {None}]
        /\ events \in Seq(Event) /\ lines \in Seq(Item) /\ Recorded(cache, events) /\ Once(events)
        /\ \A i \in DOMAIN lines : Carries(cache, lines[i])
    BY <2>3, CurType DEF TypeOK
  <2>6. cur' = item /\ stage' = stage + 1 /\ UNCHANGED <<job, lines>>
    BY <2>2 DEF Pass
  <2>7. ~(stage + 1 <= Len(job.normalizers))
    <3>1. \A s \in {"id_assign", "db_identity_assign"} : s \notin Analyzers
      BY NamesAndStatuses
    <3>2. QED
      BY <2>3, <3>1, StageOrder
  <2>8. event.db = cur.db /\ event.status = status /\ (IsVerdict(event) <=> IsVerdict(step))
    BY DEF IsVerdict
  <2>9. Report(name, status) => event \in Event /\ events' = Append(events, event)
    BY <2>3, ReportType
  <2> HIDE DEF step, event, item
  <2>10. /\ Carries(cache', item) /\ \A i \in DOMAIN lines : Carries(cache', lines[i])
         /\ Recorded(cache', events') /\ Once(events')
    <3>1. CASE ~IsVerdict(step) /\ cache' = cache /\ Report(name, status)
      <4>1. Carries(cache, item)
        BY <2>4, <2>5, <3>1, CarriesAppend
      <4>2. event \in Event /\ events' = Append(events, event) /\ ~IsVerdict(event)
        BY <2>8, <2>9, <3>1
      <4>3. Once(Append(events, event)) /\ Recorded(cache, Append(events, event))
        BY <2>5, <4>2, OnceAppend
      <4>4. QED
        BY <2>5, <3>1, <4>1, <4>2, <4>3
    <3>2. CASE status = cache[cur.db] /\ cache' = cache /\ events' = events
      <4>1. Carries(cache, item)
        BY <2>4, <2>5, <3>2, CarriesAppend
      <4>2. QED
        BY <2>5, <3>2, <4>1
    <3>3. CASE cache[cur.db] = None /\ cache' = [cache EXCEPT ![cur.db] = status] /\ Report(name, status)
      <4> DEFINE c == [cache EXCEPT ![cur.db] = status]
      <4>1. ASSUME NEW x \in Item, Carries(cache, x) PROVE Carries(c, x)
        BY <2>5, <3>3, <4>1, CarriesOn
      <4>2. Recorded(c, events) /\ \A k \in DOMAIN events : IsVerdict(events[k]) => events[k].db # cur.db
        BY <2>5, <3>3, RecordedOn
      <4>3. c[cur.db] = status /\ cache' = c
        BY <2>5, <3>3
      <4> HIDE DEF c
      <4>4. \A i \in DOMAIN lines : Carries(c, lines[i])
        <5>1. ASSUME NEW i \in DOMAIN lines PROVE Carries(c, lines[i])
          <6>1. lines[i] \in Item /\ Carries(cache, lines[i])
            BY <2>5
          <6>2. QED
            BY <4>1, <6>1
        <5>2. QED
          BY <5>1
      <4>5. Carries(c, cur)
        BY <2>5, <4>1
      <4>6. Carries(c, item)
        BY <2>4, <2>5, <4>5, <4>3, CarriesAppend
      <4>7. event \in Event /\ events' = Append(events, event) /\ c[event.db] = event.status
            /\ \A k \in DOMAIN events : IsVerdict(events[k]) => events[k].db # event.db
        BY <2>8, <2>9, <3>3, <4>2, <4>3
      <4>8. Once(Append(events, event)) /\ Recorded(c, Append(events, event))
        BY <2>5, <4>2, <4>7, OnceAppend
      <4>9. QED
        BY <4>3, <4>4, <4>6, <4>7, <4>8
    <3>4. QED
      BY <2>2, <3>1, <3>2, <3>3 DEF step
  <2>11. Carries(cache', cur') /\ ~(stage' <= Len(job'.normalizers))
    BY <2>6, <2>7, <2>10
  <2>12. \A i \in DOMAIN lines' : Carries(cache', lines'[i])
    BY <2>6, <2>10
  <2>13. (\A i \in DOMAIN lines : Carries(cache, lines[i]))'
    BY <2>12 DEF Carries
  <2>14. (Carries(cache, cur))' /\ (Recorded(cache, events))' /\ (Once(events))'
    BY <2>10, <2>11 DEF Carries, Recorded, Once
  <2>15. QED
    BY <2>11, <2>13, <2>14
<1>4. CASE Write
  <2>1. /\ cur' = None /\ lines' = Append(lines, cur) /\ lines \in Seq(Item) /\ cur \in Item /\ cur # None
        /\ UNCHANGED <<job, stage, cache, events>>
    BY <1>4, Writes
  <2>2. ASSUME NEW i \in DOMAIN lines' PROVE Carries(cache, lines'[i])
    BY <2>1, <2>2, AppendProperties
  <2>3. QED
    BY <2>1, <2>2 DEF Carries, Recorded, Once
<1>5. CASE Stop
  BY <1>5, Stops DEF Carries, Recorded, Once, Unjudged
<1>6. CASE UNCHANGED pipeVars
  BY <1>6 DEF Carries, Recorded, Once, Unjudged, pipeVars
<1>7. QED
  BY <1>1, <1>2, <1>3, <1>4, <1>5, <1>6, KindsOfPipelineStep

\* A run gives a database one verdict, and every item of it that is not skipped
\* carries that one, however many items and databases there are.
(* A run takes one schema verdict per database and every item of it that   *)
(* is not skipped carries that one.                                        *)
THEOREM VerdictTheorem == Spec => []OneVerdictPerDb
<1>1. Init => VerdictInv
  BY DEF Init, VerdictInv, Recorded, Once
<1>2. VerdictInv => OneVerdictPerDb
  <2> SUFFICES ASSUME VerdictInv PROVE OneVerdictPerDb
    OBVIOUS
  <2>1. \A item \in Seen : Carries(cache, item)
    BY DEF VerdictInv, Seen, Written
  <2>2. QED
    BY <2>1 DEF VerdictInv, OneVerdictPerDb, Carries, Once, IsVerdict
<1>3. QED
  BY <1>1, <1>2, VerdictStep, PipelineTypeCorrect, PTL DEF Spec
------------------------------------------------------------------------------
(* What the verdicts say. *)

\* A foreign key between readable tables of a database, or a fault of it.
LEMMA ParentReadable ==
    ASSUME NEW db \in Database, Accepted(db), NEW f \in Foreign(db), Whole(db, f[2]),
           None \notin Members(f[2].columns)
    PROVE  /\ f[2].parent \in Described(db)
           /\ Members(db[f[2].parent].key) \subseteq db[f[2].parent].columns
           /\ ~ArityMismatch(f[2])
<1> DEFINE fk == f[2]
           parent == db[fk.parent]
<1>1. /\ f[1] \in Existing(db) /\ fk \in db[f[1]].foreign
  BY DEF Foreign
<1>2. /\ db[f[1]] \in Table /\ Declared(db[f[1]]) /\ fk \in ForeignKey
  BY <1>1 DEF Existing, Database, Accepted, Table
<1>3. fk.local \in Seq(Columns) /\ fk.local # <<>> /\ Len(fk.columns) = Len(fk.local)
  BY <1>1, <1>2 DEF Declared, ForeignKey
<1>4. /\ fk.parent \in Existing(db) /\ parent \in Table /\ Declared(parent)
  BY DEF Whole, Existing, Database, Accepted
<1>5. PICK k \in {parent.key} \union parent.unique : Len(k) = Len(fk.local)
  BY DEF Whole
<1>6. k \in Seq(Columns)
  BY <1>4, <1>5 DEF Table
<1>7. 1 \in DOMAIN k
  BY <1>3, <1>5, <1>6
<1>8. k[1] \in Members(k) /\ Members(k) \subseteq parent.columns
  BY <1>4, <1>5, <1>7 DEF Members, Declared
<1>9. parent.readable
  BY <1>4, <1>8 DEF Declared, Table
<1>10. Members(parent.key) \subseteq parent.columns
  BY <1>4 DEF Declared
<1>11. QED
  BY <1>3, <1>4, <1>9, <1>10 DEF Described, ArityMismatch

\* Without errors, and with no foreign key to part of a composite key, SQLite
\* has counted the dangling rows and found none.
LEMMA PassedSchema ==
    ASSUME NEW db \in Database, ~HasErrors(db), \A f \in Foreign(db) : ~PartOfKey(db, f[2])
    PROVE  References(db)
<1>1. ASSUME NEW f \in Foreign(db) PROVE Whole(db, f[2])
  <2>1. f[2].parent \in Existing(db)
    BY DEF HasErrors, Invalid, MissingTable, Described
  <2>2. Members(f[2].columns) \subseteq Members(db[f[2].parent].key)
    BY DEF HasErrors, Invalid, TargetNotKey
  <2>3. QED
    BY <2>1, <2>2 DEF PartOfKey
<1>2. Checkable(db)
  BY <1>1 DEF Checkable
<1>3. QED
  BY <1>1, <1>2 DEF HasErrors, Violated, References

\* An error of a database whose references can all be followed is a target the
\* analyzer did not recognize.
LEMMA FailedSchema ==
    ASSUME NEW db \in Database, Accepted(db), HasErrors(db), References(db)
    PROVE  \E f \in Foreign(db) : Unrecognized(db, f[2])
<1>1. ~Violated(db)
  BY DEF Violated, References
<1>2. PICK f \in Foreign(db) : Invalid(db, f[2])
  BY <1>1 DEF HasErrors
<1>3. Whole(db, f[2])
  BY DEF References
<1>4. ASSUME None \notin Members(f[2].columns), Members(f[2].columns) = Members(db[f[2].parent].key)
      PROVE  FALSE
  <2>1. ~MissingTable(db, f[2]) /\ ~ArityMismatch(f[2])
    BY <1>3, <1>4, ParentReadable DEF MissingTable
  <2>2. ~MissingColumn(db, f[2]) /\ ~TargetNotKey(db, f[2])
    BY <1>3, <1>4, ParentReadable DEF MissingColumn, TargetNotKey
  <2>3. QED
    BY <1>2, <2>1, <2>2 DEF Invalid
<1>5. QED
  BY <1>3, <1>4 DEF Unrecognized

LEMMA SeenWithoutWarning ==
    ASSUME NEW db \in Database, Accepted(db), ~HasWarnings(db)
    PROVE  Described(db) = Existing(db)
  BY DEF HasWarnings, EmptyTable, Described, Existing, Database, Accepted, Declared, Table

\* What is cached of a database is what its contents, or a failure, said.
CacheInv == \A d \in Dbs \union {None} : cache[d] # None => cache[d] \in Verdicts(d)

LEMMA CacheStep == TypeOK /\ CacheInv /\ [Next]_pipeVars => CacheInv'
<1> SUFFICES ASSUME TypeOK, CacheInv, [Next]_pipeVars PROVE CacheInv'
  OBVIOUS
<1>1. CASE job' = job /\ cache' = cache
  BY <1>1 DEF CacheInv, Verdicts
<1>2. CASE \E status \in Status : AnalyzeSchema(status)
  <2>1. PICK status \in Status : AnalyzeSchema(status)
    BY <1>2
  <2>2. /\ status \in Verdicts(cur.db) /\ cache' = [cache EXCEPT ![cur.db] = status]
        /\ job' = job
    BY <2>1 DEF AnalyzeSchema, Cached, Report, Pass
  <2>3. \A d : Verdicts(d)' = Verdicts(d)
    BY <2>2 DEF Verdicts
  <2>4. cache \in [Dbs \union {None} -> Outcomes.schema_analysis \union {None}]
    BY DEF TypeOK
  <2>5. QED
    BY <2>2, <2>3, <2>4 DEF CacheInv
<1>3. QED
  BY <1>1, <1>2 DEF Next, Load, LoadRaises, KeepId, CountId, HashId, HashRaises, AssignDb, Skip,
     Analyze, RepeatSchema, Write, WriteRaises, End, Interrupt, Abort, Pass, Report, pipeVars

LEMMA StepsRight == TypeOK /\ VerdictInv /\ CacheInv => SchemaStepsRight
<1> SUFFICES ASSUME TypeOK, VerdictInv, CacheInv,
                    NEW item \in Seen, NEW j \in DOMAIN item.steps,
                    item.steps[j].name = "schema_analysis"
             PROVE  SchemaStepRight(item, item.steps[j].status)
  BY DEF SchemaStepsRight
<1> DEFINE status == item.steps[j].status
           db == job.contents[item.db]
<1>1. item \in Item
  BY DEF TypeOK, Seen, Written
<1>2. Carries(cache, item)
  BY DEF VerdictInv, Seen, Written
<1>3. CASE status \notin {"ok", "warns", "errors"}
  BY <1>3 DEF SchemaStepRight
<1>4. CASE status \in {"ok", "warns", "errors"}
  <2>1. status = cache[item.db] /\ item.db \in Dbs \union {None}
    BY <1>1, <1>2, <1>4 DEF Carries, IsVerdict, Item
  <2>2. status # None
    BY <1>4 DEF Status
  <2>3. status \in Verdicts(item.db) /\ status # "failed"
    BY <1>4, <2>1, <2>2 DEF CacheInv
  <2>4. item.db \in Dbs /\ status = Verdict(db)
    BY <2>3 DEF Verdicts
  <2>5. db \in Database /\ Accepted(db)
    BY <2>4 DEF TypeOK, Job
  <2>6. status \in {"ok", "warns"} => ~HasErrors(db)
    BY <2>4 DEF Verdict
  <2>7. status = "errors" => HasErrors(db)
    BY <2>4 DEF Verdict
  <2>8. status = "ok" => ~HasWarnings(db)
    BY <2>4 DEF Verdict
  <2>9. status \in {"ok", "warns"} => References(db) \/ \E f \in Foreign(db) : PartOfKey(db, f[2])
    BY <2>5, <2>6, PassedSchema
  <2>10. status = "errors" => ~References(db) \/ \E f \in Foreign(db) : Unrecognized(db, f[2])
    BY <2>5, <2>7, FailedSchema
  <2>11. status = "ok" => Described(db) = Existing(db)
    BY <2>5, <2>8, SeenWithoutWarning
  <2>12. QED
    BY <2>4, <2>9, <2>10, <2>11 DEF SchemaStepRight
<1>5. QED
  BY <1>3, <1>4

\* Whatever the databases hold and however often one is asked about, each item's
\* schema step says of its database's references what can be relied on.
(* For any contents of the databases, an item's schema step says what its  *)
(* database's references allow: after ok or warns they can be followed     *)
(* unless a foreign key aims at part of a key, after errors they cannot    *)
(* unless a target was not recognized.                                     *)
THEOREM SchemaTheorem == Spec => []SchemaStepsRight
<1>1. Init => VerdictInv /\ CacheInv
  BY DEF Init, VerdictInv, CacheInv, Recorded, Once
<1>2. QED
  BY <1>1, VerdictStep, CacheStep, StepsRight, PipelineTypeCorrect, PTL DEF Spec
------------------------------------------------------------------------------
(* The events and the steps. *)

\* EventsMatchSteps of one step, for any events.
Own(evs, n, name) == {k \in DOMAIN evs : evs[k].n = n /\ evs[k].name = name}

Told(evs, item, status) ==
    /\ status # "skipped"
    /\ \E k \in DOMAIN evs :
        /\ evs[k].name = "schema_analysis"
        /\ evs[k].db = item.db
        /\ evs[k].status = status
        /\ evs[k].n < item.n

Matched(evs, item, step) ==
    \/ \E k \in Own(evs, item.n, step.name) :
          Own(evs, item.n, step.name) = {k} /\ evs[k].status = step.status
    \/ /\ Own(evs, item.n, step.name) = {}
       /\ step.name = "schema_analysis"
       /\ Told(evs, item, step.status)

AllMatched(evs, item) ==
    \A j \in DOMAIN item.steps : item.steps[j].name \in Analyzers => Matched(evs, item, item.steps[j])

\* The item under way has been at the stage of that name.
Past(name) == \E i \in DOMAIN Stages : i < stage /\ Stages[i] = name

\* Nothing of the item comes from a stage it has not been at.
NothingAhead ==
    \A name \in Analyzers : ~Past(name) =>
        /\ Own(events, cur.n, name) = {}
        /\ \A j \in DOMAIN cur.steps : cur.steps[j].name # name

\* The event behind what the schema analyzer keeps of a database.
Backed(c, evs) ==
    \A d \in Dbs \union {None} : c[d] # None =>
        \E k \in DOMAIN evs : evs[k].name = "schema_analysis" /\ evs[k].db = d /\ evs[k].status = c[d]

MatchInv ==
    /\ \A i \in DOMAIN lines : AllMatched(events, lines[i])
    /\ cur # None => AllMatched(events, cur) /\ NothingAhead
    /\ \A k \in DOMAIN events : events[k].n <= loaded
    /\ Backed(cache, events)

\* The stages of a run: the normalizers' and then each analyzer's once.
LEMMA StageOnce ==
    ASSUME TypeOK, stage <= Len(Stages), Stages[stage] \in Analyzers
    PROVE  ~Past(Stages[stage])
<1>1. /\ job.normalizers \in Seq({"id_assign", "db_identity_assign"})
      /\ job.chain \in Seq(Analyzers) /\ Distinct(job.chain) /\ stage \in Nat \ {0}
  <2>1. job \in Job /\ stage \in Nat \ {0}
    BY DEF TypeOK
  <2>2. QED
    BY <2>1 DEF Job
<1>2. ASSUME NEW S, NEW T, NEW x \in Seq(S), NEW y \in Seq(T), Distinct(y), S \cap T = {},
             NEW n \in Nat \ {0}, n <= Len(x \o y), (x \o y)[n] \in T,
             NEW i \in DOMAIN (x \o y), i < n, (x \o y)[i] = (x \o y)[n]
      PROVE  FALSE
  <2>1. /\ Len(x) \in Nat /\ Len(y) \in Nat /\ x \in Seq(S \union T) /\ y \in Seq(S \union T)
        /\ DOMAIN y = 1..Len(y)
        /\ \A j \in 1..Len(x) : x[j] \in S
    BY <1>2
  <2>2. /\ Len(x \o y) = Len(x) + Len(y) /\ x \o y \in Seq(S \union T)
        /\ \A j \in 1..Len(x) + Len(y) : (x \o y)[j] = IF j <= Len(x) THEN x[j] ELSE y[j - Len(x)]
    BY <2>1, ConcatProperties
  <2>3. n \in 1..Len(x) + Len(y) /\ i \in 1..Len(x) + Len(y)
    BY <1>2, <2>1, <2>2
  <2>4. ASSUME NEW j \in 1..Len(x) + Len(y), (x \o y)[j] \in T
        PROVE  j - Len(x) \in DOMAIN y /\ (x \o y)[j] = y[j - Len(x)]
    <3>1. ~(j <= Len(x))
      <4>1. j <= Len(x) => (x \o y)[j] \in S
        BY <2>1, <2>2
      <4>2. QED
        BY <1>2, <2>4, <4>1
    <3>2. QED
      BY <2>1, <2>2, <3>1
  <2>5. /\ n - Len(x) \in DOMAIN y /\ i - Len(x) \in DOMAIN y
        /\ y[n - Len(x)] = y[i - Len(x)]
    BY <1>2, <2>3, <2>4
  <2>6. n - Len(x) = i - Len(x)
    BY <1>2, <2>5 DEF Distinct
  <2>7. QED
    BY <1>2, <2>1, <2>3, <2>6
<1>3. {"id_assign", "db_identity_assign"} \cap Analyzers = {}
  BY NamesAndStatuses
<1>4. SUFFICES ASSUME Past(Stages[stage]) PROVE FALSE
  OBVIOUS
<1>5. PICK i \in DOMAIN Stages : i < stage /\ Stages[i] = Stages[stage]
  BY <1>4 DEF Past
<1>6. QED
  BY <1>1, <1>2, <1>3, <1>5 DEF Stages

\* An event of another item or another analyzer changes no match.
LEMMA MatchedOn ==
    ASSUME NEW evs \in Seq(Event), NEW event, NEW item, NEW step, Matched(evs, item, step),
           event.n # item.n \/ event.name # step.name
    PROVE  Matched(Append(evs, event), item, step)
<1> DEFINE more == Append(evs, event)
<1>1. /\ DOMAIN more = DOMAIN evs \union {Len(evs) + 1} /\ more[Len(evs) + 1] = event
      /\ \A k \in DOMAIN evs : more[k] = evs[k]
  <2>1. Len(more) = Len(evs) + 1 /\ Len(evs) \in Nat /\ DOMAIN evs = 1..Len(evs)
        /\ DOMAIN more = 1..Len(more)
    OBVIOUS
  <2>2. QED
    BY <2>1
<1> HIDE DEF more
<1>2. Own(more, item.n, step.name) = Own(evs, item.n, step.name)
  BY <1>1 DEF Own
<1>3. \A k \in Own(evs, item.n, step.name) : more[k] = evs[k]
  BY <1>1 DEF Own
<1>4. Told(evs, item, step.status) => Told(more, item, step.status)
  BY <1>1 DEF Told
<1>5. Matched(more, item, step)
  BY <1>2, <1>3, <1>4 DEF Matched
<1>6. QED
  BY <1>5 DEF more

LEMMA AllMatchedOn ==
    ASSUME NEW evs \in Seq(Event), NEW event, NEW item, AllMatched(evs, item),
           \/ event.n # item.n
           \/ \A j \in DOMAIN item.steps : item.steps[j].name # event.name
    PROVE  AllMatched(Append(evs, event), item)
  BY MatchedOn DEF AllMatched

\* The first event of an item and an analyzer matches the step of its status.
LEMMA MatchedNew ==
    ASSUME NEW evs \in Seq(Event), NEW event, NEW item, NEW step,
           event.n = item.n, event.name = step.name, event.status = step.status,
           Own(evs, item.n, step.name) = {}
    PROVE  Matched(Append(evs, event), item, step)
<1> DEFINE more == Append(evs, event)
<1>1. /\ DOMAIN more = DOMAIN evs \union {Len(evs) + 1} /\ more[Len(evs) + 1] = event
      /\ \A k \in DOMAIN evs : more[k] = evs[k]
  <2>1. Len(more) = Len(evs) + 1 /\ Len(evs) \in Nat /\ DOMAIN evs = 1..Len(evs)
        /\ DOMAIN more = 1..Len(more)
    OBVIOUS
  <2>2. QED
    BY <2>1
<1> HIDE DEF more
<1>2. Own(more, item.n, step.name) = {Len(evs) + 1}
  BY <1>1 DEF Own
<1>3. Matched(more, item, step)
  BY <1>1, <1>2 DEF Matched
<1>4. QED
  BY <1>3 DEF more

\* One more step of the item, matched like the others.
LEMMA AllMatchedStep ==
    ASSUME NEW evs, NEW old \in Item, NEW item, NEW step, AllMatched(evs, old),
           item.steps = Append(old.steps, step), item.db = old.db, item.n = old.n,
           step.name \in Analyzers => Matched(evs, item, step)
    PROVE  AllMatched(evs, item)
<1>1. old.steps \in Seq(Step)
  BY DEF Item
<1>2. ASSUME NEW j \in DOMAIN item.steps, item.steps[j].name \in Analyzers
      PROVE  Matched(evs, item, item.steps[j])
  <2>1. (j \in DOMAIN old.steps /\ item.steps[j] = old.steps[j]) \/ item.steps[j] = step
    BY <1>1, <1>2, AppendProperties
  <2>2. CASE j \in DOMAIN old.steps /\ item.steps[j] = old.steps[j]
    <3>1. Matched(evs, old, old.steps[j])
      BY <1>2, <2>2 DEF AllMatched
    <3>2. QED
      BY <2>2, <3>1 DEF Matched, Told
  <2>3. QED
    BY <1>2, <2>1, <2>2
<1>3. QED
  BY <1>2 DEF AllMatched

\* One more event leaves what the cache holds backed.
LEMMA BackedOn ==
    ASSUME NEW c, NEW evs \in Seq(Event), NEW event, Backed(c, evs)
    PROVE  Backed(c, Append(evs, event))
<1>1. \A k \in DOMAIN evs : k \in DOMAIN Append(evs, event) /\ Append(evs, event)[k] = evs[k]
  BY AppendProperties
<1>2. QED
  BY <1>1 DEF Backed

LEMMA BackedNew ==
    ASSUME NEW c \in [Dbs \union {None} -> Outcomes.schema_analysis \union {None}],
           NEW evs \in Seq(Event), NEW event, Backed(c, evs), event.name = "schema_analysis"
    PROVE  Backed([c EXCEPT ![event.db] = event.status], Append(evs, event))
<1> DEFINE more == Append(evs, event)
<1>1. \A k \in DOMAIN evs : k \in DOMAIN more /\ more[k] = evs[k]
  BY AppendProperties
<1>2. Len(evs) + 1 \in DOMAIN more /\ more[Len(evs) + 1] = event
  OBVIOUS
<1> HIDE DEF more
<1>3. Backed([c EXCEPT ![event.db] = event.status], more)
  BY <1>1, <1>2 DEF Backed
<1>4. QED
  BY <1>3 DEF more

\* The two ways an analyzer comes to its step: an event, or the kept verdict.
LEMMA ReportsOrRepeats ==
    ASSUME TypeOK, NEW name \in Analyzers, AnalyzerStep(name)
    PROVE  \E status \in Status :
             /\ Pass(Annotated(name, status))
             /\ \/ /\ Report(name, status)
                   /\ \/ cache' = cache
                      \/ name = "schema_analysis" /\ cache' = [cache EXCEPT ![cur.db] = status]
                \/ /\ name = "schema_analysis" /\ cache[cur.db] = status
                   /\ status # None /\ status # "skipped"
                   /\ UNCHANGED <<cache, events>>
<1>1. CASE Skip(name)
  BY <1>1 DEF Skip, Report, Status
<1>2. CASE \E status \in Status : Analyze(name, status)
  BY <1>2 DEF Analyze, Report
<1>3. CASE name = "schema_analysis" /\ RepeatSchema
  <2>1. cache[cur.db] \in {"ok", "errors", "warns", "failed"} /\ cache[cur.db] # None
    BY <1>3, CurType, NamesAndStatuses DEF RepeatSchema, TypeOK, At
  <2>2. cache[cur.db] \in Status /\ cache[cur.db] # "skipped"
    BY <2>1 DEF Status
  <2>3. QED
    BY <1>3, <2>1, <2>2 DEF RepeatSchema
<1>4. CASE name = "schema_analysis" /\ \E status \in Status : AnalyzeSchema(status)
  BY <1>4 DEF AnalyzeSchema, Report, Cached
<1>5. QED
  BY <1>1, <1>2, <1>3, <1>4 DEF AnalyzerStep

\* An item that comes to its next stage with one step more.
LEMMA NothingAheadStep ==
    ASSUME TypeOK, cur # None, stage <= Len(Stages), NothingAhead,
           NEW item \in Item, item.n = cur.n, Pass(item),
           \/ item.steps = cur.steps
           \/ \E step \in Step : /\ item.steps = Append(cur.steps, step)
                                 /\ step.name \in Analyzers => step.name = Stages[stage],
           \/ events' = events
           \/ \E event \in Event : events' = Append(events, event) /\ event.name = Stages[stage]
    PROVE  NothingAhead'
<1>1. cur' = item /\ stage' = stage + 1 /\ job' = job /\ stage \in Nat
  BY DEF Pass, TypeOK
<1>2. Stages' = Stages
  BY <1>1 DEF Stages
<1>3. events \in Seq(Event) /\ cur.steps \in Seq(Step) /\ stage \in DOMAIN Stages
  <2>1. events \in Seq(Event) /\ cur.steps \in Seq(Step) /\ stage \in Nat \ {0}
    BY CurType DEF TypeOK
  <2>2. job.normalizers \in Seq({"id_assign", "db_identity_assign"}) /\ job.chain \in Seq(Analyzers)
    BY DEF TypeOK, Job
  <2>3. Stages \in Seq({"id_assign", "db_identity_assign"} \union Analyzers)
    BY <2>2 DEF Stages
  <2>4. QED
    BY <2>1, <2>3
<1>4. SUFFICES ASSUME NEW name \in Analyzers, ~(Past(name))'
               PROVE  /\ Own(events', item.n, name) = {}
                      /\ \A j \in DOMAIN item.steps : item.steps[j].name # name
  BY <1>1 DEF NothingAhead, Own
<1>5. ~Past(name) /\ name # Stages[stage]
  <2>1. \A i \in DOMAIN Stages : i < stage + 1 => Stages[i] # name
    BY <1>1, <1>2, <1>4 DEF Past
  <2>2. DOMAIN Stages \subseteq Nat /\ \A i \in Nat : i < stage => i < stage + 1
    <3>1. job.normalizers \in Seq({"id_assign", "db_identity_assign"}) /\ job.chain \in Seq(Analyzers)
      BY DEF TypeOK, Job
    <3>2. Stages \in Seq({"id_assign", "db_identity_assign"} \union Analyzers)
      BY <3>1 DEF Stages
    <3>3. QED
      BY <1>1, <3>2
  <2>3. QED
    BY <1>1, <1>3, <2>1, <2>2 DEF Past
<1>6. Own(events, cur.n, name) = {} /\ \A j \in DOMAIN cur.steps : cur.steps[j].name # name
  BY <1>5 DEF NothingAhead
<1>7. Own(events', item.n, name) = {}
  <2>1. CASE events' = events
    BY <1>6, <2>1
  <2>2. CASE \E event \in Event : events' = Append(events, event) /\ event.name = Stages[stage]
    BY <1>3, <1>5, <1>6, <2>2, AppendProperties DEF Own
  <2>3. QED
    BY <2>1, <2>2
<1>8. \A j \in DOMAIN item.steps : item.steps[j].name # name
  <2>1. CASE item.steps = cur.steps
    BY <1>6, <2>1
  <2>2. CASE \E step \in Step : /\ item.steps = Append(cur.steps, step)
                                /\ step.name \in Analyzers => step.name = Stages[stage]
    BY <1>3, <1>5, <1>6, <2>2, AppendProperties
  <2>3. QED
    BY <2>1, <2>2
<1>9. QED
  BY <1>7, <1>8

\* An event of the item under way leaves the matches of the written ones.
LEMMA LinesMatched ==
    ASSUME TypeOK, OrderInv, MatchInv, cur # None, NEW event, event.n = cur.n
    PROVE  \A i \in DOMAIN lines : AllMatched(Append(events, event), lines[i])
<1>1. events \in Seq(Event) /\ lines \in Seq(Item) /\ cur.n = loaded /\ loaded = Len(lines) + 1
      /\ Len(lines) \in Nat /\ DOMAIN lines = 1..Len(lines)
  BY CurType DEF TypeOK, OrderInv
<1>2. ASSUME NEW i \in DOMAIN lines PROVE AllMatched(Append(events, event), lines[i])
  <2>1. lines[i].n = i /\ i # event.n
    BY <1>1 DEF OrderInv
  <2>2. AllMatched(events, lines[i])
    BY DEF MatchInv
  <2>3. QED
    BY <1>1, <2>1, <2>2, AllMatchedOn
<1>3. QED
  BY <1>2

\* The events' items are numbered.
LEMMA EventNumber ==
    ASSUME events \in Seq(Event)
    PROVE  \A k \in DOMAIN events : events[k].n \in Nat
<1>1. \A event \in Event : event.n \in Nat
  BY DEF Event
<1>2. \A k \in DOMAIN events : events[k] \in Event
  OBVIOUS
<1>3. QED
  BY <1>1, <1>2

\* The first part of a concatenation.
LEMMA ConcatLen ==
    ASSUME NEW S, NEW T, NEW front \in Seq(S), NEW back \in Seq(T)
    PROVE  DOMAIN (front \o back) \subseteq Nat
<1>1. front \in Seq(S \union T) /\ back \in Seq(S \union T)
  OBVIOUS
<1>2. front \o back \in Seq(S \union T)
  BY <1>1
<1>3. QED
  BY <1>2

LEMMA FrontOfConcat ==
    ASSUME NEW S, NEW T, NEW front \in Seq(S), NEW back \in Seq(T),
           NEW i \in DOMAIN (front \o back), i <= Len(front)
    PROVE  (front \o back)[i] \in S
<1>1. front \in Seq(S \union T) /\ back \in Seq(S \union T)
  OBVIOUS
<1>2. /\ front \o back \in Seq(S \union T) /\ Len(front) \in Nat
      /\ Len(front \o back) = Len(front) + Len(back)
      /\ \A n \in 1..Len(front) + Len(back) :
            (front \o back)[n] = IF n <= Len(front) THEN front[n] ELSE back[n - Len(front)]
  BY <1>1, ConcatProperties
<1>3. i \in 1..Len(front) + Len(back) /\ i \in 1..Len(front)
  BY <1>2
<1>4. (front \o back)[i] = front[i] /\ front[i] \in S
  BY <1>2, <1>3
<1>5. QED
  BY <1>4

LEMMA MatchStep == TypeOK /\ OrderInv /\ MatchInv /\ [Next]_pipeVars => MatchInv'
<1> SUFFICES ASSUME TypeOK, OrderInv, MatchInv, [Next]_pipeVars PROVE MatchInv'
  OBVIOUS
<1>0. events \in Seq(Event) /\ lines \in Seq(Item) /\ Len(lines) \in Nat /\ loaded \in Nat
  <2>1. job \in Job /\ lines \in Seq(Item) /\ events \in Seq(Event) /\ loaded \in 0..Len(job.dataset)
    BY DEF TypeOK
  <2>2. Len(job.dataset) \in Nat
    BY <2>1 DEF Job
  <2>3. QED
    BY <2>1, <2>2
<1>1. CASE Load
  <2>1. /\ cur'.steps = <<>> /\ cur'.n = loaded + 1 /\ loaded' = loaded + 1 /\ cur' # None
        /\ UNCHANGED <<job, cache, events, lines>>
    BY <1>1, LoadType DEF Load
  <2>2. \A k \in DOMAIN events : events[k].n <= loaded /\ events[k].n \in Nat
    BY <1>0, EventNumber DEF MatchInv
  <2>3. \A name : Own(events, loaded + 1, name) = {}
    BY <1>0, <2>2 DEF Own
  <2>4. (NothingAhead)'
    BY <2>1, <2>3 DEF NothingAhead, Own
  <2>5. \A k \in DOMAIN events' : events'[k].n <= loaded'
    BY <1>0, <2>1, <2>2
  <2>6. AllMatched(events', cur')
    BY <2>1 DEF AllMatched
  <2>7. (\A i \in DOMAIN lines : AllMatched(events, lines[i]))' /\ (Backed(cache, events))'
    BY <2>1 DEF MatchInv, AllMatched, Matched, Own, Told, Backed
  <2>8. (AllMatched(events, cur))'
    BY <2>6 DEF AllMatched, Matched, Own, Told
  <2>9. QED
    BY <2>4, <2>5, <2>7, <2>8 DEF MatchInv
<1>2. CASE NormalizerStep
  <2> DEFINE step == [name |-> "db_identity_assign", status |-> MarkStatus]
  <2>1. /\ cur # None /\ stage <= Len(Stages) /\ Stages[stage] \in {"id_assign", "db_identity_assign"}
        /\ UNCHANGED <<cache, events>>
    BY <1>2, Normalizes
  <2>2. step \in Step /\ step.name \notin Analyzers
    BY NamesAndStatuses DEF Step
  <2>3. PICK item \in Item :
          /\ Pass(item) /\ item.n = cur.n
          /\ item.steps = cur.steps \/ item.steps = Append(cur.steps, step)
    BY <1>2, Normalizes
  <2> HIDE DEF step
  <2>4. cur' = item /\ UNCHANGED <<job, loaded, lines>> /\ cur.steps \in Seq(Step) /\ AllMatched(events, cur)
        /\ NothingAhead
    BY <2>1, <2>3, CurType DEF Pass, MatchInv
  <2>5. NothingAhead'
    BY <2>1, <2>2, <2>3, <2>4, NothingAheadStep
  <2>6. \A j \in DOMAIN cur.steps : cur.steps[j].name \notin Analyzers
    <3>1. \A name \in Analyzers : ~Past(name)
      <4>1. /\ stage <= Len(job.normalizers) /\ stage \in Nat /\ Len(job.normalizers) \in Nat
            /\ job.normalizers \in Seq({"id_assign", "db_identity_assign"}) /\ job.chain \in Seq(Analyzers)
        <5>1. ~(Stages[stage] \in Analyzers)
          BY <2>1, NamesAndStatuses
        <5>2. job.normalizers \in Seq({"id_assign", "db_identity_assign"}) /\ job.chain \in Seq(Analyzers)
          BY DEF TypeOK, Job
        <5>3. QED
          BY <2>1, <5>1, <5>2, StageOrder
      <4>2. ASSUME NEW i \in DOMAIN Stages, i < stage
            PROVE  Stages[i] \in {"id_assign", "db_identity_assign"}
        <5>1. i \in DOMAIN (job.normalizers \o job.chain) /\ i \in Nat
          BY <4>1, <4>2, ConcatLen DEF Stages
        <5>2. i <= Len(job.normalizers)
          BY <4>1, <4>2, <5>1
        <5>3. QED
          BY <4>1, <5>1, <5>2, FrontOfConcat DEF Stages
      <4>3. QED
        BY <4>2, NamesAndStatuses DEF Past
    <3>2. QED
      BY <2>4, <3>1 DEF NothingAhead
  <2>7. AllMatched(events, item)
    <3>1. \A j \in DOMAIN item.steps : item.steps[j].name \notin Analyzers
      BY <2>2, <2>3, <2>4, <2>6, AppendProperties
    <3>2. QED
      BY <3>1 DEF AllMatched
  <2>8. (AllMatched(events, cur))'
    BY <2>1, <2>4, <2>7 DEF AllMatched, Matched, Own, Told
  <2>9. (\A i \in DOMAIN lines : AllMatched(events, lines[i]))' /\ (Backed(cache, events))'
    BY <2>1, <2>4 DEF MatchInv, AllMatched, Matched, Own, Told, Backed
  <2>10. \A k \in DOMAIN events' : events'[k].n <= loaded'
    BY <2>1, <2>4 DEF MatchInv
  <2>11. QED
    BY <2>5, <2>8, <2>9, <2>10 DEF MatchInv
<1>3. CASE \E name \in Analyzers : AnalyzerStep(name)
  <2>1. PICK name \in Analyzers : AnalyzerStep(name)
    BY <1>3
  <2>2. PICK status \in Status :
          /\ Pass(Annotated(name, status))
          /\ \/ /\ Report(name, status)
                /\ \/ cache' = cache
                   \/ name = "schema_analysis" /\ cache' = [cache EXCEPT ![cur.db] = status]
             \/ /\ name = "schema_analysis" /\ cache[cur.db] = status
                /\ status # None /\ status # "skipped"
                /\ UNCHANGED <<cache, events>>
    BY <2>1, ReportsOrRepeats
  <2> DEFINE step == [name |-> name, status |-> status]
             event == [n |-> cur.n, name |-> name, db |-> cur.db, status |-> status]
             item == Annotated(name, status)
  <2>3. cur # None /\ stage <= Len(Stages) /\ Stages[stage] = name
    BY <2>1, Analyzes
  <2>4. /\ item \in Item /\ item.n = cur.n /\ item.db = cur.db
        /\ item.steps = Append(cur.steps, step) /\ step \in Step
        /\ step.name = name /\ step.status = status
    BY <2>3, AnnotatedType
  <2>5. cur' = item /\ UNCHANGED <<job, loaded, lines>>
    BY <2>2 DEF Pass
  <2>6. event.n = cur.n /\ event.name = name /\ event.db = cur.db /\ event.status = status
    OBVIOUS
  <2>7. Report(name, status) => event \in Event /\ events' = Append(events, event)
    BY <2>3, ReportType
  <2>8. /\ cur \in Item /\ cur.n = loaded /\ loaded \in Nat /\ cur.db \in Dbs \union {None}
        /\ AllMatched(events, cur) /\ NothingAhead /\ cur.steps \in Seq(Step)
        /\ cache \in [Dbs \union {None} -> Outcomes.schema_analysis \union {None}]
    BY <2>3, CurType DEF MatchInv, TypeOK
  <2> HIDE DEF step, event, item
  <2>9. Pass(item)
    BY <2>2 DEF item
  <2>10. Own(events, cur.n, name) = {} /\ \A j \in DOMAIN cur.steps : cur.steps[j].name # name
    BY <2>3, <2>8, StageOnce DEF NothingAhead
  <2>11. CASE Report(name, status)
    <3>1. event \in Event /\ events' = Append(events, event)
      BY <2>7, <2>11
    <3>2. NothingAhead'
      <4>1. \E e \in Event : events' = Append(events, e) /\ e.name = Stages[stage]
        BY <2>3, <2>6, <3>1
      <4>2. \E s \in Step : item.steps = Append(cur.steps, s) /\ (s.name \in Analyzers => s.name = Stages[stage])
        BY <2>3, <2>4
      <4>3. QED
        BY <2>3, <2>4, <2>8, <2>9, <4>1, <4>2, NothingAheadStep
    <3>3. AllMatched(Append(events, event), cur)
      BY <1>0, <2>6, <2>8, <2>10, AllMatchedOn
    <3>4. Matched(Append(events, event), item, step)
      BY <1>0, <2>4, <2>6, <2>10, MatchedNew
    <3>5. AllMatched(Append(events, event), item)
      BY <2>4, <2>8, <3>3, <3>4, AllMatchedStep
    <3>6. \A i \in DOMAIN lines : AllMatched(Append(events, event), lines[i])
      BY <2>3, <2>6, LinesMatched
    <3>7. Backed(cache', Append(events, event))
      <4>1. CASE cache' = cache
        BY <1>0, <4>1, BackedOn DEF MatchInv
      <4>2. CASE name = "schema_analysis" /\ cache' = [cache EXCEPT ![event.db] = event.status]
        BY <1>0, <2>6, <2>8, <4>2, BackedNew DEF MatchInv
      <4>3. QED
        <5>1. \/ Report(name, status) /\ cache' = cache
              \/ name = "schema_analysis" /\ cache' = [cache EXCEPT ![cur.db] = status]
              \/ cache' = cache
          BY <2>2
        <5>2. QED
          BY <2>6, <4>1, <4>2, <5>1
    <3>8. \A k \in DOMAIN events' : events'[k].n <= loaded'
      <4>1. \A k \in DOMAIN Append(events, event) : Append(events, event)[k].n <= loaded
        BY <1>0, <2>6, <2>8, <3>1, EventAppend DEF MatchInv
      <4>2. QED
        BY <2>5, <3>1, <4>1
    <3>9. AllMatched(events', cur') /\ (\A i \in DOMAIN lines' : AllMatched(events', lines'[i]))
          /\ Backed(cache', events')
      BY <2>5, <3>1, <3>5, <3>6, <3>7
    <3>10. (AllMatched(events, cur))' /\ (\A i \in DOMAIN lines : AllMatched(events, lines[i]))'
           /\ (Backed(cache, events))'
      BY <3>9 DEF AllMatched, Matched, Own, Told, Backed
    <3>11. QED
      BY <3>2, <3>8, <3>10 DEF MatchInv
  <2>12. CASE /\ name = "schema_analysis" /\ cache[cur.db] = status
              /\ status # None /\ status # "skipped" /\ UNCHANGED <<cache, events>>
    <3>1. NothingAhead'
      <4>1. \E s \in Step : item.steps = Append(cur.steps, s) /\ (s.name \in Analyzers => s.name = Stages[stage])
        BY <2>3, <2>4
      <4>2. QED
        BY <2>3, <2>4, <2>8, <2>9, <2>12, <4>1, NothingAheadStep
    <3>2. Told(events, item, status)
      <4>1. PICK k \in DOMAIN events : /\ events[k].name = "schema_analysis"
                                       /\ events[k].db = cur.db /\ events[k].status = status
        BY <2>8, <2>12 DEF MatchInv, Backed
      <4>2. events[k].n # cur.n
        BY <2>10, <2>12, <4>1 DEF Own
      <4>3. events[k].n <= loaded /\ events[k].n \in Nat
        BY <1>0, EventNumber DEF MatchInv
      <4>4. events[k].n < item.n
        BY <2>4, <2>8, <4>2, <4>3
      <4>5. QED
        BY <2>4, <2>12, <4>1, <4>4 DEF Told
    <3>3. Matched(events, item, step)
      BY <2>4, <2>10, <2>12, <3>2 DEF Matched
    <3>4. AllMatched(events, item)
      BY <2>4, <2>8, <3>3, AllMatchedStep
    <3>5. (AllMatched(events, cur))' /\ (\A i \in DOMAIN lines : AllMatched(events, lines[i]))'
          /\ (Backed(cache, events))'
      BY <2>5, <2>12, <3>4 DEF MatchInv, AllMatched, Matched, Own, Told, Backed
    <3>6. \A k \in DOMAIN events' : events'[k].n <= loaded'
      BY <2>5, <2>12 DEF MatchInv
    <3>7. QED
      BY <3>1, <3>5, <3>6 DEF MatchInv
  <2>13. QED
    BY <2>2, <2>11, <2>12
<1>4. CASE Write
  <2>1. /\ cur' = None /\ lines' = Append(lines, cur) /\ cur \in Item /\ cur # None
        /\ UNCHANGED <<loaded, cache, events>>
    BY <1>4, Writes
  <2>2. ASSUME NEW i \in DOMAIN lines' PROVE AllMatched(events, lines'[i])
    BY <1>0, <2>1, <2>2, AppendProperties DEF MatchInv
  <2>3. (\A i \in DOMAIN lines : AllMatched(events, lines[i]))' /\ (Backed(cache, events))'
    BY <2>1, <2>2 DEF MatchInv, AllMatched, Matched, Own, Told, Backed
  <2>4. QED
    BY <2>1, <2>3 DEF MatchInv
<1>5. CASE UNCHANGED <<job, loaded, cur, stage, cache, events, lines>>
  <2>1. Stages' = Stages
    BY <1>5 DEF Stages
  <2>2. NothingAhead' = NothingAhead
    BY <1>5, <2>1 DEF NothingAhead, Past, Own
  <2>3. (AllMatched(events, cur))' = AllMatched(events, cur)
    BY <1>5 DEF AllMatched, Matched, Own, Told
  <2>4. (\A i \in DOMAIN lines : AllMatched(events, lines[i]))'
    BY <1>5 DEF MatchInv, AllMatched, Matched, Own, Told
  <2>5. (Backed(cache, events))' /\ \A k \in DOMAIN events' : events'[k].n <= loaded'
    BY <1>5 DEF MatchInv, Backed
  <2>6. QED
    BY <1>5, <2>2, <2>3, <2>4, <2>5 DEF MatchInv
<1>6. CASE Stop
  BY <1>5, <1>6, Stops
<1>7. CASE UNCHANGED pipeVars
  BY <1>5, <1>7 DEF pipeVars
<1>8. QED
  BY <1>1, <1>2, <1>3, <1>4, <1>6, <1>7, KindsOfPipelineStep

\* The events in the metrics and the steps in the annotated items agree, item by
\* item and analyzer by analyzer, for any dataset, chain and statuses.
(* Every analyzer's step has exactly one event with its status, or is a    *)
(* schema step that repeats the event of an earlier item of its database,  *)
(* for any dataset, chain and way to end.                                  *)
THEOREM MatchTheorem == Spec => []EventsMatchSteps
<1>1. Init => OrderInv /\ MatchInv
  BY DEF Init, OrderInv, MatchInv, Backed
<1>2. MatchInv => EventsMatchSteps
  <2> SUFFICES ASSUME MatchInv PROVE EventsMatchSteps
    OBVIOUS
  <2>1. \A item \in Seen : AllMatched(events, item)
    BY DEF MatchInv, Seen, Written
  <2>2. QED
    BY <2>1 DEF EventsMatchSteps, Repeats, AllMatched, Matched, Own, Told
<1>3. QED
  BY <1>1, <1>2, OrderStep, MatchStep, PipelineTypeCorrect, PTL DEF Spec
================================================================================
