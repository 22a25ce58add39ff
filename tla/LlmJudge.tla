-------------------------------- MODULE LlmJudge --------------------------------
(***************************************************************************)
(* SemanticLLMAnalyzer: the providers of a panel are asked about each item *)
(* one after the other, or in a pool of max_workers threads whose results  *)
(* are taken as they complete.  A Gemini provider has several API keys and *)
(* goes on to the next one when the service turns a key down; the key it   *)
(* is at stays from item to item.                                          *)
(***************************************************************************)
EXTENDS Integers, FiniteSetsExt, SequencesExt

CONSTANTS
    Keys,       \* API keys
    Panels,     \* the analyzer's configurations
    Answers,    \* what a service says of an item
    None,
    MaxItems    \* bound: items

Verdicts == {"CORRECT", "PARTIALLY_CORRECT", "INCORRECT", "UNANSWERABLE"}

\* Besides a verdict: a JSON object with another verdict or none, JSON that is
\* not an object, and text that is not JSON.
Answer == Verdicts \union {"unknown_verdict", "no_object", "no_json"}

\* No client or an error of the service, and every key turned down.
Failures == {"error", "exhausted"}

\* A model of a provider: without a key it has no client; adaptive is a Claude
\* model with reasoning in mode "auto".  Its weight only makes the score.
Provider == [keys : Seq(Keys), adaptive : BOOLEAN]

Panel == [providers : Seq(Provider), parallel_voters : BOOLEAN, max_workers : Int]

ASSUME JudgeAssumption ==
    /\ Panels \subseteq Panel
    /\ Answers \subseteq Answer
    /\ None \notin Answer \union Failures
    /\ MaxItems \in Nat

VARIABLES
    panel,      \* providers, parallel_voters and max_workers
    current,    \* per provider, the index of the key it is at
    working,    \* the keys the services accept at present
    pc,         \* "idle", or "vote" while an item is judged
    voters,     \* per provider, how far its vote on the item is
    results,    \* the providers whose result is in, in order
    report,     \* the event of the last item, None until it is there
    taken       \* bound: items taken

judgeVars == <<panel, current, working, pc, voters, results, report, taken>>

Providers == DOMAIN panel.providers
KeysOf(v) == panel.providers[v].keys
Key(v) == KeysOf(v)[current[v]]

Waiting == [state |-> "queued", tried |-> 0, manual |-> FALSE, said |-> None, lasting |-> {}]

Init ==
    /\ panel \in Panels
    /\ current = [v \in Providers |-> 1]
    /\ working \in SUBSET Keys
    /\ pc = "idle"
    /\ voters = [v \in Providers |-> Waiting]
    /\ results = <<>>
    /\ report = None
    /\ taken = 0

------------------------------------------------------------------------------
(* One vote. *)

Calling == {v \in Providers : voters[v].state = "calling"}

Pool == panel.parallel_voters /\ Len(panel.providers) > 1

\* One at a time, or as many as the pool has threads.
Workers ==
    CASE ~Pool \/ panel.max_workers < 0 -> 1
      [] Pool /\ panel.max_workers = 0 -> Len(panel.providers)
      [] OTHER -> panel.max_workers

\* The verdict _query_voter makes of an answer.
Verdict(said) ==
    CASE said \in Verdicts -> said
      [] said = "unknown_verdict" -> "INCORRECT"
      [] OTHER -> "FAILED"

Voting(v) == pc = "vote" /\ UNCHANGED <<panel, working, pc, results, report, taken>>

\* The provider has answered, or raised an error.
Says(v, said) ==
    /\ voters' = [voters EXCEPT ![v] =
            [Waiting EXCEPT !.state = "done", !.said = said,
                            !.lasting = IF said = "exhausted" THEN voters[v].lasting ELSE {}]]
    /\ UNCHANGED current

\* lasting is for the properties: the keys accepted ever since the call began.
Call(v) ==
    /\ Voting(v)
    /\ voters[v].state = "queued"
    /\ \A w \in 1..(v - 1) : voters[w].state # "queued"
    /\ Cardinality(Calling) < Workers
    /\ voters' = [voters EXCEPT ![v].state = "calling", ![v].lasting = working]
    /\ UNCHANGED current

Requests(v) == Voting(v) /\ voters[v].state = "calling"

NoClient(v) ==
    /\ Requests(v)
    /\ KeysOf(v) = <<>>
    /\ Says(v, "error")

Answered(v, said) ==
    /\ Requests(v)
    /\ KeysOf(v) # <<>> /\ Key(v) \in working
    /\ Says(v, said)

\* An error that is no matter of the key.
Broken(v) ==
    /\ Requests(v)
    /\ KeysOf(v) # <<>>
    /\ Says(v, "error")

\* Mutant: the last key is never tried.
MoreKeys_Short(v) == voters[v].tried + 2 < Len(KeysOf(v))

MoreKeys(v) == voters[v].tried + 1 < Len(KeysOf(v))

\* After the last key comes the first.
Following(v) == IF current[v] = Len(KeysOf(v)) THEN 1 ELSE current[v] + 1

\* Mutant: the keys that were tried are not counted.
NextKey_Uncounted(v) ==
    /\ current' = [current EXCEPT ![v] = Following(v)]
    /\ UNCHANGED voters

NextKey(v) ==
    /\ current' = [current EXCEPT ![v] = Following(v)]
    /\ voters' = [voters EXCEPT ![v].tried = @ + 1]

\* The service turns the key down: quota, rate or an invalid key.
KeyRefused(v) ==
    /\ Requests(v)
    /\ KeysOf(v) # <<>> /\ Key(v) \notin working
    /\ IF MoreKeys(v) THEN NextKey(v) ELSE Says(v, "exhausted")

\* The model does not know adaptive thinking and is asked again with a budget.
AskManually(v) ==
    /\ Requests(v)
    /\ KeysOf(v) # <<>> /\ Key(v) \in working
    /\ panel.providers[v].adaptive /\ ~voters[v].manual
    /\ voters' = [voters EXCEPT ![v].manual = TRUE]
    /\ UNCHANGED current

Vote(v) ==
    \/ Call(v) \/ NoClient(v) \/ Broken(v) \/ KeyRefused(v) \/ AskManually(v)
    \/ \E said \in Answers : Answered(v, said)
------------------------------------------------------------------------------
(* The item. *)

NoFeatures ==
    [total_voters |-> 0, count |-> [d \in Verdicts |-> 0], voters_failed |-> 0,
     consensus_verdict |-> None, is_unanimous |-> FALSE]

\* Mutant: the failed voters count for the majority.
Majority_OfAll(count, valid, failed) ==
    {d \in Verdicts : 2 * count[d] > valid + failed}

Majority(count, valid, failed) == {d \in Verdicts : 2 * count[d] > valid}

\* What _aggregate_results makes of the results, a sequence of provider indices.
Features(rs) ==
    LET cast(d) == {i \in DOMAIN rs : Verdict(voters[rs[i]].said) = d}
        valid == DOMAIN rs \ cast("FAILED")
        count == [d \in Verdicts |-> Cardinality(cast(d))]
        major == Majority(count, Cardinality(valid), Cardinality(cast("FAILED")))
    IN  [total_voters |-> Len(rs),
         count |-> count,
         voters_failed |-> Cardinality(cast("FAILED")),
         consensus_verdict |-> IF major = {} THEN None ELSE CHOOSE d \in major : TRUE,
         is_unanimous |-> \E d \in Verdicts : valid # {} /\ cast(d) = valid]

\* _determine_status.
Status(f) ==
    CASE f.voters_failed = f.total_voters -> "failed"
      [] f.consensus_verdict = "CORRECT" -> "ok"
      [] f.consensus_verdict \in {"INCORRECT", "UNANSWERABLE"} -> "errors"
      [] OTHER -> "warns"

Report(features, status) ==
    report' = [features |-> features, status |-> status, said |-> [v \in Providers |-> voters[v].said]]

\* An item without SQL, question, db_id or schema is not put to the vote.
TakeUnjudged ==
    /\ pc = "idle" /\ panel.providers # <<>>
    /\ taken < MaxItems
    /\ taken' = taken + 1
    /\ Report(NoFeatures, "failed")
    /\ UNCHANGED <<panel, current, working, pc, voters, results>>

Take ==
    /\ pc = "idle" /\ panel.providers # <<>>
    /\ taken < MaxItems
    /\ taken' = taken + 1
    /\ pc' = "vote"
    /\ report' = None
    /\ UNCHANGED <<panel, current, working, voters, results>>

\* Without providers the items pass and there is no event.
PassBy ==
    /\ pc = "idle" /\ panel.providers = <<>>
    /\ taken < MaxItems
    /\ taken' = taken + 1
    /\ UNCHANGED <<panel, current, working, pc, voters, results, report>>

Uncollected == {v \in Providers : \A i \in DOMAIN results : results[i] # v}

\* Mutant: the call need not have ended.
Collect_Running(v) ==
    /\ pc = "vote"
    /\ v \in Uncollected
    /\ Pool \/ v = Len(results) + 1
    /\ results' = Append(results, v)
    /\ UNCHANGED <<panel, current, working, pc, voters, report, taken>>

\* The result of a call that has ended, in the order they end; in the order of
\* the list when there is no pool.
Collect(v) ==
    /\ pc = "vote"
    /\ v \in Uncollected
    /\ Pool \/ v = Len(results) + 1
    /\ voters[v].state = "done"
    /\ results' = Append(results, v)
    /\ UNCHANGED <<panel, current, working, pc, voters, report, taken>>

AllIn == Len(results) = Len(panel.providers)

Judge ==
    /\ pc = "vote"
    /\ AllIn
    /\ Report(Features(results), Status(Features(results)))
    /\ pc' = "idle"
    /\ voters' = [v \in Providers |-> Waiting]
    /\ results' = <<>>
    /\ UNCHANGED <<panel, current, working, taken>>

\* Keys run out of quota and recover, at any time.
Quota ==
    \E keys \in SUBSET Keys :
        /\ keys # working
        /\ working' = keys
        /\ voters' = [v \in Providers |->
                IF v \in Calling THEN [voters[v] EXCEPT !.lasting = @ \intersect keys] ELSE voters[v]]
        /\ UNCHANGED <<panel, current, pc, results, report, taken>>

Analyzer == Judge \/ \E v \in Providers : Collect(v)

Next ==
    \/ Take \/ TakeUnjudged \/ PassBy
    \/ Analyzer
    \/ \E v \in Providers : Vote(v)
    \/ Quota

Spec == Init /\ [][Next]_judgeVars

\* The threads run and every request to a service comes to an end.
FairSpec ==
    /\ Spec
    /\ WF_judgeVars(Analyzer)
    /\ \A v \in 1..Max({Len(p.providers) : p \in Panels} \union {0}) :
            WF_judgeVars(v \in Providers /\ Vote(v))
------------------------------------------------------------------------------
VoteType ==
    [state : {"queued", "calling", "done"}, tried : Nat, manual : BOOLEAN,
     said : Answers \union Failures \union {None}, lasting : SUBSET Keys]

FeaturesType ==
    [total_voters : Nat, count : [Verdicts -> Nat], voters_failed : Nat,
     consensus_verdict : Verdicts \union {None}, is_unanimous : BOOLEAN]

\* Every variable keeps to its type; the index of a provider's key is one of its
\* keys and fewer of them have been tried than there are.
TypeOK ==
    /\ panel \in Panels
    /\ current \in [Providers -> Nat \ {0}]
    /\ working \in SUBSET Keys
    /\ pc \in {"idle", "vote"}
    /\ voters \in [Providers -> VoteType]
    /\ results \in Seq(Providers)
    /\ report = None \/
        /\ report.features \in FeaturesType
        /\ report.status \in {"ok", "warns", "errors", "failed"}
        /\ report.said \in [Providers -> Answers \union Failures \union {None}]
    /\ taken \in 0..MaxItems
    /\ \A v \in Providers :
        /\ KeysOf(v) # <<>> => current[v] \in DOMAIN KeysOf(v)
        /\ voters[v].tried = 0 \/ voters[v].tried < Len(KeysOf(v))
        /\ voters[v].state = "done" <=> voters[v].said # None

\* The calls under way fit the pool, and each result that is in is the result
\* of one provider's call that has ended: none is taken twice or for another.
ResultsAreTheVoters ==
    /\ Cardinality(Calling) <= Workers
    /\ IsInjective(results)
    /\ \A i \in DOMAIN results : voters[results[i]].state = "done"

Cast(said, d) == {v \in Providers : Verdict(said[v]) = d}

\* The event of an item that was put to the vote counts every provider, and its
\* status is what more than half of those who gave a verdict say: failed
\* without any, warns without a majority, whatever the order of the results.
\* These are the rules of _determine_status (lines 445-448); those of the class
\* (lines 43-46) are others, see OkMeansAllCorrect.
StatusIsTheMajoritys ==
    report # None /\ report.features.total_voters > 0 =>
        LET valid == Providers \ Cast(report.said, "FAILED")
            Carried(ds) == \E d \in ds : 2 * Cardinality(Cast(report.said, d)) > Cardinality(valid)
        IN  /\ report.features.total_voters = Cardinality(Providers)
            /\ report.status = "failed" <=> valid = {}
            /\ report.status = "ok" <=> Carried({"CORRECT"})
            /\ report.status = "errors" <=> Carried({"INCORRECT", "UNANSWERABLE"})

\* The class: "ok: All voters respond with CORRECT" (line 43), and so README.md:37.
\* A voter that dissents is outvoted.
OkMeansAllCorrect ==
    report # None /\ report.status = "ok" =>
        Providers = Cast(report.said, "CORRECT") \union Cast(report.said, "FAILED")

\* A provider gives up over its keys only if none of them was accepted all the
\* time it was asking, wherever the earlier items have left it.
ExhaustedMeansNoKey ==
    \A v \in Providers :
        voters[v].said = "exhausted" => voters[v].lasting \intersect Range(KeysOf(v)) = {}

\* However often the keys are turned down, an item that is put to the vote gets
\* its event.
EveryItemJudged == (pc = "vote") ~> (pc = "idle")
================================================================================
