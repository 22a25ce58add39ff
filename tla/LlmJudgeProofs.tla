----------------------------- MODULE LlmJudgeProofs -----------------------------
(***************************************************************************)
(* Proofs about LlmJudge: its types, which results are counted, what the   *)
(* status of an event says and when a provider gives up its keys.          *)
(***************************************************************************)
EXTENDS LlmJudge, FiniteSetTheorems, SequenceTheorems, TLAPS

USE JudgeAssumption DEF JudgeAssumption

------------------------------------------------------------------------------
(* Types. *)

\* The panel is a sequence of providers with sequences of keys.
LEMMA PanelType ==
    ASSUME panel \in Panels
    PROVE  /\ panel.providers \in Seq(Provider)
           /\ Len(panel.providers) \in Nat /\ Providers = 1..Len(panel.providers)
           /\ panel.max_workers \in Int /\ panel.parallel_voters \in BOOLEAN
           /\ IsFiniteSet(Providers) /\ Cardinality(Providers) = Len(panel.providers)
           /\ \A v \in Providers : KeysOf(v) \in Seq(Keys)
<1>1. panel \in Panel
  OBVIOUS
<1>2. /\ panel.providers \in Seq(Provider)
      /\ panel.max_workers \in Int /\ panel.parallel_voters \in BOOLEAN
  BY <1>1 DEF Panel
<1>3. Len(panel.providers) \in Nat /\ Providers = 1..Len(panel.providers)
  BY <1>2 DEF Providers
<1>4. IsFiniteSet(Providers) /\ Cardinality(Providers) = Len(panel.providers)
  BY <1>3, FS_Interval
<1>5. ASSUME NEW v \in Providers PROVE KeysOf(v) \in Seq(Keys)
  <2>1. panel.providers[v] \in Provider
    BY <1>2, <1>3, <1>5
  <2>2. QED
    BY <2>1 DEF Provider, KeysOf
<1>6. QED
  BY <1>2, <1>3, <1>4, <1>5

\* What one vote leaves of the type invariant.
VoteOK(v, vote, key) ==
    /\ vote \in VoteType
    /\ key \in Nat \ {0}
    /\ KeysOf(v) # <<>> => key \in DOMAIN KeysOf(v)
    /\ vote.tried = 0 \/ vote.tried < Len(KeysOf(v))
    /\ vote.state = "done" <=> vote.said # None

VotesOK == \A v \in Providers : VoteOK(v, voters[v], current[v])

\* The parts of TypeOK the votes do not touch.
FrameOK ==
    /\ panel \in Panels
    /\ working \in SUBSET Keys
    /\ pc \in {"idle", "vote"}
    /\ results \in Seq(Providers)
    /\ report = None \/
        /\ report.features \in FeaturesType
        /\ report.status \in {"ok", "warns", "errors", "failed"}
        /\ report.said \in [Providers -> Answers \union Failures \union {None}]
    /\ taken \in 0..MaxItems

TablesOK == DOMAIN voters = Providers /\ DOMAIN current = Providers
            /\ voters = [v \in Providers |-> voters[v]] /\ current = [v \in Providers |-> current[v]]

LEMMA TypeParts == TypeOK <=> FrameOK /\ VotesOK /\ TablesOK
<1>1. TypeOK => FrameOK /\ VotesOK /\ TablesOK
  BY DEF TypeOK, FrameOK, VotesOK, TablesOK, VoteOK
<1>2. FrameOK /\ VotesOK /\ TablesOK => TypeOK
  BY DEF TypeOK, FrameOK, VotesOK, TablesOK, VoteOK
<1>3. QED
  BY <1>1, <1>2

LEMMA WaitingOK ==
    ASSUME NEW v, NEW key \in Nat \ {0}, KeysOf(v) # <<>> => key \in DOMAIN KeysOf(v)
    PROVE  VoteOK(v, Waiting, key)
  BY DEF VoteOK, Waiting, VoteType, Answer

\* A step of one provider's vote: only its own record and key index change.
LEMMA VoteStep ==
    ASSUME TypeOK, NEW v \in Providers, Vote(v)
    PROVE  \E vote, key :
            /\ voters' = [voters EXCEPT ![v] = vote] /\ current' = [current EXCEPT ![v] = key]
            /\ VoteOK(v, vote, key)
<1>1. /\ VoteOK(v, voters[v], current[v]) /\ KeysOf(v) \in Seq(Keys) /\ working \in SUBSET Keys
      /\ voters \in [Providers -> VoteType] /\ current \in [Providers -> Nat \ {0}]
      /\ Len(KeysOf(v)) \in Nat /\ DOMAIN KeysOf(v) = 1..Len(KeysOf(v))
  <2>1. panel \in Panels
    BY DEF TypeOK
  <2>2. QED
    BY <2>1, PanelType, TypeParts DEF VotesOK, TypeOK
<1> DEFINE Goal == \E vote, key :
            /\ voters' = [voters EXCEPT ![v] = vote] /\ current' = [current EXCEPT ![v] = key]
            /\ VoteOK(v, vote, key)
<1>2. current = [current EXCEPT ![v] = current[v]] /\ voters = [voters EXCEPT ![v] = voters[v]]
  BY <1>1
<1>3. CASE Call(v)
  <2> DEFINE vote == [voters[v] EXCEPT !.state = "calling", !.lasting = working]
  <2>1. voters' = [voters EXCEPT ![v] = vote] /\ current' = [current EXCEPT ![v] = current[v]]
    BY <1>1, <1>2, <1>3 DEF Call
  <2>2. VoteOK(v, vote, current[v])
    BY <1>1, <1>3 DEF VoteOK, VoteType, Call
  <2>3. QED
    BY <2>1, <2>2
<1>4. ASSUME NEW said \in Answers \union Failures, Says(v, said) PROVE Goal
  <2> DEFINE vote == [Waiting EXCEPT !.state = "done", !.said = said,
                        !.lasting = IF said = "exhausted" THEN voters[v].lasting ELSE {}]
  <2>1. voters' = [voters EXCEPT ![v] = vote] /\ current' = [current EXCEPT ![v] = current[v]]
    BY <1>2, <1>4 DEF Says
  <2>2. VoteOK(v, vote, current[v])
    BY <1>1, <1>4 DEF VoteOK, VoteType, Waiting
  <2>3. QED
    BY <2>1, <2>2
<1>5. CASE NoClient(v) \/ Broken(v) \/ \E said \in Answers : Answered(v, said)
  <2>1. PICK said \in Answers \union Failures : Says(v, said)
    BY <1>5 DEF NoClient, Broken, Answered, Failures
  <2>2. QED
    BY <2>1, <1>4
<1>6. CASE KeyRefused(v)
  <2>1. KeysOf(v) # <<>> /\ voters[v].state = "calling"
    BY <1>6 DEF KeyRefused, Requests
  <2>2. CASE Says(v, "exhausted")
    BY <2>2, <1>4 DEF Failures
  <2>3. CASE MoreKeys(v) /\ NextKey(v)
    <3> DEFINE vote == [voters[v] EXCEPT !.tried = @ + 1]
    <3>1. voters' = [voters EXCEPT ![v] = vote] /\ current' = [current EXCEPT ![v] = Following(v)]
      BY <1>1, <2>3 DEF NextKey
    <3>2. Following(v) \in DOMAIN KeysOf(v)
      BY <1>1, <2>1 DEF Following, VoteOK
    <3>3. vote \in VoteType /\ vote.tried < Len(KeysOf(v)) /\ (vote.state = "done" <=> vote.said # None)
      <4>1. voters[v] \in VoteType /\ voters[v].tried + 1 < Len(KeysOf(v))
            /\ (voters[v].state = "done" <=> voters[v].said # None)
        BY <1>1, <2>3 DEF VoteOK, MoreKeys
      <4>2. QED
        BY <4>1 DEF VoteType
    <3>4. VoteOK(v, vote, Following(v))
      BY <1>1, <3>2, <3>3 DEF VoteOK
    <3>5. QED
      BY <3>1, <3>4
  <2>4. QED
    BY <1>6, <2>2, <2>3 DEF KeyRefused
<1>7. CASE AskManually(v)
  <2> DEFINE vote == [voters[v] EXCEPT !.manual = TRUE]
  <2>1. voters' = [voters EXCEPT ![v] = vote] /\ current' = [current EXCEPT ![v] = current[v]]
    BY <1>1, <1>2, <1>7 DEF AskManually
  <2>2. VoteOK(v, vote, current[v])
    BY <1>1 DEF VoteOK, VoteType
  <2>3. QED
    BY <2>1, <2>2
<1>8. QED
  BY <1>3, <1>5, <1>6, <1>7 DEF Vote

\* Replacing one provider's record and key index.
LEMMA OneVote ==
    ASSUME TypeOK, NEW v \in Providers, NEW vote, NEW key, VoteOK(v, vote, key),
           voters' = [voters EXCEPT ![v] = vote], current' = [current EXCEPT ![v] = key],
           panel' = panel
    PROVE  VotesOK' /\ TablesOK'
<1>1. /\ VotesOK /\ TablesOK /\ Providers' = Providers
      /\ voters \in [Providers -> VoteType] /\ current \in [Providers -> Nat \ {0}]
  BY TypeParts DEF TypeOK, Providers
<1>2. /\ DOMAIN voters' = Providers /\ DOMAIN current' = Providers
      /\ \A w \in Providers : voters'[w] = (IF w = v THEN vote ELSE voters[w])
      /\ \A w \in Providers : current'[w] = (IF w = v THEN key ELSE current[w])
  BY <1>1
<1>3. TablesOK'
  BY <1>1, <1>2 DEF TablesOK
<1>4. ASSUME NEW w \in Providers PROVE VoteOK(w, voters'[w], current'[w])
  BY <1>1, <1>2 DEF VotesOK
<1>5. ASSUME NEW w \in Providers PROVE KeysOf(w)' = KeysOf(w)
  BY DEF KeysOf
<1>6. VotesOK'
  BY <1>1, <1>4, <1>5 DEF VotesOK, VoteOK
<1>7. QED
  BY <1>3, <1>6

\* All the votes begin anew.
LEMMA AllWaiting ==
    ASSUME TypeOK, panel' = panel, current' = current,
           voters' = [v \in Providers |-> Waiting]
    PROVE  VotesOK' /\ TablesOK'
<1>1. VotesOK /\ TablesOK /\ Providers' = Providers /\ current \in [Providers -> Nat \ {0}]
  BY TypeParts DEF TypeOK, Providers
<1>2. TablesOK'
  BY <1>1 DEF TablesOK
<1>3. ASSUME NEW v \in Providers PROVE VoteOK(v, Waiting, current[v]) /\ KeysOf(v)' = KeysOf(v)
  BY <1>1, <1>3, WaitingOK DEF VotesOK, VoteOK, KeysOf
<1>4. VotesOK'
  BY <1>1, <1>3 DEF VotesOK, VoteOK
<1>5. QED
  BY <1>2, <1>4

LEMMA QuotaStep ==
    ASSUME TypeOK, Quota
    PROVE  VotesOK' /\ TablesOK'
<1>1. PICK keys \in SUBSET Keys :
        /\ voters' = [v \in Providers |->
                IF v \in Calling THEN [voters[v] EXCEPT !.lasting = @ \intersect keys] ELSE voters[v]]
        /\ UNCHANGED <<panel, current>>
  BY DEF Quota
<1>2. VotesOK /\ TablesOK /\ Providers' = Providers /\ voters \in [Providers -> VoteType]
  BY <1>1, TypeParts DEF TypeOK, Providers
<1>3. TablesOK'
  BY <1>1, <1>2 DEF TablesOK
<1>4. ASSUME NEW v \in Providers
      PROVE  VoteOK(v, voters'[v], current[v]) /\ KeysOf(v)' = KeysOf(v)
  <2>1. VoteOK(v, voters[v], current[v]) /\ voters[v] \in VoteType
    BY <1>2, <1>4 DEF VotesOK
  <2>2. VoteOK(v, [voters[v] EXCEPT !.lasting = @ \intersect keys], current[v])
    BY <2>1 DEF VoteOK, VoteType
  <2>3. QED
    BY <1>1, <1>4, <2>1, <2>2 DEF KeysOf
<1>5. VotesOK'
  BY <1>1, <1>2, <1>4 DEF VotesOK, VoteOK
<1>6. QED
  BY <1>3, <1>5

\* The features of results that are in.
LEMMA CountsAreNat ==
    ASSUME NEW rs \in Seq(Providers), NEW T \in SUBSET (DOMAIN rs)
    PROVE  IsFiniteSet(T) /\ Cardinality(T) \in Nat
<1>1. Len(rs) \in Nat /\ DOMAIN rs = 1..Len(rs)
  OBVIOUS
<1>2. IsFiniteSet(DOMAIN rs)
  BY <1>1, FS_Interval
<1>3. IsFiniteSet(T)
  BY <1>2, FS_Subset
<1>4. QED
  BY <1>3, FS_CardinalityType

LEMMA FeaturesOK ==
    ASSUME NEW rs \in Seq(Providers)
    PROVE  Features(rs) \in FeaturesType /\ Status(Features(rs)) \in {"ok", "warns", "errors", "failed"}
<1> DEFINE cast(d) == {i \in DOMAIN rs : Verdict(voters[rs[i]].said) = d}
<1> DEFINE valid == DOMAIN rs \ cast("FAILED")
<1> DEFINE count == [d \in Verdicts |-> Cardinality(cast(d))]
<1> DEFINE major == Majority(count, Cardinality(valid), Cardinality(cast("FAILED")))
<1>1. ASSUME NEW d PROVE Cardinality(cast(d)) \in Nat
  BY CountsAreNat
<1>2. count \in [Verdicts -> Nat]
  BY <1>1
<1>3. (IF major = {} THEN None ELSE CHOOSE d \in major : TRUE) \in Verdicts \union {None}
  BY DEF Majority
<1>4. Len(rs) \in Nat
  OBVIOUS
<1>5. Features(rs) \in FeaturesType
  BY <1>1, <1>2, <1>3, <1>4 DEF Features, FeaturesType
<1>6. QED
  BY <1>5 DEF Status

LEMMA NoFeaturesOK == NoFeatures \in FeaturesType
  BY DEF NoFeatures, FeaturesType

\* What the steps do that do not belong to one vote.
LEMMA FrameStep ==
    ASSUME TypeOK, [Next]_judgeVars
    PROVE  FrameOK' /\ panel' = panel
<1>1. FrameOK /\ VotesOK /\ TablesOK /\ taken \in Nat /\ MaxItems \in Nat
  BY TypeParts DEF FrameOK
<1>2. panel' = panel /\ Providers' = Providers
  BY DEF Next, judgeVars, Take, TakeUnjudged, PassBy, Analyzer, Collect, Judge, Vote, Call, NoClient,
         Broken, KeyRefused, AskManually, Answered, Voting, Requests, Quota, Providers
<1>3. ASSUME NEW features \in FeaturesType, NEW status \in {"ok", "warns", "errors", "failed"},
             Report(features, status)
      PROVE  /\ report'.features \in FeaturesType
             /\ report'.status \in {"ok", "warns", "errors", "failed"}
             /\ report'.said \in [Providers -> Answers \union Failures \union {None}]
  <2>1. ASSUME NEW v \in Providers PROVE voters[v].said \in Answers \union Failures \union {None}
    <3>1. voters[v] \in VoteType
      BY <1>1 DEF VotesOK, VoteOK
    <3>2. QED
      BY <3>1 DEF VoteType
  <2>2. QED
    BY <1>3, <2>1 DEF Report
<1>4. CASE Take
  BY <1>1, <1>2, <1>4 DEF Take, FrameOK
<1>5. CASE TakeUnjudged
  <2>1. Report(NoFeatures, "failed") /\ taken' = taken + 1 /\ taken < MaxItems
        /\ UNCHANGED <<working, pc, results>>
    BY <1>5 DEF TakeUnjudged
  <2>2. taken' \in 0..MaxItems
    BY <1>1, <2>1
  <2>3. QED
    BY <1>1, <1>2, <1>3, <2>1, <2>2, NoFeaturesOK DEF FrameOK
<1>6. CASE PassBy
  BY <1>1, <1>2, <1>6 DEF PassBy, FrameOK
<1>7. ASSUME NEW v \in Providers, Collect(v) PROVE FrameOK'
  <2>1. results' = Append(results, v) /\ UNCHANGED <<working, pc, report, taken>>
    BY <1>7 DEF Collect
  <2>2. results' \in Seq(Providers)
    BY <1>1, <2>1 DEF FrameOK
  <2>3. QED
    BY <1>1, <1>2, <2>1, <2>2 DEF FrameOK
<1>8. CASE Judge
  <2>1. /\ Report(Features(results), Status(Features(results)))
        /\ pc' = "idle" /\ results' = <<>> /\ UNCHANGED <<working, taken>>
    BY <1>8 DEF Judge
  <2>2. results \in Seq(Providers)
    BY <1>1 DEF FrameOK
  <2>3. QED
    BY <1>1, <1>2, <1>3, <2>1, <2>2, FeaturesOK DEF FrameOK
<1>9. ASSUME NEW v \in Providers, Vote(v) PROVE FrameOK'
  <2>1. UNCHANGED <<working, pc, results, report, taken>>
    BY <1>9 DEF Vote, Call, NoClient, Broken, KeyRefused, AskManually, Answered, Voting, Requests
  <2>2. QED
    BY <1>1, <1>2, <2>1 DEF FrameOK
<1>10. CASE Quota
  <2>1. working' \in SUBSET Keys /\ UNCHANGED <<pc, results, report, taken>>
    BY <1>10 DEF Quota
  <2>2. QED
    BY <1>1, <1>2, <2>1 DEF FrameOK
<1>11. CASE UNCHANGED judgeVars
  BY <1>1, <1>2, <1>11 DEF judgeVars, FrameOK
<1>12. QED
  BY <1>2, <1>4, <1>5, <1>6, <1>7, <1>8, <1>9, <1>10, <1>11 DEF Next, Analyzer

LEMMA JudgeTypeStep ==
    ASSUME TypeOK, [Next]_judgeVars
    PROVE  TypeOK'
<1>1. FrameOK' /\ panel' = panel
  BY FrameStep
<1>2. SUFFICES VotesOK' /\ TablesOK'
  BY <1>1, TypeParts, PTL
<1>3. CASE UNCHANGED <<voters, current>>
  <2>1. VotesOK /\ TablesOK
    BY TypeParts
  <2>2. QED
    BY <1>1, <1>3, <2>1 DEF VotesOK, TablesOK, VoteOK, KeysOf, Providers
<1>4. ASSUME NEW v \in Providers, Vote(v) PROVE VotesOK' /\ TablesOK'
  <2>1. PICK vote, key :
            /\ voters' = [voters EXCEPT ![v] = vote] /\ current' = [current EXCEPT ![v] = key]
            /\ VoteOK(v, vote, key)
    BY <1>4, VoteStep
  <2>2. QED
    BY <1>1, <2>1, OneVote
<1>5. CASE Judge
  BY <1>1, <1>5, AllWaiting DEF Judge
<1>6. CASE Quota
  BY <1>6, QuotaStep
<1>7. ASSUME Take \/ TakeUnjudged \/ PassBy \/ \E v \in Providers : Collect(v)
      PROVE  UNCHANGED <<voters, current>>
  BY <1>7 DEF Take, TakeUnjudged, PassBy, Collect
<1>8. QED
  BY <1>3, <1>4, <1>5, <1>6, <1>7 DEF Next, Analyzer, judgeVars

LEMMA JudgeTypeInit == Init => TypeOK
<1> SUFFICES ASSUME Init PROVE TypeOK
  OBVIOUS
<1>1. panel \in Panels /\ \A v \in Providers : KeysOf(v) \in Seq(Keys)
  BY PanelType DEF Init
<1>2. FrameOK
  BY <1>1 DEF Init, FrameOK
<1>3. TablesOK
  BY DEF Init, TablesOK
<1>4. ASSUME NEW v \in Providers PROVE VoteOK(v, voters[v], current[v])
  <2>1. KeysOf(v) # <<>> => 1 \in DOMAIN KeysOf(v)
    BY <1>1
  <2>2. voters[v] = Waiting /\ current[v] = 1
    BY DEF Init
  <2>3. QED
    BY <2>1, <2>2, WaitingOK
<1>5. QED
  BY <1>2, <1>3, <1>4, TypeParts DEF VotesOK

\* The types of the panel's votes, key indices, results and events hold at
\* every step, for any panels and keys.
(* The types of votes, key indices, results and events hold at every step. *)
THEOREM JudgeTypeCorrect == Spec => []TypeOK
<1>1. TypeOK /\ [Next]_judgeVars => TypeOK'
  BY JudgeTypeStep
<1>2. QED
  BY <1>1, JudgeTypeInit, PTL DEF Spec

------------------------------------------------------------------------------
(* The results that are counted. *)

LEMMA WorkersType ==
    ASSUME panel \in Panels
    PROVE  Workers \in Int /\ Workers >= 1
<1>1. Len(panel.providers) \in Nat /\ panel.max_workers \in Int
  BY PanelType
<1>2. QED
  BY <1>1 DEF Workers, Pool

LEMMA CallingFinite ==
    ASSUME TypeOK
    PROVE  IsFiniteSet(Calling) /\ Cardinality(Calling) \in Nat
<1>1. IsFiniteSet(Providers)
  BY PanelType DEF TypeOK
<1>2. Calling \in SUBSET Providers
  BY DEF Calling
<1>3. IsFiniteSet(Calling)
  BY <1>1, <1>2, FS_Subset
<1>4. QED
  BY <1>3, FS_CardinalityType

\* A vote moves on from "queued" or "calling", and touches no other.
LEMMA VoteMoves ==
    ASSUME TypeOK, NEW v \in Providers, Vote(v)
    PROVE  /\ voters[v].state \in {"queued", "calling"}
           /\ UNCHANGED <<panel, results>>
           /\ \A w \in Providers \ {v} : voters'[w] = voters[w]
           /\ Call(v) \/ voters[v].state = "calling"
<1>1. PICK vote, key : voters' = [voters EXCEPT ![v] = vote] /\ current' = [current EXCEPT ![v] = key]
  BY VoteStep
<1>2. \A w \in Providers \ {v} : voters'[w] = voters[w]
  BY <1>1 DEF TypeOK
<1>3. QED
  BY <1>2 DEF Vote, Call, NoClient, Broken, KeyRefused, AskManually, Answered, Voting, Requests

LEMMA PoolStep ==
    ASSUME TypeOK, Cardinality(Calling) <= Workers, [Next]_judgeVars
    PROVE  (Cardinality(Calling) <= Workers)'
<1>1. /\ Workers \in Int /\ Workers >= 1 /\ IsFiniteSet(Calling) /\ Cardinality(Calling) \in Nat
      /\ voters \in [Providers -> VoteType]
  BY WorkersType, CallingFinite DEF TypeOK
<1>2. panel' = panel /\ Workers' = Workers /\ Providers' = Providers
  <2>1. panel' = panel
    BY FrameStep
  <2>2. QED
    BY <2>1 DEF Workers, Pool, Providers
<1>3. ASSUME Calling' \in SUBSET Calling PROVE (Cardinality(Calling) <= Workers)'
  <2>1. Cardinality(Calling') <= Cardinality(Calling) /\ IsFiniteSet(Calling')
    BY <1>1, <1>3, FS_Subset
  <2>2. Cardinality(Calling') \in Nat
    BY <2>1, FS_CardinalityType
  <2>3. QED
    BY <1>1, <1>2, <2>1, <2>2
<1>4. ASSUME NEW v \in Providers, Vote(v) PROVE (Cardinality(Calling) <= Workers)'
  <2>1. CASE Call(v)
    <3>1. Calling' = Calling \union {v} /\ Cardinality(Calling) < Workers
      BY <1>1, <1>2, <2>1 DEF Call, Calling
    <3>2. Cardinality(Calling \union {v}) =
            IF v \in Calling THEN Cardinality(Calling) ELSE Cardinality(Calling) + 1
      BY <1>1, FS_AddElement
    <3>3. QED
      BY <1>1, <1>2, <3>1, <3>2
  <2>2. CASE voters[v].state = "calling"
    BY <1>2, <1>3, <1>4, <2>2, VoteMoves DEF Calling
  <2>3. QED
    BY <1>4, <2>1, <2>2, VoteMoves
<1>5. CASE Judge
  BY <1>2, <1>3, <1>5 DEF Judge, Calling, Waiting
<1>6. CASE Quota
  <2>1. \A v \in Providers : voters'[v].state = voters[v].state
    BY <1>1, <1>6 DEF Quota, VoteType
  <2>2. QED
    BY <1>2, <1>3, <2>1 DEF Calling
<1>7. ASSUME UNCHANGED voters PROVE (Cardinality(Calling) <= Workers)'
  BY <1>2, <1>3, <1>7 DEF Calling
<1>8. QED
  BY <1>4, <1>5, <1>6, <1>7 DEF Next, Analyzer, Take, TakeUnjudged, PassBy, Collect, judgeVars

Collected ==
    /\ IsInjective(results)
    /\ \A i \in DOMAIN results : voters[results[i]].state = "done"

LEMMA CollectedStep ==
    ASSUME TypeOK, Collected, [Next]_judgeVars
    PROVE  Collected'
<1>1. /\ results \in Seq(Providers) /\ voters \in [Providers -> VoteType]
      /\ Len(results) \in Nat /\ DOMAIN results = 1..Len(results)
  BY DEF TypeOK
<1>2. ASSUME NEW v \in Providers, Vote(v) PROVE Collected'
  <2>1. \A i \in DOMAIN results : results[i] \in Providers \ {v}
    BY <1>1, <1>2, VoteMoves DEF Collected
  <2>2. QED
    BY <1>2, <2>1, VoteMoves DEF Collected, IsInjective
<1>3. ASSUME NEW v \in Providers, Collect(v) PROVE Collected'
  <2>1. /\ results' = Append(results, v) /\ voters' = voters /\ voters[v].state = "done"
        /\ \A i \in DOMAIN results : results[i] # v
    BY <1>3 DEF Collect, Uncollected
  <2>2. /\ DOMAIN results' = 1..(Len(results) + 1)
        /\ \A i \in DOMAIN results : results'[i] = results[i]
        /\ results'[Len(results) + 1] = v
    BY <1>1, <2>1
  <2>3. ASSUME NEW i \in DOMAIN results' PROVE i \in DOMAIN results \/ i = Len(results) + 1
    BY <1>1, <2>2
  <2>4. \A i \in DOMAIN results' : voters'[results'[i]].state = "done"
    BY <2>1, <2>2, <2>3 DEF Collected
  <2>5. ASSUME NEW i \in DOMAIN results', NEW j \in DOMAIN results', results'[i] = results'[j]
        PROVE  i = j
    BY <2>1, <2>2, <2>3, <2>5 DEF Collected, IsInjective
  <2>6. QED
    BY <2>4, <2>5 DEF Collected, IsInjective
<1>4. CASE Judge
  BY <1>4 DEF Judge, Collected, IsInjective
<1>5. CASE Quota
  <2>1. (\A v \in Providers : voters'[v].state = voters[v].state) /\ results' = results
    BY <1>1, <1>5 DEF Quota, VoteType
  <2>2. \A i \in DOMAIN results : results[i] \in Providers
    BY <1>1
  <2>3. QED
    BY <2>1, <2>2 DEF Collected, IsInjective
<1>6. CASE UNCHANGED <<voters, results>>
  BY <1>6 DEF Collected, IsInjective
<1>7. QED
  BY <1>2, <1>3, <1>4, <1>5, <1>6 DEF Next, Analyzer, Take, TakeUnjudged, PassBy, judgeVars

\* No result is taken twice, for another provider or before its call has ended,
\* and the calls under way fit the pool.
(* The calls fit the pool and every result that is in is the ended call of *)
(* one provider, for any panel.                                            *)
THEOREM ResultsTheorem == Spec => []ResultsAreTheVoters
<1>1. Init => Cardinality(Calling) <= Workers /\ Collected
  <2> SUFFICES ASSUME Init PROVE Cardinality(Calling) <= Workers /\ Collected
    OBVIOUS
  <2>1. Calling = {} /\ Collected
    BY DEF Init, Calling, Waiting, Collected, IsInjective
  <2>2. Workers \in Int /\ Workers >= 1
    BY WorkersType DEF Init
  <2>3. QED
    BY <2>1, <2>2, FS_EmptySet
<1>2. TypeOK /\ Cardinality(Calling) <= Workers /\ Collected /\ [Next]_judgeVars
        => (Cardinality(Calling) <= Workers /\ Collected)'
  BY PoolStep, CollectedStep
<1>3. Cardinality(Calling) <= Workers /\ Collected => ResultsAreTheVoters
  BY DEF Collected, ResultsAreTheVoters
<1>4. QED
  BY <1>1, <1>2, <1>3, JudgeTypeCorrect, PTL DEF Spec

------------------------------------------------------------------------------
(* The keys that were tried. *)

\* How many of n keys ago the provider was at key p.
Behind(p, key, n) == IF p <= key THEN key - p ELSE key - p + n

\* Each step from key to key leaves one more behind.
LEMMA OneMoreBehind ==
    ASSUME NEW n \in Nat, NEW c \in 1..n, NEW p \in 1..n, NEW t \in Nat, NEW d,
           d = IF c = n THEN 1 ELSE c + 1, Behind(p, d, n) \in 1..(t + 1)
    PROVE  Behind(p, c, n) \in 0..t
<1>1. CASE c = n
  BY <1>1 DEF Behind
<1>2. CASE c # n
  BY <1>2 DEF Behind
<1>3. QED
  BY <1>1, <1>2

\* Of the keys a call has left behind none has been accepted ever since.
KeysTried(v, vote, key, accepted) ==
    /\ vote.state = "queued" => vote.tried = 0
    /\ vote.state = "calling" =>
        /\ vote.lasting \subseteq accepted
        /\ \A p \in DOMAIN KeysOf(v) :
                Behind(p, key, Len(KeysOf(v))) \in 1..vote.tried => KeysOf(v)[p] \notin vote.lasting
    /\ vote.said = "exhausted" => vote.lasting \intersect Range(KeysOf(v)) = {}

TriedInv == \A v \in Providers : KeysTried(v, voters[v], current[v], working)

\* The step of one vote keeps the invariant of its provider.
LEMMA TriedVote ==
    ASSUME TypeOK, TriedInv, NEW v \in Providers, Vote(v)
    PROVE  KeysTried(v, voters'[v], current'[v], working)
<1> DEFINE n == Len(KeysOf(v))
<1>1. /\ VoteOK(v, voters[v], current[v]) /\ KeysTried(v, voters[v], current[v], working)
      /\ voters \in [Providers -> VoteType] /\ current \in [Providers -> Nat \ {0}]
      /\ voters[v] \in VoteType /\ voters[v].tried \in Nat
      /\ n \in Nat /\ DOMAIN KeysOf(v) = 1..n
  <2>1. panel \in Panels
    BY DEF TypeOK
  <2>2. voters[v] \in VoteType
    BY TypeParts DEF VotesOK, VoteOK
  <2>3. voters[v].tried \in Nat
    BY <2>2 DEF VoteType
  <2>4. QED
    BY <2>1, <2>2, <2>3, PanelType, TypeParts DEF VotesOK, TypeOK, TriedInv
<1>2. CASE Call(v)
  <2>1. /\ voters[v].state = "queued" /\ current' = current
        /\ voters'[v] = [voters[v] EXCEPT !.state = "calling", !.lasting = working]
    BY <1>1, <1>2 DEF Call
  <2>2. /\ voters'[v].state = "calling" /\ voters'[v].lasting = working
        /\ voters'[v].tried = 0 /\ voters'[v].said = None
    BY <1>1, <2>1 DEF KeysTried, VoteOK, VoteType
  <2>3. \A p \in DOMAIN KeysOf(v) : Behind(p, current'[v], Len(KeysOf(v))) \notin 1..0
    OBVIOUS
  <2>4. QED
    BY <2>2, <2>3 DEF KeysTried, Failures
<1>3. ASSUME NEW said, said # "exhausted", Says(v, said)
      PROVE  KeysTried(v, voters'[v], current'[v], working)
  <2>1. voters'[v].state = "done" /\ voters'[v].said = said
    BY <1>1, <1>3 DEF Says, Waiting
  <2>2. QED
    BY <1>3, <2>1 DEF KeysTried
<1>4. CASE NoClient(v) \/ Broken(v) \/ \E said \in Answers : Answered(v, said)
  BY <1>3, <1>4 DEF NoClient, Broken, Answered, Answer, Verdicts
<1>5. CASE KeyRefused(v)
  <2>1. /\ voters[v].state = "calling" /\ n # 0
        /\ current[v] \in 1..n /\ KeysOf(v)[current[v]] \notin working
        /\ voters[v].tried = 0 \/ voters[v].tried < n
    BY <1>1, <1>5 DEF KeyRefused, Requests, Key, VoteOK
  <2>2. ASSUME NEW p \in 1..n, Behind(p, current[v], Len(KeysOf(v))) \in 0..voters[v].tried
        PROVE  KeysOf(v)[p] \notin voters[v].lasting
    <3>1. CASE Behind(p, current[v], Len(KeysOf(v))) = 0
      <4>1. p = current[v]
        BY <2>1, <3>1 DEF Behind
      <4>2. voters[v].lasting \subseteq working
        BY <1>1, <2>1 DEF KeysTried
      <4>3. QED
        BY <2>1, <4>1, <4>2
    <3>2. CASE Behind(p, current[v], Len(KeysOf(v))) \in 1..voters[v].tried
      BY <1>1, <2>1, <3>2 DEF KeysTried
    <3>3. QED
      BY <1>1, <2>2, <3>1, <3>2
  <2>3. CASE MoreKeys(v) /\ NextKey(v)
    <3>1. voters'[v] = [voters[v] EXCEPT !.tried = @ + 1] /\ current'[v] = Following(v)
      BY <1>1, <2>3 DEF NextKey
    <3>2. /\ voters'[v].tried = voters[v].tried + 1 /\ voters'[v].state = "calling"
          /\ voters'[v].lasting = voters[v].lasting /\ voters'[v].said = voters[v].said
      BY <1>1, <2>1, <3>1 DEF VoteType
    <3>3. ASSUME NEW p \in 1..n, Behind(p, current'[v], Len(KeysOf(v))) \in 1..(voters[v].tried + 1)
          PROVE  Behind(p, current[v], Len(KeysOf(v))) \in 0..voters[v].tried
      <4>1. current[v] \in 1..n /\ current'[v] = IF current[v] = n THEN 1 ELSE current[v] + 1
        BY <2>1, <3>1 DEF Following
      <4>2. QED
        BY <1>1, <3>3, <4>1, OneMoreBehind
    <3>4. voters[v].said = None
      BY <1>1, <2>1 DEF VoteOK
    <3>5. voters[v].lasting \subseteq working
      BY <1>1, <2>1 DEF KeysTried
    <3>6. \A p \in DOMAIN KeysOf(v) :
            Behind(p, current'[v], Len(KeysOf(v))) \in 1..voters'[v].tried =>
                KeysOf(v)[p] \notin voters'[v].lasting
      BY <1>1, <2>2, <3>2, <3>3
    <3>7. QED
      BY <3>2, <3>4, <3>5, <3>6 DEF KeysTried, Failures
  <2>4. CASE ~MoreKeys(v) /\ Says(v, "exhausted")
    <3>1. /\ voters'[v].state = "done" /\ voters'[v].said = "exhausted"
          /\ voters'[v].lasting = voters[v].lasting
      BY <1>1, <2>4 DEF Says, Waiting
    <3>2. voters[v].tried + 1 >= n
      BY <1>1, <2>4 DEF MoreKeys
    <3>3. ASSUME NEW p \in 1..n PROVE KeysOf(v)[p] \notin voters[v].lasting
      <4>1. Behind(p, current[v], Len(KeysOf(v))) \in 0..voters[v].tried
        BY <1>1, <2>1, <3>2 DEF Behind
      <4>2. QED
        BY <2>2, <4>1
    <3>4. voters[v].lasting \intersect Range(KeysOf(v)) = {}
      BY <1>1, <3>3 DEF Range
    <3>5. QED
      BY <3>1, <3>4 DEF KeysTried
  <2>5. QED
    BY <1>5, <2>3, <2>4 DEF KeyRefused
<1>6. CASE AskManually(v)
  <2>1. voters'[v] = [voters[v] EXCEPT !.manual = TRUE] /\ current'[v] = current[v]
    BY <1>1, <1>6 DEF AskManually
  <2>2. /\ voters'[v].state = voters[v].state /\ voters'[v].tried = voters[v].tried
        /\ voters'[v].lasting = voters[v].lasting /\ voters'[v].said = voters[v].said
    BY <1>1, <2>1 DEF VoteType
  <2>3. QED
    BY <1>1, <2>1, <2>2 DEF KeysTried
<1>7. QED
  BY <1>2, <1>4, <1>5, <1>6 DEF Vote

LEMMA TriedStep ==
    ASSUME TypeOK, TriedInv, [Next]_judgeVars
    PROVE  TriedInv'
<1>1. /\ panel' = panel /\ Providers' = Providers
      /\ voters \in [Providers -> VoteType] /\ current \in [Providers -> Nat \ {0}]
  <2>1. panel' = panel
    BY FrameStep
  <2>2. QED
    BY <2>1 DEF Providers, TypeOK
<1>2. ASSUME NEW v \in Providers, KeysTried(v, voters'[v], current'[v], working')
      PROVE  KeysTried(v, voters[v], current[v], working)'
  BY <1>1, <1>2 DEF KeysTried, Behind, KeysOf
<1>3. SUFFICES ASSUME NEW v \in Providers PROVE KeysTried(v, voters'[v], current'[v], working')
  BY <1>1, <1>2 DEF TriedInv
<1>4. KeysTried(v, voters[v], current[v], working) /\ voters[v] \in VoteType
  BY <1>1 DEF TriedInv
<1>5. ASSUME NEW w \in Providers, Vote(w) PROVE KeysTried(v, voters'[v], current'[v], working')
  <2>1. working' = working
    BY <1>5 DEF Vote, Call, NoClient, Broken, KeyRefused, AskManually, Answered, Voting, Requests
  <2>2. CASE v = w
    BY <1>5, <2>1, <2>2, TriedVote
  <2>3. CASE v # w
    <3>1. PICK vote, key :
              voters' = [voters EXCEPT ![w] = vote] /\ current' = [current EXCEPT ![w] = key]
      BY <1>5, VoteStep
    <3>2. voters'[v] = voters[v] /\ current'[v] = current[v]
      BY <1>1, <2>3, <3>1
    <3>3. QED
      BY <1>4, <2>1, <3>2
  <2>4. QED
    BY <2>2, <2>3
<1>6. CASE Judge
  <2>1. voters'[v] = Waiting
    BY <1>6 DEF Judge
  <2>2. QED
    BY <2>1 DEF KeysTried, Waiting, Failures
<1>7. CASE Quota
  <2>1. PICK keys \in SUBSET Keys :
        /\ working' = keys /\ current' = current
        /\ voters'[v] = IF v \in Calling THEN [voters[v] EXCEPT !.lasting = @ \intersect keys] ELSE voters[v]
    BY <1>7 DEF Quota
  <2>2. CASE v \in Calling
    <3>1. /\ voters'[v].state = "calling" /\ voters'[v].tried = voters[v].tried
          /\ voters'[v].lasting = voters[v].lasting \intersect keys
          /\ voters'[v].said = voters[v].said
      BY <1>4, <2>1, <2>2 DEF Calling, VoteType
    <3>2. voters[v].state = "calling"
      BY <2>2 DEF Calling
    <3>3. QED
      BY <1>4, <2>1, <3>1, <3>2 DEF KeysTried
  <2>3. CASE v \notin Calling
    BY <1>4, <2>1, <2>3 DEF KeysTried, Calling
  <2>4. QED
    BY <2>2, <2>3
<1>8. CASE UNCHANGED <<voters, current, working>>
  BY <1>4, <1>8
<1>9. QED
  BY <1>5, <1>6, <1>7, <1>8
     DEF Next, Analyzer, Take, TakeUnjudged, PassBy, Collect, judgeVars

\* A provider that gives up over its keys has found none that was accepted all
\* the time, for any number of keys and wherever earlier items have left it.
(* A provider that gives up over its keys has found none that was accepted *)
(* all the time, for any number of keys and any start.                     *)
THEOREM ExhaustedTheorem == Spec => []ExhaustedMeansNoKey
<1>1. Init => TriedInv
  <2> SUFFICES ASSUME Init, NEW v \in Providers PROVE KeysTried(v, voters[v], current[v], working)
    BY DEF TriedInv
  <2>1. voters[v] = Waiting
    BY DEF Init
  <2>2. QED
    BY <2>1 DEF KeysTried, Waiting, Failures
<1>2. TypeOK /\ TriedInv /\ [Next]_judgeVars => TriedInv'
  BY TriedStep
<1>3. TriedInv => ExhaustedMeansNoKey
  BY DEF TriedInv, KeysTried, ExhaustedMeansNoKey
<1>4. QED
  BY <1>1, <1>2, <1>3, JudgeTypeCorrect, PTL DEF Spec

------------------------------------------------------------------------------
(* The status of an event. *)

\* Counting over a sequence that lists 1..n once is counting over 1..n.
LEMMA Recount ==
    ASSUME NEW n \in Nat, NEW rs \in Seq(1..n), Len(rs) = n, IsInjective(rs),
           NEW S \in SUBSET (1..n)
    PROVE  Cardinality({i \in DOMAIN rs : rs[i] \in S}) = Cardinality(S)
<1> DEFINE T == {i \in DOMAIN rs : rs[i] \in S}
<1> DEFINE g == [i \in T |-> rs[i]]
<1>1. rs \in [1..n -> 1..n] /\ DOMAIN rs = 1..n
  OBVIOUS
<1>2. rs \in Injection(1..n, 1..n)
  BY <1>1 DEF Injection
<1>3. IsFiniteSet(1..n)
  BY FS_Interval
<1>4. rs \in Surjection(1..n, 1..n)
  BY <1>2, <1>3, FS_Injection
<1>5. \A s \in S : \E i \in T : rs[i] = s
  BY <1>1, <1>4 DEF Surjection
<1>6. g \in Injection(T, S)
  BY <1>1 DEF Injection, IsInjective
<1>7. g \in Surjection(T, S)
  BY <1>5, <1>6 DEF Injection, Surjection
<1>8. ExistsBijection(T, S)
  BY <1>6, <1>7 DEF ExistsBijection, Bijection
<1>9. IsFiniteSet(T)
  BY <1>1, <1>3, FS_Subset
<1>10. QED
  BY <1>8, <1>9, FS_Bijection

\* Two sets without a common member cannot each hold more than half of another.
LEMMA OneMajority ==
    ASSUME NEW S, IsFiniteSet(S), NEW A \in SUBSET S, NEW B \in SUBSET S, A \intersect B = {}
    PROVE  ~(2 * Cardinality(A) > Cardinality(S) /\ 2 * Cardinality(B) > Cardinality(S))
<1>1. IsFiniteSet(A) /\ IsFiniteSet(B) /\ A \union B \in SUBSET S
  BY FS_Subset
<1>2. Cardinality(A) \in Nat /\ Cardinality(B) \in Nat /\ Cardinality(S) \in Nat
  BY <1>1, FS_CardinalityType
<1>3. Cardinality(A \union B) = Cardinality(A) + Cardinality(B) - Cardinality(A \intersect B)
  BY <1>1, FS_Union
<1>4. Cardinality(A \intersect B) = 0
  BY FS_EmptySet
<1>5. Cardinality(A \union B) <= Cardinality(S)
  BY <1>1, FS_Subset
<1>6. QED
  BY <1>2, <1>3, <1>4, <1>5

\* The features of complete results are counts over the providers.
LEMMA FeaturesCount ==
    ASSUME TypeOK, Collected, AllIn, NEW said, said = [v \in Providers |-> voters[v].said]
    PROVE  LET f == Features(results)
               valid == Providers \ Cast(said, "FAILED")
               major == {d \in Verdicts : 2 * Cardinality(Cast(said, d)) > Cardinality(valid)}
           IN  /\ f.total_voters = Cardinality(Providers)
               /\ f.voters_failed = Cardinality(Cast(said, "FAILED"))
               /\ f.consensus_verdict = IF major = {} THEN None ELSE CHOOSE d \in major : TRUE
<1> DEFINE cast(d) == {i \in DOMAIN results : Verdict(voters[results[i]].said) = d}
<1> DEFINE valid == Providers \ Cast(said, "FAILED")
<1> DEFINE n == Len(panel.providers)
<1>1. /\ n \in Nat /\ Providers = 1..n /\ Cardinality(Providers) = n
      /\ results \in Seq(1..n) /\ Len(results) = n /\ IsInjective(results)
  BY PanelType DEF TypeOK, AllIn, Collected
<1>2. \A i \in DOMAIN results : results[i] \in Providers
  BY <1>1
<1>0. ASSUME NEW S \in SUBSET (1..n), NEW T, T = {i \in DOMAIN results : results[i] \in S}
      PROVE  Cardinality(T) = Cardinality(S)
  BY <1>0, <1>1, Recount
<1>3. ASSUME NEW d PROVE Cardinality(cast(d)) = Cardinality(Cast(said, d))
  <2>1. Cast(said, d) \in SUBSET (1..n)
    BY <1>1 DEF Cast
  <2>2. cast(d) = {i \in DOMAIN results : results[i] \in Cast(said, d)}
    BY <1>2 DEF Cast
  <2>3. QED
    BY <1>0, <2>1, <2>2
<1>4. Cardinality(DOMAIN results \ cast("FAILED")) = Cardinality(valid)
  <2>1. valid \in SUBSET (1..n)
    BY <1>1
  <2>2. DOMAIN results \ cast("FAILED") = {i \in DOMAIN results : results[i] \in valid}
    BY <1>2 DEF Cast
  <2>3. QED
    BY <1>0, <2>1, <2>2
<1> DEFINE count == [d \in Verdicts |-> Cardinality(cast(d))]
<1> DEFINE major == {d \in Verdicts : 2 * Cardinality(Cast(said, d)) > Cardinality(valid)}
<1>5. Majority(count, Cardinality(DOMAIN results \ cast("FAILED")), Cardinality(cast("FAILED"))) = major
  BY <1>3, <1>4 DEF Majority
<1>6. /\ Features(results).total_voters = Len(results)
      /\ Features(results).voters_failed = Cardinality(cast("FAILED"))
      /\ Features(results).consensus_verdict =
            LET m == Majority(count, Cardinality(DOMAIN results \ cast("FAILED")),
                              Cardinality(cast("FAILED")))
            IN  IF m = {} THEN None ELSE CHOOSE d \in m : TRUE
  BY DEF Features
<1>7. QED
  BY <1>1, <1>3, <1>5, <1>6

\* The property of one event.
Truthful(r) ==
    r.features.total_voters > 0 =>
        LET valid == Providers \ Cast(r.said, "FAILED")
            Carried(ds) == \E d \in ds : 2 * Cardinality(Cast(r.said, d)) > Cardinality(valid)
        IN  /\ r.features.total_voters = Cardinality(Providers)
            /\ r.status = "failed" <=> valid = {}
            /\ r.status = "ok" <=> Carried({"CORRECT"})
            /\ r.status = "errors" <=> Carried({"INCORRECT", "UNANSWERABLE"})

LEMMA JudgeTruthful ==
    ASSUME TypeOK, Collected, Judge
    PROVE  Truthful(report')
<1> DEFINE said == [v \in Providers |-> voters[v].said]
<1> DEFINE f == Features(results)
<1> DEFINE valid == Providers \ Cast(said, "FAILED")
<1> DEFINE major == {d \in Verdicts : 2 * Cardinality(Cast(said, d)) > Cardinality(valid)}
<1> DEFINE failed == Cast(said, "FAILED")
<1>1. report'.features = f /\ report'.status = Status(f) /\ report'.said = said
  BY DEF Judge, Report
<1>2. /\ f.total_voters = Cardinality(Providers)
      /\ f.voters_failed = Cardinality(failed)
      /\ f.consensus_verdict = IF major = {} THEN None ELSE CHOOSE d \in major : TRUE
  BY FeaturesCount DEF Judge
<1>3. IsFiniteSet(Providers) /\ IsFiniteSet(valid) /\ failed \in SUBSET Providers
  BY PanelType, FS_Subset DEF TypeOK, Cast
<1>4. ASSUME NEW d \in Verdicts PROVE Cast(said, d) \in SUBSET valid
  BY <1>4 DEF Cast, Verdicts
<1>5. f.voters_failed = f.total_voters <=> valid = {}
  <2>1. Cardinality(Providers) = Cardinality(failed) => Providers = failed
    BY <1>3, FS_Subset
  <2>2. valid = {} <=> Providers = failed
    BY <1>3
  <2>3. QED
    BY <1>2, <2>1, <2>2
<1>6. valid = {} => major = {}
  <2>1. ASSUME valid = {}, NEW d \in Verdicts PROVE d \notin major
    <3>1. Cast(said, d) = {}
      BY <1>4, <2>1
    <3>2. Cardinality(Cast(said, d)) = 0 /\ Cardinality(valid) = 0
      BY <2>1, <3>1, FS_EmptySet
    <3>3. QED
      BY <3>2
  <2>2. QED
    BY <2>1
<1>7. ASSUME NEW d \in major, NEW e \in major PROVE d = e
  <2>1. Cast(said, d) \intersect Cast(said, e) # {}
    BY <1>3, <1>4, OneMajority
  <2>2. QED
    BY <2>1 DEF Cast
<1>8. f.consensus_verdict = None <=> major = {}
  BY <1>2 DEF Verdicts, Answer
<1>9. ASSUME NEW d \in Verdicts PROVE f.consensus_verdict = d <=> d \in major
  BY <1>2, <1>7 DEF Verdicts, Answer
<1> HIDE DEF said, f, valid, major, failed
<1>10. /\ Status(f) = "failed" <=> valid = {}
       /\ Status(f) = "ok" <=> "CORRECT" \in major
       /\ Status(f) = "errors" <=> "INCORRECT" \in major \/ "UNANSWERABLE" \in major
  BY <1>5, <1>6, <1>9 DEF Status, Verdicts
<1>11. \A d \in Verdicts : d \in major <=> 2 * Cardinality(Cast(said, d)) > Cardinality(valid)
  BY DEF major
<1>12. QED
  BY <1>1, <1>2, <1>10, <1>11 DEF Truthful, Verdicts, valid

\* The event of an item put to the vote counts every provider, and its status is
\* what more than half of the valid votes say, for any panel, however the
\* results come in.
(* An event counts every provider and its status is the majority of the    *)
(* valid votes, for any panel and order of results.                        *)
THEOREM MajorityTheorem == Spec => []StatusIsTheMajoritys
<1> DEFINE Inv == Collected /\ (report # None => Truthful(report))
<1>1. Init => Inv
  BY DEF Init, Collected, IsInjective
<1>2. ASSUME TypeOK, Inv, [Next]_judgeVars PROVE Inv'
  <2>1. Collected' /\ panel' = panel /\ Providers' = Providers
    BY <1>2, CollectedStep, FrameStep DEF Providers
  <2>2. CASE Judge
    <3>1. Truthful(report')
      BY <1>2, <2>2, JudgeTruthful
    <3>2. QED
      BY <2>1, <3>1 DEF Truthful, Cast
  <2>3. CASE TakeUnjudged
    <3>1. report'.features.total_voters = 0
      BY <2>3 DEF TakeUnjudged, Report, NoFeatures
    <3>2. QED
      BY <2>1, <3>1 DEF Truthful
  <2>4. CASE report' = None
    BY <2>1, <2>4
  <2>5. CASE report' = report
    BY <1>2, <2>1, <2>5 DEF Truthful, Cast
  <2>6. report' = report \/ report' = None \/ Judge \/ TakeUnjudged
    BY <1>2 DEF Next, Analyzer, Take, PassBy, Collect, Vote, Call, NoClient, Broken, KeyRefused,
                AskManually, Answered, Voting, Requests, Quota, judgeVars
  <2>7. QED
    BY <2>2, <2>3, <2>4, <2>5, <2>6
<1>3. Inv => StatusIsTheMajoritys
  BY DEF StatusIsTheMajoritys, Truthful
<1>4. QED
  BY <1>1, <1>2, <1>3, JudgeTypeCorrect, PTL DEF Spec
================================================================================
