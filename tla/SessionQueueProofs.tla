------------------------- MODULE SessionQueueProofs -------------------------
(* Proofs about SessionQueue, for any set of rows and any limits.           *)
EXTENDS SessionQueue, FiniteSetTheorems, TLAPS

----------------------------------------------------------------------------
(* Facts about the operators.                                               *)

\* The number of rows already inserted is a natural number, so the next rank
\* is one too.
LEMMA RankIsNat ==
    Cardinality({n \in Msg : status[n] # "none"}) + 1 \in Nat
<1>1. IsFiniteSet({n \in Msg : status[n] # "none"})
  BY FS_Subset, RowKinds
<1> QED
  BY <1>1, FS_CardinalityType

\* A poll returns due rows that no runner has claimed or acknowledged.
LEMMA PendingIsUnclaimed ==
    ASSUME NEW isFirst \in BOOLEAN
    PROVE  /\ getPendingMessages(isFirst) \subseteq Msg
           /\ \A m \in getPendingMessages(isFirst) :
                 ack[m] = "none" /\ status[m] = "pending" /\ m \notin deferred
BY DEF getPendingMessages, Newest, Due

----------------------------------------------------------------------------
(* Type correctness.                                                        *)

LEMMA TypeInit == Init => TypeOK
<1> SUFFICES ASSUME Init PROVE TypeOK
  OBVIOUS
<1>1. tries \in [Msg -> 0..MAX_TRIES] /\ runs \in [Msg -> Nat] /\ crashes \in 0..MaxCrashes
  BY Limits DEF Init
<1> QED
  BY <1>1 DEF Init, TypeOK, TypeRows, TypeHost, TypeRunner

LEMMA HostKeepsType == TypeOK /\ Host => TypeOK'
<1> SUFFICES ASSUME TypeOK, Host PROVE TypeOK'
  OBVIOUS
<1> USE DEF TypeOK, TypeRows, TypeHost, TypeRunner, inVars, claimVars, hostVars, loopVars, histVars
<1>1. ASSUME NEW m \in Msg, NEW later \in BOOLEAN, WriteMessage(m, later) PROVE TypeOK'
  <2>1. TypeRows'
    BY <1>1, RankIsNat DEF WriteMessage, InsertRow, wakeContainer
  <2>2. TypeHost'
    BY <1>1, RankIsNat DEF WriteMessage, InsertRow, wakeContainer
  <2>3. TypeRunner'
    BY <1>1, RankIsNat DEF WriteMessage, InsertRow, wakeContainer
  <2> QED
    BY <2>1, <2>2, <2>3
<1>2. ASSUME NEW m \in Msg, WriteAnswer(m) PROVE TypeOK'
  <2>1. TypeRows'
    BY <1>2, RankIsNat DEF WriteAnswer, InsertRow, wakeContainer
  <2>2. TypeHost'
    BY <1>2, RankIsNat DEF WriteAnswer, InsertRow, wakeContainer
  <2>3. TypeRunner'
    BY <1>2, RankIsNat DEF WriteAnswer, InsertRow, wakeContainer
  <2> QED
    BY <2>1, <2>2, <2>3
<1>3. ASSUME NEW m \in Msg, RestartGroup(m) PROVE TypeOK'
  <2>1. TypeRows'
    BY <1>3, RankIsNat DEF RestartGroup, InsertRow
  <2>2. TypeHost'
    BY <1>3, RankIsNat DEF RestartGroup, InsertRow
  <2>3. TypeRunner'
    BY <1>3, RankIsNat DEF RestartGroup, InsertRow
  <2> QED
    BY <2>1, <2>2, <2>3
<1>4. CASE SpawnContainer
  <2>1. TypeRows'
    BY <1>4 DEF SpawnContainer
  <2>2. TypeHost'
    BY <1>4 DEF SpawnContainer
  <2>3. TypeRunner'
    BY <1>4 DEF SpawnContainer
  <2> QED
    BY <2>1, <2>2, <2>3
<1>5. CASE SpawnFails
  <2>1. TypeRows'
    BY <1>5 DEF SpawnFails
  <2>2. TypeHost'
    BY <1>5 DEF SpawnFails
  <2>3. TypeRunner'
    BY <1>5 DEF SpawnFails
  <2> QED
    BY <2>1, <2>2, <2>3
<1>6. CASE ContainerCloses
  <2>1. TypeRows'
    BY <1>6 DEF ContainerCloses
  <2>2. TypeHost'
    BY <1>6 DEF ContainerCloses
  <2>3. TypeRunner'
    BY <1>6 DEF ContainerCloses
  <2> QED
    BY <2>1, <2>2, <2>3
<1>7. CASE KillGroup
  <2>1. TypeRows'
    BY <1>7, Limits DEF KillGroup
  <2>2. TypeHost'
    BY <1>7, Limits DEF KillGroup
  <2>3. TypeRunner'
    BY <1>7, Limits DEF KillGroup
  <2> QED
    BY <2>1, <2>2, <2>3
<1>8. CASE KillReturns
  <2>1. TypeRows'
    BY <1>8 DEF KillReturns, stopContainer, RunnerGone
  <2>2. TypeHost'
    BY <1>8 DEF KillReturns, stopContainer, RunnerGone
  <2>3. TypeRunner'
    BY <1>8 DEF KillReturns, stopContainer, RunnerGone
  <2> QED
    BY <2>1, <2>2, <2>3
<1>9. CASE SweepSync
  <2>1. TypeRows'
    BY <1>9 DEF SweepSync, syncProcessingAcks
  <2>2. TypeHost'
    BY <1>9 DEF SweepSync, syncProcessingAcks
  <2>3. TypeRunner'
    BY <1>9 DEF SweepSync, syncProcessingAcks
  <2> QED
    BY <2>1, <2>2, <2>3
<1>10. CASE SweepKills \/ SweepFindsAlive \/ SweepFindsDead
  <2>1. TypeRows'
    BY <1>10 DEF SweepKills, SweepFindsAlive, SweepFindsDead
  <2>2. TypeHost'
    BY <1>10 DEF SweepKills, SweepFindsAlive, SweepFindsDead
  <2>3. TypeRunner'
    BY <1>10 DEF SweepKills, SweepFindsAlive, SweepFindsDead
  <2> QED
    BY <2>1, <2>2, <2>3
<1>11. CASE SweepStops
  <2>1. TypeRows'
    BY <1>11 DEF SweepStops, stopContainer, RunnerGone
  <2>2. TypeHost'
    BY <1>11 DEF SweepStops, stopContainer, RunnerGone
  <2>3. TypeRunner'
    BY <1>11 DEF SweepStops, stopContainer, RunnerGone
  <2> QED
    BY <2>1, <2>2, <2>3
<1>12. ASSUME NEW deleted \in BOOLEAN, resetStuckProcessingRows(deleted) PROVE TypeOK'
  <2>1. Lost \subseteq Msg /\ \A m \in Lost \ Exhausted : tries[m] + 1 \in 0..MAX_TRIES
    BY Limits DEF Lost, Exhausted, Claims
  <2>2. tries' \in [Msg -> 0..MAX_TRIES] /\ deferred' \subseteq Msg
    BY <1>12, <2>1 DEF resetStuckProcessingRows
  <2> QED
    BY <1>12, <2>2 DEF resetStuckProcessingRows, Acked, Claims
<1>13. CASE HostCrashes
  <2>1. crashes' \in 0..MaxCrashes
    BY <1>13, Limits DEF HostCrashes
  <2>2. TypeRows' /\ TypeRunner'
    BY <1>13 DEF HostCrashes
  <2>3. TypeHost'
    BY <1>13, <2>1 DEF HostCrashes
  <2> QED
    BY <2>2, <2>3
<1>14. CASE HostStarts
  <2>1. TypeRows'
    BY <1>14 DEF HostStarts, cleanupOrphans, RunnerGone
  <2>2. TypeHost'
    BY <1>14 DEF HostStarts, cleanupOrphans, RunnerGone
  <2>3. TypeRunner'
    BY <1>14 DEF HostStarts, cleanupOrphans, RunnerGone
  <2> QED
    BY <2>1, <2>2, <2>3
<1> QED
  BY <1>1, <1>2, <1>3, <1>4, <1>5, <1>6, <1>7, <1>8, <1>9, <1>10, <1>11, <1>12, <1>13, <1>14
     DEF Host, Sweep

LEMMA RunnerKeepsType ==
    TypeOK /\ (Time \/ Loop \/ FollowUp \/ Tool \/ RunnerCrashes) => TypeOK'
<1> SUFFICES ASSUME TypeOK, Time \/ Loop \/ FollowUp \/ Tool \/ RunnerCrashes
             PROVE  TypeOK'
  OBVIOUS
<1> USE DEF TypeOK, TypeRows, TypeHost, TypeRunner, inVars, claimVars, hostVars, loopVars, histVars,
            Claims, Acked, markProcessing, markCompleted, touchHeartbeat, ScriptsTouch
<1>1. CASE Time
  <2>1. TypeRows'
    BY <1>1 DEF Time, DelayElapses, ClaimAges, HeartbeatAges
  <2>2. TypeHost'
    BY <1>1 DEF Time, DelayElapses, ClaimAges, HeartbeatAges
  <2>3. TypeRunner'
    BY <1>1 DEF Time, DelayElapses, ClaimAges, HeartbeatAges
  <2> QED
    BY <2>1, <2>2, <2>3
<1>2. CASE RunnerCrashes
  <2>1. TypeRows'
    BY <1>2, Limits DEF RunnerCrashes, RunnerGone
  <2>2. TypeHost'
    BY <1>2, Limits DEF RunnerCrashes, RunnerGone
  <2>3. TypeRunner'
    BY <1>2, Limits DEF RunnerCrashes, RunnerGone
  <2> QED
    BY <2>1, <2>2, <2>3
<1>3. CASE clearStaleProcessingAcks
  <2>1. TypeRows'
    BY <1>3 DEF clearStaleProcessingAcks
  <2>2. TypeHost'
    BY <1>3 DEF clearStaleProcessingAcks
  <2>3. TypeRunner'
    BY <1>3 DEF clearStaleProcessingAcks
  <2> QED
    BY <2>1, <2>2, <2>3
<1>4. CASE Poll
  <2>1. TypeRows'
    BY <1>4, PendingIsUnclaimed DEF Poll
  <2>2. TypeHost'
    BY <1>4, PendingIsUnclaimed DEF Poll
  <2>3. TypeRunner'
    BY <1>4, PendingIsUnclaimed DEF Poll
  <2> QED
    BY <2>1, <2>2, <2>3
<1>5. CASE HandleCommands
  <2>1. TypeRows'
    BY <1>5 DEF HandleCommands, commandIds
  <2>2. TypeHost'
    BY <1>5 DEF HandleCommands, commandIds
  <2>3. TypeRunner'
    BY <1>5 DEF HandleCommands, commandIds
  <2> QED
    BY <2>1, <2>2, <2>3
<1>6. ASSUME NEW S \in SUBSET Msg, StartQuery(S) PROVE TypeOK'
  <2>1. TypeRows'
    BY <1>6 DEF StartQuery, HandOut
  <2>2. TypeHost'
    BY <1>6 DEF StartQuery, HandOut
  <2>3. TypeRunner'
    BY <1>6 DEF StartQuery, HandOut
  <2> QED
    BY <2>1, <2>2, <2>3
<1>7. CASE ProviderEvent \/ ProviderHangs
  <2>1. TypeRows'
    BY <1>7 DEF ProviderEvent, ProviderHangs
  <2>2. TypeHost'
    BY <1>7 DEF ProviderEvent, ProviderHangs
  <2>3. TypeRunner'
    BY <1>7 DEF ProviderEvent, ProviderHangs
  <2> QED
    BY <2>1, <2>2, <2>3
<1>8. CASE ProviderResult
  <2>1. TypeRows'
    BY <1>8 DEF ProviderResult
  <2>2. TypeHost'
    BY <1>8 DEF ProviderResult
  <2>3. TypeRunner'
    BY <1>8 DEF ProviderResult
  <2> QED
    BY <2>1, <2>2, <2>3
<1>9. CASE QueryEnds \/ QueryErrors
  <2>1. TypeRows'
    BY <1>9 DEF QueryEnds, QueryErrors, LeaveQuery
  <2>2. TypeHost'
    BY <1>9 DEF QueryEnds, QueryErrors, LeaveQuery
  <2>3. TypeRunner'
    BY <1>9 DEF QueryEnds, QueryErrors, LeaveQuery
  <2> QED
    BY <2>1, <2>2, <2>3
<1>10. CASE FollowUpSeesCommand
  <2>1. TypeRows'
    BY <1>10 DEF FollowUpSeesCommand
  <2>2. TypeHost'
    BY <1>10 DEF FollowUpSeesCommand
  <2>3. TypeRunner'
    BY <1>10 DEF FollowUpSeesCommand
  <2> QED
    BY <2>1, <2>2, <2>3
<1>11. CASE FollowUpClaims
  <2>1. TypeRows'
    BY <1>11, PendingIsUnclaimed DEF FollowUpClaims
  <2>2. TypeHost'
    BY <1>11, PendingIsUnclaimed DEF FollowUpClaims
  <2>3. TypeRunner'
    BY <1>11, PendingIsUnclaimed DEF FollowUpClaims
  <2> QED
    BY <2>1, <2>2, <2>3
<1>12. ASSUME NEW S \in SUBSET Msg, FollowUpPushes(S) PROVE TypeOK'
  <2>1. TypeRows'
    BY <1>12 DEF FollowUpPushes, HandOut
  <2>2. TypeHost'
    BY <1>12 DEF FollowUpPushes, HandOut
  <2>3. TypeRunner'
    BY <1>12 DEF FollowUpPushes, HandOut
  <2> QED
    BY <2>1, <2>2, <2>3
<1>13. ASSUME NEW S \in SUBSET Msg, FollowUpFails(S) PROVE TypeOK'
  <2>1. TypeRows'
    BY <1>13 DEF FollowUpFails, ReleaseSkipped
  <2>2. TypeHost'
    BY <1>13 DEF FollowUpFails, ReleaseSkipped
  <2>3. TypeRunner'
    BY <1>13 DEF FollowUpFails, ReleaseSkipped
  <2> QED
    BY <2>1, <2>2, <2>3
<1>14. ASSUME NEW B \in strays, NEW S \in SUBSET Msg, StrayReturns(B, S) PROVE TypeOK'
  <2>1. TypeRows'
    BY <1>14 DEF StrayReturns, ReleaseSkipped
  <2>2. TypeHost'
    BY <1>14 DEF StrayReturns, ReleaseSkipped
  <2>3. TypeRunner'
    BY <1>14 DEF StrayReturns, ReleaseSkipped
  <2> QED
    BY <2>1, <2>2, <2>3
<1>15. CASE Tool
  <2>1. TypeRows'
    BY <1>15 DEF Tool, Ask, AnswerArrives, QuestionTimesOut
  <2>2. TypeHost'
    BY <1>15 DEF Tool, Ask, AnswerArrives, QuestionTimesOut
  <2>3. TypeRunner'
    BY <1>15 DEF Tool, Ask, AnswerArrives, QuestionTimesOut
  <2> QED
    BY <2>1, <2>2, <2>3
<1> QED
  BY <1>1, <1>2, <1>3, <1>4, <1>5, <1>6, <1>7, <1>8, <1>9, <1>10, <1>11, <1>12, <1>13,
     <1>14, <1>15 DEF Loop, FollowUp

LEMMA TypeStep == TypeOK /\ [Next]_vars => TypeOK'
<1>1. ASSUME TypeOK, UNCHANGED vars PROVE TypeOK'
  BY <1>1 DEF TypeOK, TypeRows, TypeHost, TypeRunner, vars, inVars, claimVars, hostVars, loopVars, histVars
<1> QED
  BY <1>1, HostKeepsType, RunnerKeepsType DEF Next

\* In every reachable state each variable has its type; no row is charged more
\* often than MAX_TRIES (resetStuckProcessingRows).
THEOREM Typing == Spec => []TypeOK
BY TypeInit, TypeStep, PTL DEF Spec

----------------------------------------------------------------------------
(* Safety.                                                                  *)

LEMMA SafeInit == Init => IInv
<1> SUFFICES ASSUME Init PROVE IInv
  OBVIOUS
<1>1. TypeOK
  BY TypeInit
<1> QED
  BY <1>1 DEF Init, IInv, HostKnowsRunner, HostWritesAlone, DeadHoldsNothing,
              QueryHoldsHandled, CompletedWasHandled, HeldIsLive, FailedIsExhausted,
              GivenIsClaimed, ClaimedIsNew

\* The parts that speak of where the two processes stand.
LEMMA PlacesStep ==
    ASSUME IInv, [Next]_vars
    PROVE  HostKnowsRunner' /\ HostWritesAlone' /\ DeadHoldsNothing'
<1> USE DEF IInv, HostKnowsRunner, HostWritesAlone, DeadHoldsNothing,
            inVars, claimVars, hostVars, loopVars, histVars
<1>1. CASE Host
  <2>1. ASSUME NEW m \in Msg, NEW later \in BOOLEAN,
               WriteMessage(m, later) \/ WriteAnswer(m) \/ RestartGroup(m)
        PROVE  HostKnowsRunner' /\ HostWritesAlone' /\ DeadHoldsNothing'
    <3>1. UNCHANGED <<up, active, sweep, rp, batch, fbatch, strays>>
      BY <2>1 DEF WriteMessage, WriteAnswer, RestartGroup
    <3> QED
      BY <3>1
  <2>2. CASE SpawnContainer \/ SpawnFails \/ ContainerCloses
    BY <2>2 DEF SpawnContainer, SpawnFails, ContainerCloses, Closed, Free, Busy
  <2>3. CASE KillGroup \/ KillReturns
    BY <2>3 DEF KillGroup, KillReturns, stopContainer, RunnerGone
  <2>4. CASE SweepSync
    BY <2>4 DEF SweepSync
  <2>5. CASE SweepKills \/ SweepFindsAlive \/ SweepFindsDead
    BY <2>5 DEF SweepKills, SweepFindsAlive, SweepFindsDead
  <2>6. CASE SweepStops
    BY <2>6 DEF SweepStops, stopContainer, RunnerGone
  <2>7. ASSUME NEW deleted \in BOOLEAN, resetStuckProcessingRows(deleted)
        PROVE  HostKnowsRunner' /\ HostWritesAlone' /\ DeadHoldsNothing'
    BY <2>7 DEF resetStuckProcessingRows
  <2>8. CASE HostCrashes \/ HostStarts
    BY <2>8 DEF HostCrashes, HostStarts, cleanupOrphans, RunnerGone
  <2> QED
    BY <1>1, <2>1, <2>2, <2>3, <2>4, <2>5, <2>6, <2>7, <2>8 DEF Host, Sweep
<1>2. CASE Time
  BY <1>2 DEF Time, DelayElapses, ClaimAges, HeartbeatAges
<1>3. CASE Loop
  <2>1. CASE clearStaleProcessingAcks \/ Poll \/ HandleCommands
    BY <2>1 DEF clearStaleProcessingAcks, Poll, HandleCommands
  <2>2. ASSUME NEW S \in SUBSET Msg, StartQuery(S)
        PROVE  HostKnowsRunner' /\ HostWritesAlone' /\ DeadHoldsNothing'
    BY <2>2 DEF StartQuery
  <2>3. CASE ProviderEvent \/ ProviderHangs \/ ProviderResult
    BY <2>3 DEF ProviderEvent, ProviderHangs, ProviderResult, Working
  <2>4. CASE QueryEnds \/ QueryErrors
    BY <2>4 DEF QueryEnds, QueryErrors, LeaveQuery
  <2> QED
    BY <1>3, <2>1, <2>2, <2>3, <2>4 DEF Loop
<1>4. CASE FollowUp
  <2>1. CASE FollowUpSeesCommand \/ FollowUpClaims
    <3>1. UNCHANGED <<up, active, sweep, rp>> /\ rp = "query"
      BY <2>1 DEF FollowUpSeesCommand, FollowUpClaims
    <3> QED
      BY <3>1
  <2>2. ASSUME NEW S \in SUBSET Msg, FollowUpPushes(S) \/ FollowUpFails(S)
        PROVE  HostKnowsRunner' /\ HostWritesAlone' /\ DeadHoldsNothing'
    BY <2>2 DEF FollowUpPushes, FollowUpFails
  <2>3. ASSUME NEW B \in strays, NEW S \in SUBSET Msg, StrayReturns(B, S)
        PROVE  HostKnowsRunner' /\ HostWritesAlone' /\ DeadHoldsNothing'
    BY <2>3 DEF StrayReturns
  <2> QED
    BY <1>4, <2>1, <2>2, <2>3 DEF FollowUp
<1>5. CASE Tool
  BY <1>5 DEF Tool, Ask, AnswerArrives, QuestionTimesOut
<1>6. CASE RunnerCrashes
  BY <1>6 DEF RunnerCrashes, RunnerGone
<1>7. CASE UNCHANGED vars
  BY <1>7 DEF vars
<1> QED
  BY <1>1, <1>2, <1>3, <1>4, <1>5, <1>6, <1>7 DEF Next

\* Most actions touch none of what the remaining parts speak of; the others
\* insert a row, end the runner, or are one of a dozen actions.
rowVars == <<status, tries, ack, handled, runs, given, unpaid>>
heldVars == <<rp, batch, fbatch, strays>>

Quiet == UNCHANGED <<rowVars, heldVars>>

Inserts ==
    /\ \E m \in Msg : status[m] = "none" /\ status' = [status EXCEPT ![m] = "pending"]
    /\ UNCHANGED <<tries, ack, handled, runs, given, unpaid, heldVars>>

Ends == RunnerGone /\ UNCHANGED rowVars

Moves ==
    \/ SpawnContainer \/ SweepSync \/ \E deleted \in BOOLEAN : resetStuckProcessingRows(deleted)
    \/ clearStaleProcessingAcks \/ Poll \/ HandleCommands
    \/ \E S \in SUBSET Msg : StartQuery(S)
    \/ ProviderResult \/ LeaveQuery \/ FollowUpClaims
    \/ \E S \in SUBSET Msg : FollowUpPushes(S) \/ FollowUpFails(S)
    \/ \E B \in strays : \E S \in SUBSET Msg : StrayReturns(B, S)
    \/ \E m \in Msg : AnswerArrives(m)

LEMMA StepKinds == [Next]_vars => Quiet \/ Inserts \/ Ends \/ Moves
<1> SUFFICES ASSUME [Next]_vars PROVE Quiet \/ Inserts \/ Ends \/ Moves
  OBVIOUS
<1> USE DEF rowVars, heldVars, inVars, claimVars, hostVars, loopVars, histVars
<1>1. ASSUME NEW m \in Msg, NEW later \in BOOLEAN,
             WriteMessage(m, later) \/ WriteAnswer(m) \/ RestartGroup(m)
      PROVE  Inserts
  <2>1. InsertRow(m, later) \/ InsertRow(m, FALSE)
    BY <1>1 DEF WriteMessage, WriteAnswer, RestartGroup
  <2>2. UNCHANGED <<ack, handled, runs, given, unpaid, heldVars>>
    BY <1>1 DEF WriteMessage, WriteAnswer, RestartGroup
  <2> QED
    BY <2>1, <2>2 DEF InsertRow, Inserts
<1>2. CASE SpawnFails \/ ContainerCloses \/ KillGroup \/ HostCrashes
  BY <1>2 DEF SpawnFails, ContainerCloses, KillGroup, HostCrashes, Quiet
<1>3. CASE KillReturns \/ SweepStops \/ HostStarts \/ RunnerCrashes
  BY <1>3 DEF KillReturns, SweepStops, HostStarts, RunnerCrashes, stopContainer,
              cleanupOrphans, Ends
<1>4. CASE SweepKills \/ SweepFindsAlive \/ SweepFindsDead
  BY <1>4 DEF SweepKills, SweepFindsAlive, SweepFindsDead, Quiet
<1>5. CASE Time
  BY <1>5 DEF Time, DelayElapses, ClaimAges, HeartbeatAges, Quiet
<1>6. CASE ProviderEvent \/ ProviderHangs \/ FollowUpSeesCommand
  BY <1>6 DEF ProviderEvent, ProviderHangs, FollowUpSeesCommand, Quiet
<1>7. ASSUME NEW m \in Msg, Ask(m) \/ QuestionTimesOut(m) PROVE Quiet
  BY <1>7 DEF Ask, QuestionTimesOut, Quiet
<1>8. CASE UNCHANGED vars
  BY <1>8 DEF vars, Quiet
<1>9. Moves \/ ~(\/ SpawnContainer \/ SweepSync \/ Loop \/ FollowUp \/ Tool
               \/ \E deleted \in BOOLEAN : resetStuckProcessingRows(deleted))
      \/ ProviderEvent \/ ProviderHangs \/ FollowUpSeesCommand
      \/ \E m \in Msg : Ask(m) \/ QuestionTimesOut(m)
  BY DEF Moves, Loop, FollowUp, Tool, QueryEnds, QueryErrors
<1> QED
  BY <1>1, <1>2, <1>3, <1>4, <1>5, <1>6, <1>7, <1>8, <1>9 DEF Next, Host, Sweep

\* An acknowledgement is only ever added for rows that were dealt with.
LEMMA CompletionStep ==
    ASSUME IInv, [Next]_vars
    PROVE  QueryHoldsHandled' /\ CompletedWasHandled'
<1> USE DEF IInv, TypeOK, TypeRows, TypeRunner, QueryHoldsHandled, CompletedWasHandled
<1>1. CASE Quiet
  BY <1>1 DEF Quiet, rowVars, heldVars
<1>2. CASE Inserts
  BY <1>2 DEF Inserts, heldVars
<1>3. CASE Ends
  BY <1>3 DEF Ends, RunnerGone, rowVars
<1>4. CASE SpawnContainer
  BY <1>4 DEF SpawnContainer, inVars, Free, Busy
<1>5. CASE SweepSync
  BY <1>5 DEF SweepSync, syncProcessingAcks, loopVars, histVars, claimVars
<1>6. ASSUME NEW deleted \in BOOLEAN, resetStuckProcessingRows(deleted) PROVE QueryHoldsHandled' /\ CompletedWasHandled'
  BY <1>6 DEF resetStuckProcessingRows, Lost, Exhausted, Acked, Claims, loopVars, histVars, claimVars
<1>7. CASE clearStaleProcessingAcks
  BY <1>7 DEF clearStaleProcessingAcks, Acked, Claims, inVars, histVars
<1>8. CASE Poll
  BY <1>8, PendingIsUnclaimed DEF Poll, markProcessing, Acked, inVars, claimVars, histVars
<1>9. CASE HandleCommands
  BY <1>9 DEF HandleCommands, commandIds, markCompleted, Acked, inVars
<1>10. ASSUME NEW S \in SUBSET Msg, StartQuery(S) PROVE QueryHoldsHandled' /\ CompletedWasHandled'
  BY <1>10 DEF StartQuery, markCompleted, HandOut, Acked, inVars
<1>11. CASE ProviderResult
  BY <1>11 DEF ProviderResult, Working, markCompleted, Acked, inVars, loopVars
<1>12. CASE LeaveQuery
  BY <1>12 DEF LeaveQuery, markCompleted, Acked, inVars
<1>13. CASE FollowUpClaims
  BY <1>13, PendingIsUnclaimed DEF FollowUpClaims, markProcessing, Acked, inVars, histVars
<1>14. ASSUME NEW S \in SUBSET Msg, FollowUpPushes(S) PROVE QueryHoldsHandled' /\ CompletedWasHandled'
  BY <1>14 DEF FollowUpPushes, markCompleted, HandOut, Acked, inVars
<1>15. ASSUME NEW S \in SUBSET Msg, FollowUpFails(S) PROVE QueryHoldsHandled' /\ CompletedWasHandled'
  BY <1>15 DEF FollowUpFails, ReleaseSkipped, markCompleted, Acked, inVars
<1>16. ASSUME NEW B \in strays, NEW S \in SUBSET Msg, StrayReturns(B, S) PROVE QueryHoldsHandled' /\ CompletedWasHandled'
  BY <1>16 DEF StrayReturns, ReleaseSkipped, markCompleted, Acked, inVars
<1>17. ASSUME NEW m \in Msg, AnswerArrives(m) PROVE QueryHoldsHandled' /\ CompletedWasHandled'
  BY <1>17 DEF AnswerArrives, markCompleted, Acked, inVars
<1> QED
  BY StepKinds, <1>1, <1>2, <1>3, <1>4, <1>5, <1>6, <1>7, <1>8, <1>9, <1>10, <1>11, <1>12,
     <1>13, <1>14, <1>15, <1>16, <1>17 DEF Moves

\* A row is failed with its runner gone, and only when its tries are used up.
LEMMA FailureStep ==
    ASSUME IInv, [Next]_vars
    PROVE  HeldIsLive' /\ FailedIsExhausted'
<1> USE DEF IInv, TypeOK, TypeRows, TypeRunner, HostWritesAlone, DeadHoldsNothing,
            HeldIsLive, FailedIsExhausted
<1>1. CASE Quiet
  BY <1>1 DEF Quiet, rowVars, heldVars
<1>2. CASE Inserts
  BY <1>2 DEF Inserts, heldVars
<1>3. CASE Ends
  BY <1>3 DEF Ends, RunnerGone, rowVars
<1>4. CASE SpawnContainer
  BY <1>4 DEF SpawnContainer, inVars, Free, Busy
<1>5. CASE SweepSync
  BY <1>5 DEF SweepSync, syncProcessingAcks, loopVars, histVars, claimVars
<1>6. ASSUME NEW deleted \in BOOLEAN, resetStuckProcessingRows(deleted) PROVE HeldIsLive' /\ FailedIsExhausted'
  <2>1. HeldIsLive'
    BY <1>6 DEF resetStuckProcessingRows, loopVars
  <2>2. ASSUME NEW m \in Msg, status'[m] = "failed"
        PROVE  tries'[m] = MAX_TRIES /\ ack'[m] # "completed"
    <3>1. ack'[m] = "completed" => ack[m] = "completed"
      BY <1>6 DEF resetStuckProcessingRows, Acked, claimVars
    <3>2. CASE m \in Exhausted
      <4>1. tries[m] = MAX_TRIES /\ ack[m] = "processing"
        BY <3>2, Limits DEF Exhausted, Lost, Claims
      <4>2. tries'[m] = tries[m]
        BY <1>6, <3>2 DEF resetStuckProcessingRows
      <4> QED
        BY <3>1, <4>1, <4>2
    <3>3. CASE m \notin Exhausted
      <4>1. status[m] = "failed"
        BY <1>6, <2>2, <3>3 DEF resetStuckProcessingRows
      <4>2. tries'[m] = tries[m]
        BY <1>6, <4>1 DEF resetStuckProcessingRows, Lost
      <4> QED
        BY <3>1, <4>1, <4>2
    <3> QED
      BY <3>2, <3>3
  <2> QED
    BY <2>1, <2>2
<1>7. CASE clearStaleProcessingAcks
  BY <1>7 DEF clearStaleProcessingAcks, Acked, Claims, inVars, histVars
<1>8. CASE Poll
  BY <1>8, PendingIsUnclaimed DEF Poll, markProcessing, Acked, inVars, claimVars, histVars
<1>9. CASE HandleCommands
  BY <1>9 DEF HandleCommands, commandIds, markCompleted, Acked, inVars
<1>10. ASSUME NEW S \in SUBSET Msg, StartQuery(S) PROVE HeldIsLive' /\ FailedIsExhausted'
  BY <1>10 DEF StartQuery, markCompleted, HandOut, Acked, inVars
<1>11. CASE ProviderResult
  BY <1>11 DEF ProviderResult, Working, markCompleted, Acked, inVars, loopVars
<1>12. CASE LeaveQuery
  BY <1>12 DEF LeaveQuery, markCompleted, Acked, inVars
<1>13. CASE FollowUpClaims
  BY <1>13, PendingIsUnclaimed DEF FollowUpClaims, markProcessing, Acked, inVars, histVars
<1>14. ASSUME NEW S \in SUBSET Msg, FollowUpPushes(S) PROVE HeldIsLive' /\ FailedIsExhausted'
  BY <1>14 DEF FollowUpPushes, markCompleted, HandOut, Acked, inVars
<1>15. ASSUME NEW S \in SUBSET Msg, FollowUpFails(S) PROVE HeldIsLive' /\ FailedIsExhausted'
  BY <1>15 DEF FollowUpFails, ReleaseSkipped, markCompleted, Acked, inVars
<1>16. ASSUME NEW B \in strays, NEW S \in SUBSET Msg, StrayReturns(B, S) PROVE HeldIsLive' /\ FailedIsExhausted'
  BY <1>16 DEF StrayReturns, ReleaseSkipped, markCompleted, Acked, inVars
<1>17. ASSUME NEW m \in Msg, AnswerArrives(m) PROVE HeldIsLive' /\ FailedIsExhausted'
  BY <1>17 DEF AnswerArrives, markCompleted, Acked, inVars
<1> QED
  BY StepKinds, <1>1, <1>2, <1>3, <1>4, <1>5, <1>6, <1>7, <1>8, <1>9, <1>10, <1>11, <1>12,
     <1>13, <1>14, <1>15, <1>16, <1>17 DEF Moves

\* A row in a prompt keeps its claim or acknowledgement while the runner lives.
LEMMA GivenStep ==
    ASSUME IInv, [Next]_vars
    PROVE  GivenIsClaimed' /\ ClaimedIsNew'
<1> USE DEF IInv, TypeOK, TypeRows, TypeRunner, HostWritesAlone,
            GivenIsClaimed, ClaimedIsNew
<1>1. CASE Quiet
  BY <1>1 DEF Quiet, rowVars, heldVars
<1>2. CASE Inserts
  BY <1>2 DEF Inserts, heldVars
<1>3. CASE Ends
  BY <1>3 DEF Ends, RunnerGone, rowVars
<1>4. CASE SpawnContainer
  BY <1>4 DEF SpawnContainer, inVars, Free, Busy
<1>5. CASE SweepSync
  BY <1>5 DEF SweepSync, syncProcessingAcks, loopVars, histVars, claimVars
<1>6. ASSUME NEW deleted \in BOOLEAN, resetStuckProcessingRows(deleted) PROVE GivenIsClaimed' /\ ClaimedIsNew'
  BY <1>6 DEF resetStuckProcessingRows, Lost, Exhausted, Acked, Claims, loopVars, histVars, claimVars
<1>7. CASE clearStaleProcessingAcks
  BY <1>7 DEF clearStaleProcessingAcks, Acked, Claims, inVars, histVars
<1>8. CASE Poll
  BY <1>8, PendingIsUnclaimed DEF Poll, markProcessing, Acked, inVars, claimVars, histVars
<1>9. CASE HandleCommands
  BY <1>9 DEF HandleCommands, commandIds, markCompleted, Acked, inVars
<1>10. ASSUME NEW S \in SUBSET Msg, StartQuery(S) PROVE GivenIsClaimed' /\ ClaimedIsNew'
  <2>1. given' = given \cup (batch \ S) /\ rp = "script" /\ rp' \in {"poll", "query"} /\ fbatch' = {}
    BY <1>10 DEF StartQuery, HandOut
  <2>2. \A m \in Msg : ack[m] # "none" => ack'[m] # "none"
    BY <1>10 DEF StartQuery, markCompleted, Acked
  <2> QED
    BY <2>1, <2>2
<1>11. CASE ProviderResult
  BY <1>11 DEF ProviderResult, Working, markCompleted, Acked, inVars, loopVars
<1>12. CASE LeaveQuery
  BY <1>12 DEF LeaveQuery, markCompleted, Acked, inVars
<1>13. CASE FollowUpClaims
  BY <1>13, PendingIsUnclaimed DEF FollowUpClaims, markProcessing, Acked, inVars, histVars
<1>14. ASSUME NEW S \in SUBSET Msg, FollowUpPushes(S) PROVE GivenIsClaimed' /\ ClaimedIsNew'
  BY <1>14 DEF FollowUpPushes, markCompleted, HandOut, Acked, inVars
<1>15. ASSUME NEW S \in SUBSET Msg, FollowUpFails(S) PROVE GivenIsClaimed' /\ ClaimedIsNew'
  BY <1>15 DEF FollowUpFails, ReleaseSkipped, markCompleted, Acked, inVars
<1>16. ASSUME NEW B \in strays, NEW S \in SUBSET Msg, StrayReturns(B, S) PROVE GivenIsClaimed' /\ ClaimedIsNew'
  BY <1>16 DEF StrayReturns, ReleaseSkipped, markCompleted, Acked, inVars
<1>17. ASSUME NEW m \in Msg, AnswerArrives(m) PROVE GivenIsClaimed' /\ ClaimedIsNew'
  BY <1>17 DEF AnswerArrives, markCompleted, Acked, inVars
<1> QED
  BY StepKinds, <1>1, <1>2, <1>3, <1>4, <1>5, <1>6, <1>7, <1>8, <1>9, <1>10, <1>11, <1>12,
     <1>13, <1>14, <1>15, <1>16, <1>17 DEF Moves

LEMMA SafeStep == IInv /\ [Next]_vars => IInv'
<1> SUFFICES ASSUME IInv, [Next]_vars PROVE IInv'
  OBVIOUS
<1>1. TypeOK'
  BY TypeStep DEF IInv
<1> QED
  BY <1>1, PlacesStep, CompletionStep, FailureStep, GivenStep DEF IInv

\* The inductive invariant holds in every reachable state; the theorems below read it off.
THEOREM Safety == Spec => []IInv
BY SafeInit, SafeStep, PTL DEF Spec

\* The host never takes a session for idle, wakes a second container or edits
\* outbound.db while the session's runner is alive (activeContainers,
\* cleanupOrphans, resetStuckProcessingRows).
THEOREM HostIsAlone == Spec => [](HostKnowsRunner /\ HostWritesAlone)
<1>1. IInv => HostKnowsRunner /\ HostWritesAlone
  BY DEF IInv
<1> QED
  BY <1>1, Safety, PTL

\* No row is reported done that nobody dealt with (markCompleted,
\* syncProcessingAcks).
THEOREM NothingLost == Spec => []CompletedWasHandled
<1>1. IInv => CompletedWasHandled
  BY DEF IInv
<1> QED
  BY <1>1, Safety, PTL

\* The host fails a row only once its tries are used up, and no runner has
\* acknowledged a failed row (resetStuckProcessingRows).
THEOREM FailureIsEarned == Spec => []FailedIsExhausted
<1>1. IInv => FailedIsExhausted
  BY DEF IInv
<1> QED
  BY <1>1, Safety, PTL

\* Completed and failed rows stay so (syncProcessingAcks, markMessageFailed).
THEOREM SettledStays == Spec => SettledIsFinal
<1>1. ASSUME IInv, [Next]_vars, NEW m \in Msg, status[m] \in {"completed", "failed"}
      PROVE  status'[m] = status[m]
  <2> USE DEF IInv, TypeOK, TypeRows, CompletedWasHandled, FailedIsExhausted
  <2>1. CASE Quiet \/ Ends
    BY <2>1 DEF Quiet, Ends, rowVars
  <2>2. CASE Inserts
    BY <1>1, <2>2 DEF Inserts
  <2>3. CASE Moves
    <3>1. CASE SweepSync
      BY <1>1, <3>1 DEF SweepSync, syncProcessingAcks
    <3>2. ASSUME NEW deleted \in BOOLEAN, resetStuckProcessingRows(deleted)
          PROVE  status'[m] = status[m]
      BY <1>1, <3>2 DEF resetStuckProcessingRows, Exhausted, Lost
    <3>3. CASE UNCHANGED status
      BY <3>3
    <3> QED
      BY <2>3, <3>1, <3>2, <3>3 DEF Moves, inVars, SpawnContainer, clearStaleProcessingAcks,
         Poll, HandleCommands, StartQuery, ProviderResult, LeaveQuery, FollowUpClaims,
         FollowUpPushes, FollowUpFails, StrayReturns, AnswerArrives
  <2> QED
    BY <1>1, <2>1, <2>2, <2>3, StepKinds
<1>2. IInv /\ [Next]_vars =>
         [\A m \in Msg : status[m] \in {"completed", "failed"} => status'[m] = status[m]]_vars
  BY <1>1
<1> QED
  BY <1>2, Safety, PTL DEF Spec, SettledIsFinal

\* A try is charged, and a row failed, only for a claim whose runner is gone,
\* and never twice in one delay (resetStuckProcessingRows).
THEOREM ChargedOnce == Spec => ChargedOncePerDelay
<1> DEFINE Charges(m) == tries'[m] # tries[m] \/ (status'[m] = "failed" /\ status[m] # "failed")
<1>1. ASSUME IInv, [Next]_vars, NEW m \in Msg, Charges(m)
      PROVE  m \in Claims \ deferred /\ rp = "off"
  <2> USE DEF IInv, TypeOK, TypeRows, HostWritesAlone
  <2>1. ASSUME NEW deleted \in BOOLEAN, resetStuckProcessingRows(deleted)
        PROVE  m \in Claims \ deferred /\ rp = "off"
    BY <1>1, <2>1 DEF resetStuckProcessingRows, Exhausted, Lost
  <2>2. CASE SweepSync
    BY <1>1, <2>2 DEF SweepSync, syncProcessingAcks
  <2>3. CASE Inserts
    BY <1>1, <2>3 DEF Inserts
  <2>4. CASE UNCHANGED <<status, tries>>
    BY <1>1, <2>4
  <2>5. CASE Quiet \/ Ends
    BY <2>4, <2>5 DEF Quiet, Ends, rowVars
  <2>6. CASE Moves
    BY <2>1, <2>2, <2>4, <2>6 DEF Moves, inVars, SpawnContainer, clearStaleProcessingAcks,
       Poll, HandleCommands, StartQuery, ProviderResult, LeaveQuery, FollowUpClaims,
       FollowUpPushes, FollowUpFails, StrayReturns, AnswerArrives
  <2> QED
    BY <1>1, <2>3, <2>5, <2>6, StepKinds
<1>2. IInv /\ [Next]_vars => [\A m \in Msg : Charges(m) => m \in Claims \ deferred /\ rp = "off"]_vars
  BY <1>1
<1> QED
  BY <1>2, Safety, PTL DEF Spec, ChargedOncePerDelay

----------------------------------------------------------------------------
(* The queue of module LeaseQueue.  A second inductive invariant.           *)

\* A session is woken only when it has no container, and a runner that has not started polling
\* holds nothing, although its predecessor may have held rows.
Engaged ==
    /\ waking => ~active
    /\ rp \in {"off", "boot"} => batch = {} /\ fbatch = {} /\ strays = {}
    /\ asked \subseteq System /\ (asked # {} => rp = "query")
    /\ fbatch # {} => rp = "query"

\* Each row a runner has still to show is claimed and in one place only, so whichever of its
\* polls returns first acknowledges nothing another one is about to show.
HeldApart ==
    /\ \A m \in Msg : ack[m] # "none" => status[m] # "none"
    /\ rp = "query" => batch \subseteq given /\ batch \cap fbatch = {}
    /\ rp \in {"claimed", "script"} => \A m \in batch : ack[m] = "processing"
    /\ \A m \in fbatch : ack[m] = "processing"
    /\ \A B \in strays : \A m \in B :
          ack[m] # "none" /\ m \notin fbatch /\ (rp \in {"claimed", "script"} => m \notin batch)

LEMMA EngagedStep ==
    ASSUME IInv, Engaged, [Next]_vars
    PROVE  Engaged'
<1> USE DEF IInv, HostKnowsRunner, Engaged, inVars, claimVars, hostVars, loopVars, histVars
<1>1. CASE Host
  <2>1. ASSUME NEW m \in Msg, NEW later \in BOOLEAN,
               WriteMessage(m, later) \/ WriteAnswer(m) \/ RestartGroup(m)
        PROVE  Engaged'
    <3>1. UNCHANGED <<active, rp, batch, fbatch, strays, asked>>
      BY <2>1 DEF WriteMessage, WriteAnswer, RestartGroup
    <3>2. waking' = waking \/ waking' = (waking \/ ~active)
      BY <2>1 DEF WriteMessage, WriteAnswer, RestartGroup, wakeContainer
    <3>3. waking' => ~active
      BY <3>2
    <3> QED
      BY <3>1, <3>3
  <2>2. CASE SpawnContainer \/ SpawnFails \/ ContainerCloses
    BY <2>2 DEF SpawnContainer, SpawnFails, ContainerCloses, Closed, Free, Busy
  <2>3. CASE KillGroup \/ KillReturns
    BY <2>3 DEF KillGroup, KillReturns, stopContainer, RunnerGone
  <2>4. CASE SweepSync
    BY <2>4 DEF SweepSync
  <2>5. CASE SweepKills \/ SweepFindsAlive \/ SweepFindsDead
    BY <2>5 DEF SweepKills, SweepFindsAlive, SweepFindsDead
  <2>6. CASE SweepStops
    BY <2>6 DEF SweepStops, stopContainer, RunnerGone
  <2>7. ASSUME NEW deleted \in BOOLEAN, resetStuckProcessingRows(deleted)
        PROVE  Engaged'
    BY <2>7 DEF resetStuckProcessingRows
  <2>8. CASE HostCrashes \/ HostStarts
    BY <2>8 DEF HostCrashes, HostStarts, cleanupOrphans, RunnerGone
  <2> QED
    BY <1>1, <2>1, <2>2, <2>3, <2>4, <2>5, <2>6, <2>7, <2>8 DEF Host, Sweep
<1>2. CASE Time
  BY <1>2 DEF Time, DelayElapses, ClaimAges, HeartbeatAges
<1>3. CASE Loop
  <2>1. CASE clearStaleProcessingAcks \/ Poll \/ HandleCommands
    BY <2>1 DEF clearStaleProcessingAcks, Poll, HandleCommands
  <2>2. ASSUME NEW S \in SUBSET Msg, StartQuery(S)
        PROVE  Engaged'
    BY <2>2 DEF StartQuery
  <2>3. CASE ProviderEvent \/ ProviderHangs \/ ProviderResult
    BY <2>3 DEF ProviderEvent, ProviderHangs, ProviderResult, Working
  <2>4. CASE QueryEnds \/ QueryErrors
    BY <2>4 DEF QueryEnds, QueryErrors, LeaveQuery
  <2> QED
    BY <1>3, <2>1, <2>2, <2>3, <2>4 DEF Loop
<1>4. CASE FollowUp
  <2>1. CASE FollowUpSeesCommand \/ FollowUpClaims
    <3>1. UNCHANGED <<active, waking, rp, asked>> /\ rp = "query"
      BY <2>1 DEF FollowUpSeesCommand, FollowUpClaims
    <3> QED
      BY <3>1
  <2>2. ASSUME NEW S \in SUBSET Msg, FollowUpPushes(S) \/ FollowUpFails(S)
        PROVE  Engaged'
    BY <2>2 DEF FollowUpPushes, FollowUpFails
  <2>3. ASSUME NEW B \in strays, NEW S \in SUBSET Msg, StrayReturns(B, S)
        PROVE  Engaged'
    BY <2>3 DEF StrayReturns
  <2> QED
    BY <1>4, <2>1, <2>2, <2>3 DEF FollowUp
<1>5. CASE Tool
  BY <1>5 DEF Tool, Ask, AnswerArrives, QuestionTimesOut, Working
<1>6. CASE RunnerCrashes
  BY <1>6 DEF RunnerCrashes, RunnerGone
<1>7. CASE UNCHANGED vars
  BY <1>7 DEF vars
<1> QED
  BY <1>1, <1>2, <1>3, <1>4, <1>5, <1>6, <1>7 DEF Next

LEMMA HeldApartStep ==
    ASSUME IInv, Engaged, HeldApart, [Next]_vars
    PROVE  HeldApart'
<1> USE DEF IInv, TypeOK, TypeRows, TypeRunner, HostWritesAlone, GivenIsClaimed, Engaged, HeldApart
<1>1. CASE Quiet
  BY <1>1 DEF Quiet, rowVars, heldVars
<1>2. CASE Inserts
  BY <1>2 DEF Inserts, heldVars
<1>3. CASE Ends
  BY <1>3 DEF Ends, RunnerGone, rowVars
<1>4. CASE SpawnContainer
  BY <1>4 DEF SpawnContainer, inVars, HostKnowsRunner, Free
<1>5. CASE SweepSync
  BY <1>5 DEF SweepSync, syncProcessingAcks, loopVars, histVars, claimVars
<1>6. ASSUME NEW deleted \in BOOLEAN, resetStuckProcessingRows(deleted) PROVE HeldApart'
  BY <1>6 DEF resetStuckProcessingRows, Lost, Exhausted, Acked, Claims, loopVars, histVars, claimVars
<1>7. CASE clearStaleProcessingAcks
  BY <1>7 DEF clearStaleProcessingAcks, Acked, Claims, inVars, histVars
<1>8. CASE Poll
  BY <1>8, PendingIsUnclaimed DEF Poll, markProcessing, Acked, inVars, claimVars, histVars
<1>9. CASE HandleCommands
  BY <1>9 DEF HandleCommands, commandIds, markCompleted, Acked, inVars
<1>10. ASSUME NEW S \in SUBSET Msg, StartQuery(S) PROVE HeldApart'
  BY <1>10 DEF StartQuery, HandOut, markCompleted, Acked, inVars
<1>11. CASE ProviderResult
  BY <1>11 DEF ProviderResult, Working, markCompleted, Acked, inVars, loopVars
<1>12. CASE LeaveQuery
  BY <1>12 DEF LeaveQuery, markCompleted, Acked, inVars
<1>13. CASE FollowUpClaims
  BY <1>13, PendingIsUnclaimed DEF FollowUpClaims, markProcessing, Acked, inVars, histVars
<1>14. ASSUME NEW S \in SUBSET Msg, FollowUpPushes(S) PROVE HeldApart'
  BY <1>14 DEF FollowUpPushes, markCompleted, HandOut, Acked, inVars
<1>15. ASSUME NEW S \in SUBSET Msg, FollowUpFails(S) PROVE HeldApart'
  BY <1>15 DEF FollowUpFails, ReleaseSkipped, markCompleted, Acked, inVars
<1>16. ASSUME NEW B \in strays, NEW S \in SUBSET Msg, StrayReturns(B, S) PROVE HeldApart'
  BY <1>16 DEF StrayReturns, ReleaseSkipped, markCompleted, Acked, inVars
<1>17. ASSUME NEW m \in Msg, AnswerArrives(m) PROVE HeldApart'
  BY <1>17 DEF AnswerArrives, markCompleted, Acked, inVars
<1> QED
  BY StepKinds, <1>1, <1>2, <1>3, <1>4, <1>5, <1>6, <1>7, <1>8, <1>9, <1>10, <1>11, <1>12,
     <1>13, <1>14, <1>15, <1>16, <1>17 DEF Moves

----------------------------------------------------------------------------
(* Showing a row again.  A third inductive invariant.                       *)

\* A row whose last showing nobody has paid for is claimed, acknowledged or given up, so no poll
\* returns it; and what a runner has claimed and not yet shown owes nothing.
PaidApart ==
    /\ \A m \in unpaid : ack[m] # "none" \/ status[m] = "failed"
    /\ \A m \in unpaid \cap deferred : ack[m] # "processing"
    /\ unpaid \cap fbatch = {}
    /\ rp \in {"claimed", "script"} => unpaid \cap batch = {}
    /\ rp \notin {"off", "boot"} => \A m \in deferred : ack[m] # "processing"

\* Only a new row and a charged one are put off.
LEMMA Deferring ==
    ASSUME [Next]_vars, NEW m \in Msg, m \in deferred' \ deferred
    PROVE  \/ status[m] = "none"
           \/ \E deleted \in BOOLEAN : resetStuckProcessingRows(deleted) /\ m \in Lost
<1> USE DEF inVars, claimVars, hostVars, loopVars, histVars
<1>1. CASE Host
  <2>1. ASSUME NEW n \in Msg, NEW later \in BOOLEAN,
               WriteMessage(n, later) \/ WriteAnswer(n) \/ RestartGroup(n)
        PROVE  status[m] = "none"
    BY <2>1 DEF WriteMessage, WriteAnswer, RestartGroup, InsertRow
  <2>2. ASSUME NEW deleted \in BOOLEAN, resetStuckProcessingRows(deleted) PROVE m \in Lost
    BY <2>2 DEF resetStuckProcessingRows
  <2>3. CASE UNCHANGED deferred
    BY <2>3
  <2> QED
    BY <1>1, <2>1, <2>2, <2>3 DEF Host, Sweep, SpawnContainer, SpawnFails, ContainerCloses, KillGroup,
       KillReturns, SweepSync, SweepKills, SweepStops, SweepFindsAlive, SweepFindsDead, HostCrashes, HostStarts
<1>2. CASE Time
  BY <1>2 DEF Time, DelayElapses, ClaimAges, HeartbeatAges
<1>3. CASE Loop
  BY <1>3 DEF Loop, clearStaleProcessingAcks, Poll, HandleCommands, StartQuery, ProviderEvent,
     ProviderHangs, ProviderResult, QueryEnds, QueryErrors, LeaveQuery
<1>4. CASE FollowUp
  BY <1>4 DEF FollowUp, FollowUpSeesCommand, FollowUpClaims, FollowUpPushes, FollowUpFails, StrayReturns
<1>5. CASE Tool \/ RunnerCrashes \/ UNCHANGED vars
  BY <1>5 DEF Tool, Ask, AnswerArrives, QuestionTimesOut, RunnerCrashes, vars
<1> QED
  BY <1>1, <1>2, <1>3, <1>4, <1>5 DEF Next

LEMMA PaidApartStep ==
    ASSUME IInv, HeldApart, PaidApart, [Next]_vars
    PROVE  PaidApart'
<1> USE DEF IInv, TypeOK, TypeRows, TypeRunner, HostWritesAlone, HeldApart, PaidApart
<1>1. ASSUME NEW deleted \in BOOLEAN, resetStuckProcessingRows(deleted) PROVE PaidApart'
  <2>1. /\ rp = "off" /\ UNCHANGED <<rp, batch, fbatch>>
        /\ unpaid' = unpaid \ Lost /\ deferred' \subseteq deferred \cup Lost
        /\ \A m \in Msg : status[m] = "failed" => status'[m] = "failed"
        /\ \A m \in Msg : ack'[m] # ack[m] => ack[m] = "processing" /\ ack'[m] = "none"
    BY <1>1 DEF resetStuckProcessingRows, Acked, Claims, loopVars, claimVars
  <2>2. ASSUME NEW m \in unpaid', ack[m] = "processing" PROVE status[m] = "failed"
    BY <2>1, <2>2 DEF Lost, Claims, CompletedWasHandled
  <2> QED
    BY <2>1, <2>2
<1>2. ASSUME \A m \in Msg : m \in deferred' \ deferred => ack[m] = "none", Quiet \/ Inserts \/ Ends
      PROVE  PaidApart'
  <2>0. deferred' \subseteq Msg
    BY TypeStep
  <2>1. CASE Quiet
    BY <1>2, <2>0, <2>1 DEF Quiet, rowVars, heldVars
  <2>2. CASE Inserts
    BY <1>2, <2>0, <2>2 DEF Inserts, heldVars
  <2>3. CASE Ends
    BY <1>2, <2>0, <2>3 DEF Ends, RunnerGone, rowVars
  <2> QED
    BY <1>2, <2>1, <2>2, <2>3
<1>3. (\A m \in Msg : m \in deferred' \ deferred => ack[m] = "none")
         \/ \E deleted \in BOOLEAN : resetStuckProcessingRows(deleted)
  BY Deferring
<1>4. CASE SpawnContainer
  BY <1>4 DEF SpawnContainer, inVars
<1>5. CASE SweepSync
  BY <1>5 DEF SweepSync, syncProcessingAcks, loopVars, histVars, claimVars
<1>6. CASE clearStaleProcessingAcks
  BY <1>6 DEF clearStaleProcessingAcks, Acked, Claims, inVars
<1>7. CASE Poll
  BY <1>7, PendingIsUnclaimed DEF Poll, markProcessing, Acked, inVars, claimVars, histVars
<1>8. CASE HandleCommands
  BY <1>8 DEF HandleCommands, commandIds, markCompleted, Acked, inVars
<1>9. ASSUME NEW S \in SUBSET Msg, StartQuery(S) PROVE PaidApart'
  BY <1>9 DEF StartQuery, HandOut, markCompleted, Acked, inVars
<1>10. CASE ProviderResult
  BY <1>10 DEF ProviderResult, Working, markCompleted, Acked, inVars, loopVars
<1>11. CASE LeaveQuery
  BY <1>11 DEF LeaveQuery, markCompleted, Acked, inVars
<1>12. CASE FollowUpClaims
  BY <1>12, PendingIsUnclaimed DEF FollowUpClaims, markProcessing, Acked, inVars, histVars
<1>13. ASSUME NEW S \in SUBSET Msg, FollowUpPushes(S) PROVE PaidApart'
  BY <1>13 DEF FollowUpPushes, markCompleted, HandOut, Acked, inVars
<1>14. ASSUME NEW S \in SUBSET Msg, FollowUpFails(S) PROVE PaidApart'
  BY <1>14 DEF FollowUpFails, ReleaseSkipped, markCompleted, Acked, inVars
<1>15. ASSUME NEW B \in strays, NEW S \in SUBSET Msg, StrayReturns(B, S) PROVE PaidApart'
  BY <1>15 DEF StrayReturns, ReleaseSkipped, markCompleted, Acked, inVars
<1>16. ASSUME NEW m \in Msg, AnswerArrives(m) PROVE PaidApart'
  BY <1>16 DEF AnswerArrives, markCompleted, Acked, inVars
<1> QED
  BY StepKinds, <1>1, <1>2, <1>3, <1>4, <1>5, <1>6, <1>7, <1>8, <1>9, <1>10, <1>11,
     <1>12, <1>13, <1>14, <1>15, <1>16 DEF Moves

LEMMA Apart == Spec => [](IInv /\ Engaged /\ HeldApart /\ PaidApart)
<1>1. Init => Engaged /\ HeldApart /\ PaidApart
  BY DEF Init, Engaged, HeldApart, PaidApart
<1>2. IInv /\ Engaged /\ HeldApart /\ PaidApart /\ [Next]_vars => (Engaged /\ HeldApart /\ PaidApart)'
  BY EngagedStep, HeldApartStep, PaidApartStep
<1> QED
  BY <1>1, <1>2, SafeInit, SafeStep, PTL DEF Spec

\* Between two showings of a row to the agent its claim was lost and the loss charged, or the claim
\* dropped by the next runner (resetStuckProcessingRows, clearStaleProcessingAcks, both polls).
THEOREM ShownOncePerClaim == Spec => ReshownIsPaid
<1>1. ASSUME IInv, PaidApart, [Next]_vars, NEW m \in Msg, runs'[m] # runs[m]
      PROVE  m \notin unpaid
  <2> USE DEF IInv, TypeOK, TypeRunner, PaidApart, HandOut
  <2>1. ASSUME NEW S \in SUBSET Msg, StartQuery(S) PROVE m \notin unpaid
    BY <1>1, <2>1 DEF StartQuery
  <2>2. ASSUME NEW S \in SUBSET Msg, FollowUpPushes(S) PROVE m \notin unpaid
    BY <1>1, <2>2 DEF FollowUpPushes
  <2>3. CASE UNCHANGED runs
    BY <1>1, <2>3
  <2>4. CASE Quiet \/ Inserts \/ Ends
    BY <2>3, <2>4 DEF Quiet, Inserts, Ends, rowVars
  <2>5. CASE Moves
    BY <2>1, <2>2, <2>3, <2>5 DEF Moves, histVars, SpawnContainer, SweepSync,
       resetStuckProcessingRows, clearStaleProcessingAcks, Poll, HandleCommands, ProviderResult,
       LeaveQuery, FollowUpClaims, FollowUpFails, StrayReturns, AnswerArrives
  <2> QED
    BY <1>1, <2>4, <2>5, StepKinds
<1>2. IInv /\ PaidApart /\ [Next]_vars => [\A m \in Msg : runs'[m] # runs[m] => m \notin unpaid]_vars
  BY <1>1
<1> QED
  BY <1>2, Apart, PTL DEF Spec, ReshownIsPaid

----------------------------------------------------------------------------
(* The refinement.                                                          *)

\* What the state of a lease says of the two columns it stands for.
LEMMA LeaseCases ==
    ASSUME NEW s \in {"none", "pending", "completed", "failed"},
           NEW a \in {"none", "processing", "completed"}
    PROVE  /\ s = "none" => LeaseOf(s, a) = "none"
           /\ s = "failed" => LeaseOf(s, a) = "failed"
           /\ s = "completed" => LeaseOf(s, a) = "done"
           /\ s = "pending" /\ a = "none" => LeaseOf(s, a) = "waiting"
           /\ s = "pending" /\ a = "processing" => LeaseOf(s, a) = "leased"
           /\ s = "pending" /\ a = "completed" => LeaseOf(s, a) = "settled"
BY DEF LeaseOf

LEMMA Reading ==
    ASSUME TypeOK
    PROVE  \A m \in Msg :
             /\ LeaseState[m] = LeaseOf(status[m], ack[m])
             /\ status[m] = "none" <=> LeaseState[m] = "none"
             /\ status[m] = "completed" <=> LeaseState[m] = "done"
             /\ status[m] = "failed" <=> LeaseState[m] = "failed"
             /\ status[m] = "pending" /\ ack[m] = "none" <=> LeaseState[m] = "waiting"
             /\ status[m] = "pending" /\ ack[m] = "processing" <=> LeaseState[m] = "leased"
             /\ status[m] = "pending" /\ ack[m] = "completed" <=> LeaseState[m] = "settled"
<1> SUFFICES ASSUME NEW m \in Msg
             PROVE  /\ LeaseState[m] = LeaseOf(status[m], ack[m])
                    /\ status[m] = "none" <=> LeaseState[m] = "none"
                    /\ status[m] = "completed" <=> LeaseState[m] = "done"
                    /\ status[m] = "failed" <=> LeaseState[m] = "failed"
                    /\ status[m] = "pending" /\ ack[m] = "none" <=> LeaseState[m] = "waiting"
                    /\ status[m] = "pending" /\ ack[m] = "processing" <=> LeaseState[m] = "leased"
                    /\ status[m] = "pending" /\ ack[m] = "completed" <=> LeaseState[m] = "settled"
  OBVIOUS
<1>1. LeaseState[m] = LeaseOf(status[m], ack[m])
  BY DEF LeaseState
<1>2. /\ status[m] \in {"none", "pending", "completed", "failed"}
      /\ ack[m] \in {"none", "processing", "completed"}
  BY DEF TypeOK, TypeRows
<1> QED
  BY <1>1, <1>2, LeaseCases

\* Only the rows of S change, and all to the same state.
LEMMA Moving ==
    ASSUME NEW S \in SUBSET Msg, NEW to,
           \A m \in Msg : LeaseOf(status'[m], ack'[m]) = IF m \in S THEN to ELSE LeaseOf(status[m], ack[m])
    PROVE  LeaseState' = Leases!Moved(S, to)
BY DEF LeaseState, Leases!Moved

Shown == IF Consumes THEN given ELSE {}
leaseVars == <<LeaseState, tries, Consumes, Shown>>

\* The runner shows the rows S and acknowledges the rows B.
LEMMA ServeMaps ==
    ASSUME IInv, TypeOK', HeldApart, Consumes, Consumes',
           NEW S \in SUBSET Msg, NEW B \in SUBSET Msg,
           status' = status, tries' = tries, ack' = Acked(B, "completed"), given' = given \cup S,
           S \cap given = {},
           \A m \in S : ack[m] = "processing" /\ status[m] # "failed",
           \A m \in B : /\ status[m] # "failed"
                        /\ ack[m] # "none" \/ (m \in System /\ status[m] = "pending")
                        /\ m \in given \cup S \cup Scripted \cup Clear \cup System
    PROVE  Leases!Next
<1> DEFINE A == {m \in B : ack[m] # "completed"}
<1> USE DEF IInv, TypeOK, TypeRows
<1>1. \A m \in S : LeaseState[m] = "leased"
  BY Reading DEF HeldApart, CompletedWasHandled
<1>2. \A m \in A : status[m] = "pending"
  BY DEF HeldApart, CompletedWasHandled
<1>3. \A m \in A : LeaseState[m] = "leased" \/ (LeaseState[m] = "waiting" /\ m \in System)
  BY <1>2, Reading
<1>4. \A m \in Msg : LeaseOf(status'[m], ack'[m]) = IF m \in A THEN "settled" ELSE LeaseOf(status[m], ack[m])
  BY <1>2, LeaseCases DEF Acked
<1>5. LeaseState' = Leases!Moved(A, "settled")
  BY <1>4, Moving
<1>6. A \subseteq given \cup S \cup Scripted \cup Clear \cup System
  OBVIOUS
<1> HIDE DEF A
<1>7. A \in SUBSET Msg
  BY DEF A
<1>8. Leases!Serve(S, A)
  BY <1>1, <1>3, <1>5, <1>6, <1>7 DEF Leases!Serve, Leases!In
<1> QED
  BY <1>7, <1>8 DEF Leases!Next

LEMMA SettleMaps ==
    ASSUME IInv, TypeOK', HeldApart, Consumes, Consumes', NEW B \in SUBSET Msg,
           status' = status, tries' = tries, ack' = Acked(B, "completed"), given' = given,
           \A m \in B : /\ status[m] # "failed"
                        /\ ack[m] # "none" \/ (m \in System /\ status[m] = "pending")
                        /\ m \in given \cup Scripted \cup Clear \cup System
    PROVE  Leases!Next
<1>1. /\ {} \in SUBSET Msg /\ given' = given \cup {} /\ {} \cap given = {}
      /\ \A m \in {} : ack[m] = "processing" /\ status[m] # "failed"
      /\ \A m \in B : m \in given \cup {} \cup Scripted \cup Clear \cup System
  OBVIOUS
<1> QED
  BY <1>1, ServeMaps

\* Rows that a poll has read and claimed.
LEMMA LeaseMaps ==
    ASSUME TypeOK, Consumes, Consumes', NEW S \in SUBSET Msg,
           status' = status, tries' = tries, given' = given, ack' = Acked(S, "processing"),
           \A m \in S : ack[m] = "none" /\ status[m] = "pending"
    PROVE  Leases!Next
<1>1. \A m \in S : LeaseState[m] = "waiting"
  BY Reading
<1>2. \A m \in Msg : LeaseOf(status'[m], ack'[m]) = IF m \in S THEN "leased" ELSE LeaseOf(status[m], ack[m])
  BY LeaseCases DEF Acked
<1>3. LeaseState' = Leases!Moved(S, "leased")
  BY <1>2, Moving
<1>4. Leases!Lease(S)
  BY <1>1, <1>3 DEF Leases!Lease, Leases!In
<1> QED
  BY <1>4 DEF Leases!Next

LEMMA QuietMaps ==
    ASSUME UNCHANGED <<status, ack, tries, given>>, Consumes' = Consumes
    PROVE  UNCHANGED leaseVars
BY DEF leaseVars, LeaseState, Shown

LEMMA InsertsMaps ==
    ASSUME IInv, HeldApart, Inserts
    PROVE  Leases!Next
<1> USE DEF IInv, TypeOK, TypeRows
<1>1. PICK m \in Msg : status[m] = "none" /\ status' = [status EXCEPT ![m] = "pending"]
  BY DEF Inserts
<1>2. UNCHANGED <<tries, ack, given, Consumes>>
  BY DEF Inserts, heldVars, Consumes
<1>3. ack[m] = "none"
  BY <1>1 DEF HeldApart
<1>4. \A n \in Msg : LeaseOf(status'[n], ack'[n]) = IF n \in {m} THEN "waiting" ELSE LeaseOf(status[n], ack[n])
  BY <1>1, <1>2, <1>3, LeaseCases
<1>5. LeaseState' = Leases!Moved({m}, "waiting")
  BY <1>4, Moving
<1>6. Leases!Put(m)
  BY <1>1, <1>2, <1>5, Reading DEF Leases!Put, Leases!In
<1> QED
  BY <1>6 DEF Leases!Next

LEMMA SyncMaps ==
    ASSUME IInv, HeldApart, SweepSync
    PROVE  Leases!Next
<1> USE DEF IInv, TypeOK, TypeRows
<1> DEFINE S == {m \in Msg : LeaseState[m] = "settled"}
<1>1. /\ status' = [m \in Msg |-> IF ack[m] = "completed" THEN "completed" ELSE status[m]]
      /\ UNCHANGED <<tries, ack, given, Consumes>>
  BY DEF SweepSync, syncProcessingAcks, claimVars, loopVars, histVars, Consumes
<1>2. ASSUME NEW m \in Msg
      PROVE  LeaseOf(status'[m], ack'[m]) = IF m \in S THEN "done" ELSE LeaseOf(status[m], ack[m])
  <2>1. m \in S <=> status[m] = "pending" /\ ack[m] = "completed"
    BY Reading
  <2>2. ack[m] = "completed" => status[m] \in {"pending", "completed"}
    BY DEF HeldApart, FailedIsExhausted
  <2> HIDE DEF S
  <2> QED BY <1>1, <2>1, <2>2, LeaseCases
<1>3. LeaseState' = Leases!Moved(S, "done")
  BY <1>2, Moving
<1>4. Leases!Confirm
  BY <1>1, <1>3 DEF Leases!Confirm, Leases!In
<1> QED
  BY <1>4 DEF Leases!Next

LEMMA ResetMaps ==
    ASSUME IInv, HeldApart, NEW deleted \in BOOLEAN, resetStuckProcessingRows(deleted)
    PROVE  Leases!Next
<1> USE DEF IInv, TypeOK, TypeRows
<1>1. ~Consumes /\ ~Consumes' /\ given' = given
  BY DEF resetStuckProcessingRows, HostWritesAlone, Consumes, loopVars, histVars
<1>2. \A m \in Lost : m \in Msg /\ LeaseState[m] = "leased"
  BY Reading DEF Lost, Claims
<1>3. \A m \in Msg : m \in Exhausted <=> m \in Lost /\ tries[m] >= MAX_TRIES
  BY DEF Exhausted
<1>4. tries' = [m \in Msg |-> IF m \in Lost /\ tries[m] < MAX_TRIES THEN tries[m] + 1 ELSE tries[m]]
  <2>1. tries' = [m \in Msg |-> IF m \in Lost \ Exhausted THEN tries[m] + 1 ELSE tries[m]]
    BY DEF resetStuckProcessingRows
  <2>2. \A m \in Msg : m \in Lost \ Exhausted <=> m \in Lost /\ tries[m] < MAX_TRIES
    BY <1>3, Limits
  <2> QED BY <2>1, <2>2
<1> DEFINE F == IF deleted THEN {m \in Msg : LeaseState[m] = "leased"} ELSE {}
<1>5. ASSUME NEW m \in Msg
      PROVE  LeaseState'[m] = IF m \in Lost /\ tries[m] >= MAX_TRIES THEN "failed"
                              ELSE IF m \in F THEN "waiting" ELSE LeaseState[m]
  <2>1. status'[m] = IF m \in Lost /\ tries[m] >= MAX_TRIES THEN "failed" ELSE status[m]
    BY <1>3 DEF resetStuckProcessingRows
  <2>2. ack'[m] = IF deleted /\ ack[m] = "processing" THEN "none" ELSE ack[m]
    BY DEF resetStuckProcessingRows, Acked, Claims, claimVars
  <2>3. LeaseState'[m] = LeaseOf(status'[m], ack'[m]) /\ LeaseState[m] = LeaseOf(status[m], ack[m])
    BY DEF LeaseState
  <2>4. m \in F <=> deleted /\ status[m] = "pending" /\ ack[m] = "processing"
    BY Reading
  <2> HIDE DEF F
  <2> QED BY <2>1, <2>2, <2>3, <2>4, LeaseCases
<1>6. LeaseState' = [m \in Msg |-> IF m \in Lost /\ tries[m] >= MAX_TRIES THEN "failed"
                                   ELSE IF m \in F THEN "waiting" ELSE LeaseState[m]]
  BY <1>5 DEF LeaseState
<1>7. F \in {{}, Leases!In("leased")}
  BY DEF Leases!In
<1> HIDE DEF F
<1>8. Lost \in SUBSET Msg /\ Lost \subseteq Leases!In("leased")
  BY <1>2 DEF Leases!In
<1>9. Leases!Charge(Lost)
  <2>1. UNCHANGED <<Consumes, IF Consumes THEN given ELSE {}>>
    BY <1>1 DEF Consumes
  <2>2. \E freed \in {{}, Leases!In("leased")} :
          LeaseState' = [m \in Msg |-> IF m \in Lost /\ tries[m] >= MAX_TRIES THEN "failed"
                                       ELSE IF m \in freed THEN "waiting" ELSE LeaseState[m]]
    BY <1>6, <1>7
  <2> QED BY <1>1, <1>4, <1>8, <2>1, <2>2 DEF Leases!Charge
<1> QED
  BY <1>8, <1>9 DEF Leases!Next

\* The steps of a runner that holds its rows apart.
LEMMA MovesMap ==
    ASSUME IInv, TypeOK', Engaged, HeldApart, Moves
    PROVE  Leases!Next \/ UNCHANGED leaseVars
<1> USE DEF Consumes
<1>0. /\ batch \subseteq Msg /\ fbatch \subseteq Msg /\ Scripted \subseteq Msg /\ Clear \subseteq Msg
      /\ \A m \in batch \cup fbatch : status[m] # "failed"
      /\ System \subseteq Msg
  BY RowKinds DEF IInv, TypeOK, TypeRunner, HeldIsLive
<1>1. CASE SpawnContainer
  <2>1. rp = "off" /\ rp' = "boot" /\ UNCHANGED <<status, ack, tries>>
    BY <1>1 DEF SpawnContainer, IInv, HostKnowsRunner, Engaged, Free, inVars
  <2> QED BY <2>1 DEF leaseVars, LeaseState, Shown
<1>2. CASE SweepSync
  BY <1>2, SyncMaps
<1>3. ASSUME NEW deleted \in BOOLEAN, resetStuckProcessingRows(deleted) PROVE Leases!Next
  BY <1>3, ResetMaps
<1>4. CASE clearStaleProcessingAcks
  <2> DEFINE S == {m \in Msg : LeaseState[m] = "leased"}
  <2>1. /\ rp = "boot" /\ rp' = "poll" /\ UNCHANGED <<status, tries, given>>
        /\ ack' = Acked(Claims, "none")
    BY <1>4 DEF clearStaleProcessingAcks, inVars, histVars
  <2>2. ASSUME NEW m \in Msg
        PROVE  LeaseOf(status'[m], ack'[m]) = IF m \in S THEN "waiting" ELSE LeaseOf(status[m], ack[m])
    <3>1. m \in S <=> status[m] = "pending" /\ ack[m] = "processing"
      BY Reading DEF IInv
    <3>2. status'[m] = status[m] /\ ack'[m] = IF ack[m] = "processing" THEN "none" ELSE ack[m]
      BY <2>1 DEF Acked, Claims
    <3> HIDE DEF S
    <3> QED BY <3>1, <3>2, LeaseCases DEF IInv, TypeOK, TypeRows
  <2>3. LeaseState' = Leases!Moved(S, "waiting")
    BY <2>2, Moving
  <2>4. given = {}
    BY <2>1 DEF IInv, GivenIsClaimed
  <2>5. Leases!Attach
    BY <2>1, <2>3, <2>4 DEF Leases!Attach, Leases!In
  <2> QED BY <2>5 DEF Leases!Next
<1>5. CASE Poll
  <2> DEFINE S == getPendingMessages(first) \ System
  <2>1. rp = "poll" /\ rp' \in {"poll", "claimed"} /\ UNCHANGED <<status, tries, given>>
    BY <1>5 DEF Poll, inVars, histVars
  <2>2. /\ ack' = Acked(S, "processing") \/ ack' = ack
    BY <1>5 DEF Poll, markProcessing, claimVars
  <2>3. S \in SUBSET Msg /\ \A m \in S : ack[m] = "none" /\ status[m] = "pending"
    BY PendingIsUnclaimed DEF IInv, TypeOK, TypeRunner
  <2> HIDE DEF S
  <2>4. CASE ack' = ack
    BY <2>1, <2>4, QuietMaps
  <2>5. CASE ack' = Acked(S, "processing")
    BY <2>1, <2>3, <2>5, LeaseMaps DEF IInv
  <2> QED BY <2>2, <2>4, <2>5
<1>6. CASE FollowUpClaims
  <2> DEFINE S == getPendingMessages(FALSE) \ System
  <2>1. rp = "query" /\ rp' = rp /\ UNCHANGED <<status, tries, given>> /\ ack' = Acked(S, "processing")
    BY <1>6 DEF FollowUpClaims, markProcessing, inVars, histVars
  <2>2. S \in SUBSET Msg /\ \A m \in S : ack[m] = "none" /\ status[m] = "pending"
    BY PendingIsUnclaimed
  <2> HIDE DEF S
  <2> QED BY <2>1, <2>2, LeaseMaps DEF IInv
<1>7. CASE HandleCommands
  <2> DEFINE B == batch \cap Clear
  <2>1. /\ rp = "claimed" /\ rp' \in {"poll", "script"} /\ UNCHANGED <<status, tries, given>>
        /\ ack' = Acked(B, "completed")
    BY <1>7 DEF HandleCommands, commandIds, markCompleted, inVars
  <2>2. B \in SUBSET Msg /\ \A m \in B : ack[m] # "none" /\ status[m] # "failed" /\ m \in Clear
    BY <1>0, <2>1 DEF HeldApart
  <2> HIDE DEF B
  <2> QED BY <2>1, <2>2, SettleMaps
<1>8. ASSUME NEW skipped \in SUBSET Msg, StartQuery(skipped) PROVE Leases!Next
  <2> DEFINE S == batch \ skipped
             B == batch \cap skipped
  <2>1. /\ rp = "script" /\ rp' \in {"poll", "query"} /\ UNCHANGED <<status, tries>>
        /\ ack' = Acked(skipped, "completed") /\ given' = given \cup S
        /\ skipped \subseteq batch \cap Scripted
    BY <1>8 DEF StartQuery, HandOut, markCompleted, inVars
  <2>2. B = skipped
    BY <2>1
  <2>3. /\ S \in SUBSET Msg /\ S \cap given = {}
        /\ \A m \in S : ack[m] = "processing" /\ status[m] # "failed"
    BY <1>0, <2>1 DEF HeldApart, IInv, ClaimedIsNew
  <2>4. /\ B \in SUBSET Msg
        /\ \A m \in B : ack[m] # "none" /\ status[m] # "failed" /\ m \in Scripted
    BY <1>0, <2>1 DEF HeldApart
  <2> HIDE DEF S, B
  <2> QED BY <2>1, <2>2, <2>3, <2>4, ServeMaps
<1>9. CASE ProviderResult
  <2>1. /\ rp = "query" /\ rp' = rp /\ UNCHANGED <<status, tries, given>>
        /\ ack' = Acked(batch, "completed")
    BY <1>9 DEF ProviderResult, Working, markCompleted, inVars, loopVars
  <2>2. \A m \in batch : ack[m] # "none" /\ m \in given
    BY <1>0, <2>1 DEF HeldApart, IInv, GivenIsClaimed
  <2> QED BY <1>0, <2>1, <2>2, SettleMaps
<1>10. CASE LeaveQuery
  <2>1. /\ rp = "query" /\ rp' = "poll" /\ UNCHANGED <<status, tries, given>>
        /\ ack' = Acked(batch, "completed")
    BY <1>10 DEF LeaveQuery, markCompleted, inVars
  <2>2. \A m \in batch : ack[m] # "none" /\ m \in given
    BY <1>0, <2>1 DEF HeldApart, IInv, GivenIsClaimed
  <2> QED BY <1>0, <2>1, <2>2, SettleMaps
<1>11. ASSUME NEW skipped \in SUBSET Msg, FollowUpPushes(skipped) PROVE Leases!Next
  <2> DEFINE S == fbatch \ skipped
  <2>1. /\ rp = "query" /\ rp' = rp /\ UNCHANGED <<status, tries>>
        /\ ack' = Acked(fbatch, "completed") /\ given' = given \cup S
        /\ skipped \subseteq fbatch \cap Scripted
    BY <1>11 DEF FollowUpPushes, HandOut, markCompleted, inVars
  <2>2. /\ S \in SUBSET Msg /\ S \cap given = {}
        /\ \A m \in S : ack[m] = "processing" /\ status[m] # "failed"
    BY <1>0 DEF HeldApart, IInv, ClaimedIsNew
  <2>3. \A m \in fbatch : ack[m] # "none" /\ status[m] # "failed" /\ m \in S \cup Scripted
    BY <1>0, <2>1 DEF HeldApart
  <2> HIDE DEF S
  <2> QED BY <1>0, <2>1, <2>2, <2>3, ServeMaps
<1>12. ASSUME NEW skipped \in SUBSET Msg, FollowUpFails(skipped) PROVE Leases!Next
  <2>1. /\ rp = "query" /\ rp' = rp /\ UNCHANGED <<status, tries, given>>
        /\ ack' = Acked(skipped, "completed") /\ skipped \subseteq fbatch \cap Scripted
    BY <1>12 DEF FollowUpFails, ReleaseSkipped, markCompleted, inVars
  <2>2. \A m \in skipped : ack[m] # "none" /\ status[m] # "failed" /\ m \in Scripted
    BY <1>0, <2>1 DEF HeldApart
  <2> QED BY <2>1, <2>2, SettleMaps
<1>13. ASSUME NEW B \in strays, NEW skipped \in SUBSET Msg, StrayReturns(B, skipped) PROVE Leases!Next
  <2>1. /\ rp' = rp /\ UNCHANGED <<status, tries, given>>
        /\ ack' = Acked(skipped, "completed") /\ skipped \subseteq B \cap Scripted
    BY <1>13 DEF StrayReturns, ReleaseSkipped, markCompleted, inVars
  <2>2. rp \notin {"off", "boot"}
    BY DEF Engaged
  <2>3. \A m \in skipped : ack[m] # "none" /\ status[m] # "failed" /\ m \in Scripted
    BY <2>1 DEF HeldApart, IInv, HeldIsLive
  <2> QED BY <2>1, <2>2, <2>3, SettleMaps
<1>14. ASSUME NEW m \in Msg, AnswerArrives(m) PROVE Leases!Next
  <2>1. /\ rp' = rp /\ UNCHANGED <<status, tries, given>> /\ ack' = Acked({m}, "completed")
        /\ m \in asked /\ status[m] = "pending"
    BY <1>14 DEF AnswerArrives, markCompleted, inVars
  <2>2. rp = "query" /\ m \in System
    BY <2>1 DEF Engaged
  <2> QED BY <2>1, <2>2, SettleMaps
<1> QED
  BY <1>1, <1>2, <1>3, <1>4, <1>5, <1>6, <1>7, <1>8, <1>9, <1>10, <1>11, <1>12, <1>13, <1>14 DEF Moves

LEMMA StepLeases ==
    ASSUME IInv, IInv', Engaged, HeldApart, [Next]_vars
    PROVE  [Leases!Next]_leaseVars
<1>1. CASE Quiet
  BY <1>1, QuietMaps DEF Quiet, rowVars, heldVars, Consumes
<1>2. CASE Inserts
  BY <1>2, InsertsMaps
<1>3. CASE Ends
  <2>1. UNCHANGED <<LeaseState, tries>> /\ ~Consumes'
    BY <1>3 DEF Ends, RunnerGone, rowVars, LeaseState, Consumes
  <2>2. CASE Consumes
    BY <2>1, <2>2 DEF Leases!Next, Leases!Detach
  <2>3. CASE ~Consumes
    BY <2>1, <2>3 DEF leaseVars, Shown, Consumes
  <2> QED BY <2>2, <2>3
<1>4. CASE Moves
  BY <1>4, MovesMap DEF IInv
<1> QED
  BY <1>1, <1>2, <1>3, <1>4, StepKinds

LEMMA InitLeases == Init => Leases!Init
BY LeaseCases DEF Init, Leases!Init, LeaseState, Consumes

\* Host and runner implement the queue of module LeaseQueue, for any rows, limits and crashes:
\* a container settles what it has shown itself or need not show, shows no row twice, and loses
\* a claim only when it is gone (markProcessing, markCompleted, clearStaleProcessingAcks,
\* resetStuckProcessingRows).
THEOREM ImplementsLeases == Spec => KeepsLeases
<1>1. IInv /\ IInv' /\ Engaged /\ HeldApart /\ [Next]_vars =>
        [Leases!Next]_<<LeaseState, tries, Consumes, IF Consumes THEN given ELSE {}>>
  BY StepLeases DEF leaseVars, Shown
<1> QED
  BY <1>1, InitLeases, Apart, PTL DEF Spec, KeepsLeases, Leases!Spec

\* A row is charged at most MAX_TRIES times, and given up only after that.
LeasesAreBounded ==
    /\ tries \in [Msg -> 0..MAX_TRIES]
    /\ \A m \in Msg : LeaseState[m] = "failed" => tries[m] = MAX_TRIES

\* A row that was settled, done or given up never waits again.
SettledLeasesStay ==
    [][\A m \in Msg : /\ LeaseState[m] \in {"done", "failed"} => LeaseState'[m] = LeaseState[m]
                      /\ LeaseState[m] = "settled" => LeaseState'[m] \in {"settled", "done"}]_leaseVars

\* The promise is strong enough: both follow from the steps of LeaseQueue alone, whatever polls and sweeps
\* carry them out (resetStuckProcessingRows, markCompleted, syncProcessingAcks).
THEOREM LeasesSuffice == KeepsLeases => []LeasesAreBounded /\ SettledLeasesStay
<1> DEFINE Final == \A m \in Msg : /\ LeaseState[m] \in {"done", "failed"} => LeaseState'[m] = LeaseState[m]
                                   /\ LeaseState[m] = "settled" => LeaseState'[m] \in {"settled", "done"}
<1>1. Leases!Init => LeasesAreBounded
  BY Limits DEF Leases!Init, LeasesAreBounded
<1>2. ASSUME LeasesAreBounded, Leases!Next PROVE LeasesAreBounded' /\ Final
  <2>0. LeaseState = [m \in Msg |-> LeaseState[m]]
    BY DEF LeaseState
  <2> USE <1>2, <2>0, Limits DEF LeasesAreBounded, Leases!Moved, Leases!In
  <2>1. ASSUME NEW m \in Msg, Leases!Put(m) PROVE LeasesAreBounded' /\ Final
    BY <2>1 DEF Leases!Put
  <2>2. CASE Leases!Attach
    BY <2>2 DEF Leases!Attach
  <2>3. CASE Leases!Detach
    BY <2>3 DEF Leases!Detach
  <2>4. ASSUME NEW S \in SUBSET Msg, Leases!Lease(S) PROVE LeasesAreBounded' /\ Final
    BY <2>4 DEF Leases!Lease
  <2>5. ASSUME NEW S \in SUBSET Msg, NEW A \in SUBSET Msg, Leases!Serve(S, A) PROVE LeasesAreBounded' /\ Final
    BY <2>5 DEF Leases!Serve
  <2>6. CASE Leases!Confirm
    BY <2>6 DEF Leases!Confirm
  <2>7. ASSUME NEW L \in SUBSET Msg, Leases!Charge(L) PROVE LeasesAreBounded' /\ Final
    <3>1. tries' = [m \in Msg |-> IF m \in L /\ tries[m] < MAX_TRIES THEN tries[m] + 1 ELSE tries[m]]
      BY <2>7 DEF Leases!Charge
    <3>2. PICK freed \in {{}, {m \in Msg : LeaseState[m] = "leased"}} :
            LeaseState' = [m \in Msg |-> IF m \in L /\ tries[m] >= MAX_TRIES THEN "failed"
                                         ELSE IF m \in freed THEN "waiting" ELSE LeaseState[m]]
      BY <2>7 DEF Leases!Charge
    <3>3. \A m \in L : LeaseState[m] = "leased"
      BY <2>7 DEF Leases!Charge
    <3>4. tries' \in [Msg -> 0..MAX_TRIES]
      BY <3>1
    <3>5. \A m \in Msg : LeaseState'[m] = "failed" => tries'[m] = MAX_TRIES
      BY <3>1, <3>2, <3>3
    <3>6. Final
      BY <3>2, <3>3
    <3> QED
      BY <3>4, <3>5, <3>6
  <2> QED
    BY <2>1, <2>2, <2>3, <2>4, <2>5, <2>6, <2>7 DEF Leases!Next
<1>3. LeasesAreBounded /\ UNCHANGED leaseVars => LeasesAreBounded'
  BY DEF LeasesAreBounded, leaseVars
<1>4. LeasesAreBounded /\ [Leases!Next]_leaseVars => LeasesAreBounded' /\ [Final]_leaseVars
  BY <1>2, <1>3
<1>5. KeepsLeases => Leases!Init /\ [][Leases!Next]_leaseVars
  BY DEF KeepsLeases, Leases!Spec, leaseVars, Shown
<1> QED
  BY <1>1, <1>4, <1>5, PTL DEF SettledLeasesStay

=============================================================================
