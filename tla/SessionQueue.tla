---------------------------- MODULE SessionQueue ----------------------------
(***************************************************************************)
(* One session of the system: the host process and the agent runner in the *)
(* session's container, which talk only through two SQLite files.          *)
(*   inbound.db  (host writes)    messages_in: status, tries, process_after*)
(*   outbound.db (runner writes)  processing_ack: the runner's claims      *)
(* The host inserts rows, wakes a container, copies acknowledgements back, *)
(* and kills and retries what is stuck; the runner claims rows, hands them *)
(* to the agent and acknowledges them.  Both are separate processes, so a  *)
(* step of one may fall between any two steps of the other.                *)
(*                                                                         *)
(* Time is abstract: "aged", "beat" and "hb" record the comparisons that   *)
(* decideStuckAction makes, and DelayElapses / ClaimAges / HeartbeatAges   *)
(* move them.                                                              *)
(***************************************************************************)
EXTENDS Naturals, FiniteSets

CONSTANTS
    Msg,        \* rows that may be written to messages_in
    Wake,       \* rows with trigger = 1 (the others are accumulated context)
    OnWake,     \* rows with on_wake = 1, written by a restart
    Task,       \* kind = 'task' rows, written by the scheduling module
    Scripted,   \* task rows that carry a pre-task script
    Command,    \* slash commands the runner treats apart (isRunnerCommand)
    Clear,      \* the /clear commands, which the runner handles itself
    System,     \* kind = 'system' rows: answers to ask_user_question
    MAX_TRIES,  \* retries before a row is failed
    MaxBatch,   \* MAX_MESSAGES_PER_PROMPT
    MaxCrashes  \* bound: crashes of either process, and bare kills, in a behaviour

ASSUME RowKinds ==
    /\ IsFiniteSet(Msg)
    /\ Wake \subseteq Msg /\ OnWake \subseteq Msg /\ Task \subseteq Msg
    /\ Command \subseteq Msg /\ System \subseteq Msg
    /\ Scripted \subseteq Task /\ Clear \subseteq Command

ASSUME Limits == MAX_TRIES \in Nat /\ MaxBatch \in Nat /\ MaxCrashes \in Nat

VARIABLES
    status,   \* messages_in.status ("none": no row yet)
    seq,      \* messages_in.seq, here the rank of the insertion
    tries,    \* messages_in.tries
    deferred, \* rows whose process_after lies in the future
    ack,      \* processing_ack.status ("none": no row)
    aged,     \* claims older than the stuck tolerance
    beat,     \* claims the heartbeat file is newer than
    hb,       \* heartbeat file: "none" (absent), "fresh", "stale" (past the ceiling)
    up,       \* the host process runs
    active,   \* activeContainers has this session
    waking,   \* wakePromises has this session
    sweep,    \* where sweepSession stands
    killing,  \* killContainer is blocked in execSync for a restart
    onExit,   \* the restart's onExit callback is attached to the process
    rp,       \* where runPollLoop stands ("off": no container)
    first,    \* isFirstPoll
    batch,    \* processingIds, the rows of the current outer iteration
    fp,       \* the follow-up poll of the current query
    fbatch,   \* rows that follow-up poll has claimed and not yet pushed
    strays,   \* batches of follow-up polls whose query has already ended
    hung,     \* the provider will emit no further event
    posed,    \* questions with a pending_questions row
    asked,    \* questions a live ask_user_question call is waiting on
    crashes,  \* crashes and bare kills so far (bounded by MaxCrashes)
    handled,  \* history: rows handed to the agent, skipped or answered
    runs,     \* history: how often a row was handed to the agent
    given,    \* history: rows handed to the agent by the current container
    unpaid,   \* history: rows handed out and since then neither charged nor unclaimed
    open      \* history: rows handed out with no result event since

inVars   == <<status, seq, tries, deferred>>
claimVars == <<ack, aged, beat>>
hostVars == <<up, active, waking, sweep, killing, onExit, posed>>
loopVars == <<rp, first, batch, fp, fbatch, strays, hung, asked>>
histVars == <<handled, runs, given, unpaid, open>>
vars == <<inVars, claimVars, hb, hostVars, loopVars, crashes, histVars>>

----------------------------------------------------------------------------
(* What both sides read.                                                   *)

Claims == {m \in Msg : ack[m] = "processing"}

Due == {m \in Msg : status[m] = "pending" /\ m \notin deferred}

\* The host's countDueMessages: accumulated rows do not wake a container.
countDueMessages == Due \cap Wake

\* ORDER BY seq DESC LIMIT MaxBatch.
Newest(S) == {m \in S : Cardinality({n \in S : seq[n] > seq[m]}) < MaxBatch}

\* The window is cut before the acknowledged rows are filtered out of it.
getPendingMessages(isFirst) ==
    {m \in Newest({n \in Due : n \notin OnWake \/ isFirst}) : ack[m] = "none"}

Acked(S, v) == [m \in Msg |-> IF m \in S THEN v ELSE ack[m]]

\* markProcessing: INSERT OR REPLACE with a new status_changed.
markProcessing(S) ==
    /\ ack' = Acked(S, "processing")
    /\ aged' = aged \ S
    /\ beat' = beat \ S

markCompleted(S) ==
    /\ ack' = Acked(S, "completed")
    /\ aged' = aged \ S

\* S: the claims that stand when the heartbeat file is touched.
touchHeartbeat(S) ==
    /\ hb' = "fresh"
    /\ beat' = S

----------------------------------------------------------------------------
(* The host: insertion of rows, waking and closing of the container.       *)

\* The host is inside a synchronous call (execSync of the runtime's stop, or
\* the tail of sweepSession), so no other handler of it can run.
Busy == sweep \in {"sla", "stopping", "reset"} \/ killing

Free == up /\ ~Busy

InsertRow(m, later) ==
    /\ status[m] = "none"
    /\ status' = [status EXCEPT ![m] = "pending"]
    /\ seq' = [seq EXCEPT ![m] = Cardinality({n \in Msg : status[n] # "none"}) + 1]
    /\ deferred' = IF later THEN deferred \cup {m} ELSE deferred
    /\ UNCHANGED tries

wakeContainer == waking' = (waking \/ ~active)

\* deliverToAgent, insertTask: the row is written; a chat row that triggers
\* wakes the container at once, an accumulated row or a task does not.
WriteMessage(m, later) ==
    /\ Free
    /\ m \notin OnWake \cup System
    /\ later => m \in Task
    /\ InsertRow(m, later)
    /\ IF m \in Wake \ Task THEN wakeContainer ELSE UNCHANGED waking
    /\ UNCHANGED <<claimVars, hb, up, active, sweep, killing, onExit, posed, loopVars, crashes, histVars>>

\* handleInteractiveResponse: the answer to a question the agent has asked
\* (asked may have been dropped by then: the user clicks after the timeout).
WriteAnswer(m) ==
    /\ Free
    /\ m \in posed
    /\ InsertRow(m, FALSE)
    /\ posed' = posed \ {m}
    /\ wakeContainer
    /\ UNCHANGED <<claimVars, hb, up, active, sweep, killing, onExit, loopVars, crashes, histVars>>

\* spawnContainer reaches spawn(): the old heartbeat file is removed and the
\* session becomes active in the same turn of the event loop.
SpawnContainer ==
    /\ Free /\ waking
    /\ waking' = FALSE
    /\ active' = TRUE
    /\ hb' = "none"
    /\ beat' = {}
    /\ rp' = "boot"
    /\ first' = TRUE
    /\ given' = {}
    /\ sweep' = IF sweep = "waking" THEN "sla" ELSE sweep
    /\ UNCHANGED <<inVars, ack, aged, up, killing, onExit, posed, batch, fp, fbatch, strays,
                   hung, asked, crashes, handled, runs, unpaid, open>>

\* A transient spawn failure: wakeContainer resolves to false.
SpawnFails ==
    /\ Free /\ waking
    /\ waking' = FALSE
    /\ sweep' = IF sweep = "waking" THEN "sla" ELSE sweep
    /\ UNCHANGED <<inVars, claimVars, hb, up, active, killing, onExit, posed, loopVars, crashes, histVars>>

\* The runner process is gone: nothing of its memory survives.
RunnerGone ==
    /\ rp' = "off"
    /\ first' = FALSE
    /\ batch' = {} /\ fp' = "idle" /\ fbatch' = {} /\ strays' = {}
    /\ hung' = FALSE
    /\ asked' = {}
    /\ open' = {}

\* stopContainer returns once the runtime has stopped the container.
stopContainer == RunnerGone

\* The process of the container has emitted close.
Closed == active /\ rp = "off"

\* The close handler; a restart's onExit callback wakes a fresh container.
ContainerCloses ==
    /\ Free
    /\ Closed
    /\ active' = FALSE
    /\ onExit' = FALSE
    /\ waking' = (waking \/ onExit)
    /\ UNCHANGED <<inVars, claimVars, hb, up, sweep, killing, posed, loopVars,
                   crashes, histVars>>

\* restartAgentGroupContainers with a wake message writes the on_wake row and
\* calls killContainer, which blocks in execSync until the container stopped.
RestartGroup(m) ==
    /\ Free
    /\ active
    /\ m \in OnWake
    /\ InsertRow(m, FALSE)
    /\ killing' = TRUE
    /\ onExit' = TRUE
    /\ UNCHANGED <<claimVars, hb, up, active, waking, sweep, posed, loopVars,
                   crashes, histVars>>

\* Without one, the container is only killed.
KillGroup ==
    /\ Free
    /\ active /\ rp # "off"
    /\ crashes < MaxCrashes
    /\ crashes' = crashes + 1
    /\ killing' = TRUE
    /\ UNCHANGED <<inVars, claimVars, hb, up, active, waking, sweep, onExit, posed,
                   loopVars, histVars>>

KillReturns ==
    /\ up /\ killing
    /\ killing' = FALSE
    /\ stopContainer
    /\ UNCHANGED <<inVars, claimVars, hb, up, active, waking, sweep, onExit, posed,
                   crashes, handled, runs, given, unpaid>>

----------------------------------------------------------------------------
(* The host sweep of this session.                                         *)

\* Mutant: acknowledgements are copied only once the container is gone.
syncProcessingAcks_WhenIdle ==
    status' = [m \in Msg |-> IF ack[m] = "completed" /\ ~active THEN "completed" ELSE status[m]]

syncProcessingAcks ==
    status' = [m \in Msg |-> IF ack[m] = "completed" THEN "completed" ELSE status[m]]

\* Steps 1 and 2 of sweepSession: copy the acknowledgements, then wake a
\* container if a row is due and none is running.
SweepSync ==
    /\ Free /\ sweep = "idle"
    /\ syncProcessingAcks
    /\ LET due == {m \in countDueMessages : ack[m] # "completed"}
       IN IF due # {} /\ ~active
            THEN waking' = TRUE /\ sweep' = "waking"
            ELSE sweep' = "sla" /\ UNCHANGED waking
    /\ UNCHANGED <<seq, tries, deferred, claimVars, hb, up, active, killing, onExit, posed,
                   loopVars, crashes, histVars>>

\* decideStuckAction.
PastCeiling == hb = "stale"

\* Mutant: only the absolute ceiling is enforced.
StuckClaims_CeilingOnly == {}

StuckClaims == {m \in Claims : m \in aged /\ m \notin beat}

\* enforceRunningContainerSla: killContainer blocks in execSync.
SweepKills ==
    /\ up /\ sweep = "sla"
    /\ active
    /\ PastCeiling \/ StuckClaims # {}
    /\ sweep' = "stopping"
    /\ UNCHANGED <<inVars, claimVars, hb, up, active, waking, killing, onExit, posed, loopVars,
                   crashes, histVars>>

SweepStops ==
    /\ up /\ sweep = "stopping"
    /\ sweep' = "reset"
    /\ stopContainer
    /\ UNCHANGED <<inVars, claimVars, hb, up, active, waking, killing, onExit, posed, crashes,
                   handled, runs, given, unpaid>>

\* A healthy container, or (step 4) none running: go on to the reset.
SweepFindsAlive ==
    /\ up /\ sweep = "sla"
    /\ active /\ ~PastCeiling /\ StuckClaims = {}
    /\ sweep' = "idle"
    /\ UNCHANGED <<inVars, claimVars, hb, up, active, waking, killing, onExit, posed, loopVars,
                   crashes, histVars>>

SweepFindsDead ==
    /\ up /\ sweep = "sla"
    /\ ~active
    /\ sweep' = "reset"
    /\ UNCHANGED <<inVars, claimVars, hb, up, active, waking, killing, onExit, posed, loopVars,
                   crashes, histVars>>

\* Mutant: a row already put off is charged again.
Lost_Again == {m \in Claims : status[m] = "pending"}

\* Mutant: only claims past the tolerance are charged.
Lost_AgedOnly == {m \in Claims : status[m] = "pending" /\ m \notin deferred /\ m \in aged}

\* The rows resetStuckProcessingRows charges: claimed, still pending and not
\* already put off.
Lost == {m \in Claims : status[m] = "pending" /\ m \notin deferred}

Exhausted == {m \in Lost : tries[m] >= MAX_TRIES}

\* resetStuckProcessingRows: a lost row is charged a try and put off, or
\* failed; then the claims are dropped,
\* unless outbound.db cannot be opened for writing (deleted = FALSE).
resetStuckProcessingRows(deleted) ==
    /\ up /\ sweep = "reset"
    /\ status' = [m \in Msg |-> IF m \in Exhausted THEN "failed" ELSE status[m]]
    /\ tries' = [m \in Msg |-> IF m \in Lost \ Exhausted THEN tries[m] + 1 ELSE tries[m]]
    /\ deferred' = deferred \cup (Lost \ Exhausted)
    /\ IF deleted
         THEN ack' = Acked(Claims, "none") /\ aged' = {} /\ beat' = {}
         ELSE UNCHANGED claimVars
    /\ sweep' = "idle"
    /\ unpaid' = unpaid \ Lost
    /\ UNCHANGED <<seq, hb, up, active, waking, killing, onExit, posed, loopVars, crashes,
                   handled, runs, given, open>>

\* process_after has passed.
DelayElapses(m) ==
    /\ m \in deferred
    /\ deferred' = deferred \ {m}
    /\ UNCHANGED <<status, seq, tries, claimVars, hb, hostVars, loopVars, crashes, histVars>>

ClaimAges(m) ==
    /\ m \in Claims \ aged
    /\ aged' = aged \cup {m}
    /\ UNCHANGED <<inVars, ack, beat, hb, hostVars, loopVars, crashes, histVars>>

HeartbeatAges ==
    /\ hb = "fresh"
    /\ hb' = "stale"
    /\ UNCHANGED <<inVars, claimVars, hostVars, loopVars, crashes, histVars>>

\* The host dies; its containers do not.
HostCrashes ==
    /\ up /\ crashes < MaxCrashes
    /\ crashes' = crashes + 1
    /\ up' = FALSE /\ active' = FALSE /\ waking' = FALSE
    /\ sweep' = "idle" /\ killing' = FALSE /\ onExit' = FALSE
    /\ UNCHANGED <<inVars, claimVars, hb, posed, loopVars, histVars>>

\* Mutant: containers of an earlier host are left alone.
cleanupOrphans_Missing == UNCHANGED <<loopVars, open>>

\* Every container an earlier host has left running is stopped.
cleanupOrphans == RunnerGone

\* main(): the orphans are gone before any poll or sweep starts.
HostStarts ==
    /\ ~up
    /\ up' = TRUE
    /\ cleanupOrphans
    /\ UNCHANGED <<inVars, claimVars, hb, active, waking, sweep, killing, onExit, posed, crashes,
                   handled, runs, given, unpaid>>

----------------------------------------------------------------------------
(* The agent runner in the container.                                      *)

\* The runner exits: crash, or exit(75) on a poisoned page cache.
RunnerCrashes ==
    /\ rp # "off" /\ crashes < MaxCrashes
    /\ crashes' = crashes + 1
    /\ RunnerGone
    /\ UNCHANGED <<inVars, claimVars, hb, hostVars, handled, runs, given, unpaid>>

clearStaleProcessingAcks ==
    /\ rp = "boot"
    /\ ack' = Acked(Claims, "none") /\ aged' = {} /\ beat' = {}
    /\ rp' = "poll"
    /\ unpaid' = unpaid \ Claims
    /\ UNCHANGED <<inVars, hb, hostVars, first, batch, fp, fbatch, strays, hung,
                   asked, crashes, handled, runs, given, open>>

\* One iteration's read.  A batch with no triggering row is left alone.
Poll ==
    /\ rp = "poll"
    /\ first' = FALSE
    /\ LET messages == getPendingMessages(first) \ System
       IN IF messages \cap Wake # {}
            THEN /\ markProcessing(messages)
                 /\ batch' = messages
                 /\ rp' = "claimed"
            ELSE UNCHANGED <<claimVars, batch, rp>>
    /\ UNCHANGED <<inVars, hb, hostVars, fp, fbatch, strays, hung, asked, crashes,
                   histVars>>

\* Mutant: a batch with a /clear in it is completed as a whole.
commandIds_WholeBatch == IF batch \cap Clear = {} THEN {} ELSE batch

commandIds == batch \cap Clear

\* /clear is answered by the runner; the rest of the batch goes on.
HandleCommands ==
    /\ rp = "claimed"
    /\ markCompleted(commandIds)
    /\ beat' = beat \ commandIds
    /\ handled' = handled \cup (batch \cap Clear)
    /\ batch' = batch \ commandIds
    /\ rp' = IF batch' = {} THEN "poll" ELSE "script"
    /\ UNCHANGED <<inVars, hb, hostVars, first, fp, fbatch, strays, hung, asked,
                   crashes, runs, given, unpaid, open>>

\* applyPreTaskScripts on the rows B: every script touches the heartbeat; S
\* are the claims that stand afterwards.
ScriptsTouch(B, S) ==
    IF B \cap Scripted # {} THEN touchHeartbeat(S) ELSE beat' = beat \cap S /\ UNCHANGED hb

\* Mutant: all rows of the poll are completed.
ReleaseSkipped_All(B, skipped) ==
    /\ skipped \subseteq B \cap Scripted
    /\ markCompleted(B)
    /\ ScriptsTouch(B, Claims \ B)
    /\ handled' = handled \cup B

\* Rows gated by their own script are completed without the agent.
ReleaseSkipped(B, skipped) ==
    /\ skipped \subseteq B \cap Scripted
    /\ markCompleted(skipped)
    /\ ScriptsTouch(B, Claims \ skipped)
    /\ handled' = handled \cup skipped

\* The rows go into a prompt.
HandOut(S) ==
    /\ runs' = [m \in Msg |-> IF m \in S THEN runs[m] + 1 ELSE runs[m]]
    /\ given' = given \cup S
    /\ unpaid' = unpaid \cup S

\* The pre-task scripts have run: those that said wakeAgent = false are
\* completed, the rest is the prompt of a new query.
StartQuery(skipped) ==
    /\ rp = "script"
    /\ skipped \subseteq batch \cap Scripted
    /\ LET keep == batch \ skipped
       IN /\ markCompleted(skipped)
          /\ ScriptsTouch(batch, Claims \ skipped)
          /\ handled' = handled \cup batch
          /\ HandOut(keep)
          /\ open' = keep
          /\ batch' = keep
          /\ rp' = IF keep = {} THEN "poll" ELSE "query"
    /\ fp' = "idle" /\ fbatch' = {}
    /\ UNCHANGED <<inVars, hostVars, first, strays, hung, asked, crashes>>

\* A turn is in progress and the provider is alive.
Working == rp = "query" /\ open # {} /\ ~hung

ProviderEvent ==
    /\ Working
    /\ hb # "fresh" \/ beat # Claims
    /\ touchHeartbeat(Claims)
    /\ UNCHANGED <<inVars, ack, aged, hostVars, loopVars, crashes, histVars>>

ProviderHangs ==
    /\ Working
    /\ hung' = TRUE
    /\ UNCHANGED <<inVars, claimVars, hb, hostVars, rp, first, batch, fp, fbatch,
                   strays, asked, crashes, histVars>>

\* A result event completes the initial batch; the stream stays open.
ProviderResult ==
    /\ Working
    /\ asked = {}
    /\ markCompleted(batch)
    /\ touchHeartbeat(Claims \ batch)
    /\ open' = {}
    /\ UNCHANGED <<inVars, hostVars, loopVars, crashes, handled, runs, given, unpaid>>

\* The event stream is over.  Either way out of processQuery leads to
\* markCompleted(processingIds); a follow-up poll that still awaits its
\* scripts outlives the query it belongs to.
LeaveQuery ==
    /\ rp = "query" /\ ~hung
    /\ markCompleted(batch)
    /\ beat' = beat \ batch
    /\ rp' = "poll"
    /\ strays' = IF fp = "script" THEN strays \cup {fbatch} ELSE strays
    /\ batch' = {} /\ fp' = "idle" /\ fbatch' = {}
    /\ open' = {} /\ asked' = {}
    /\ UNCHANGED <<inVars, hb, hostVars, first, hung, crashes, handled, runs,
                   given, unpaid>>

QueryEnds == LeaveQuery /\ (open = {} \/ fp = "ended")

QueryErrors == LeaveQuery /\ open # {}

----------------------------------------------------------------------------
(* The follow-up poll of an open query.                                    *)

\* A slash command ends the stream and is left to the outer loop.
FollowUpSeesCommand ==
    /\ rp = "query" /\ fp = "idle"
    /\ getPendingMessages(FALSE) \cap Command # {}
    /\ fp' = "ended"
    /\ UNCHANGED <<inVars, claimVars, hb, hostVars, rp, first, batch, fbatch,
                   strays, hung, asked, crashes, histVars>>

FollowUpClaims ==
    /\ rp = "query" /\ fp = "idle"
    /\ getPendingMessages(FALSE) \cap Command = {}
    /\ LET newMessages == getPendingMessages(FALSE) \ System
       IN /\ newMessages # {}
          /\ markProcessing(newMessages)
          /\ fbatch' = newMessages
    /\ fp' = "script"
    /\ UNCHANGED <<inVars, hb, hostVars, rp, first, batch, strays, hung, asked,
                   crashes, histVars>>

\* The scripts are done and the query is still open: the surviving rows are
\* pushed into it and acknowledged on the spot.
FollowUpPushes(skipped) ==
    /\ rp = "query" /\ fp = "script"
    /\ skipped \subseteq fbatch \cap Scripted
    /\ LET keep == fbatch \ skipped
       IN /\ markCompleted(fbatch)
          /\ ScriptsTouch(fbatch, Claims \ fbatch)
          /\ handled' = handled \cup fbatch
          /\ HandOut(keep)
          /\ open' = open \cup keep
    /\ fp' = "idle" /\ fbatch' = {}
    /\ UNCHANGED <<inVars, hostVars, rp, first, batch, strays, hung, asked,
                   crashes>>

\* Formatting or pushing threw after the scripts: the error is logged, the
\* rows that were not skipped stay claimed.
FollowUpFails(skipped) ==
    /\ rp = "query" /\ fp = "script"
    /\ ReleaseSkipped(fbatch, skipped)
    /\ fp' = "idle" /\ fbatch' = {}
    /\ UNCHANGED <<inVars, hostVars, rp, first, batch, strays, hung, asked,
                   crashes, runs, given, unpaid, open>>

\* The scripts are done but the query has ended meanwhile ("if (done)
\* return"): skipped rows are completed, the others stay claimed.
StrayReturns(B, skipped) ==
    /\ B \in strays
    /\ ReleaseSkipped(B, skipped)
    /\ strays' = strays \ {B}
    /\ UNCHANGED <<inVars, hostVars, rp, first, batch, fp, fbatch, hung, asked,
                   crashes, runs, given, unpaid, open>>

----------------------------------------------------------------------------
(* ask_user_question, an MCP tool of the agent.                            *)

\* The question card goes out and the host records it; the answer will be
\* row m.
Ask(m) ==
    /\ Working /\ up
    /\ m \in System \ posed
    /\ status[m] = "none"
    /\ asked' = asked \cup {m}
    /\ posed' = posed \cup {m}
    /\ UNCHANGED <<inVars, claimVars, hb, up, active, waking, sweep, killing, onExit,
                   rp, first, batch, fp, fbatch, strays, hung, crashes, histVars>>

AnswerArrives(m) ==
    /\ m \in asked
    /\ status[m] = "pending" /\ ack[m] = "none"
    /\ markCompleted({m})
    /\ asked' = asked \ {m}
    /\ handled' = handled \cup {m}
    /\ UNCHANGED <<inVars, beat, hb, hostVars, rp, first, batch, fp, fbatch,
                   strays, hung, crashes, runs, given, unpaid, open>>

QuestionTimesOut(m) ==
    /\ m \in asked
    /\ asked' = asked \ {m}
    /\ UNCHANGED <<inVars, claimVars, hb, hostVars, rp, first, batch, fp, fbatch,
                   strays, hung, crashes, histVars>>

----------------------------------------------------------------------------
Init ==
    /\ status = [m \in Msg |-> "none"]
    /\ seq = [m \in Msg |-> 0]
    /\ tries = [m \in Msg |-> 0]
    /\ deferred = {}
    /\ ack = [m \in Msg |-> "none"]
    /\ aged = {} /\ beat = {} /\ hb = "none"
    /\ up = TRUE /\ active = FALSE /\ waking = FALSE
    /\ sweep = "idle" /\ killing = FALSE /\ onExit = FALSE /\ posed = {}
    /\ rp = "off" /\ first = FALSE
    /\ batch = {} /\ fp = "idle" /\ fbatch = {} /\ strays = {}
    /\ hung = FALSE /\ asked = {}
    /\ crashes = 0
    /\ handled = {} /\ runs = [m \in Msg |-> 0] /\ given = {}
    /\ unpaid = {} /\ open = {}

Sweep ==
    \/ SweepSync \/ SweepKills \/ SweepStops \/ SweepFindsAlive \/ SweepFindsDead
    \/ \E deleted \in BOOLEAN : resetStuckProcessingRows(deleted)

Host ==
    \/ \E m \in Msg, later \in BOOLEAN : WriteMessage(m, later)
    \/ \E m \in Msg : WriteAnswer(m) \/ RestartGroup(m)
    \/ SpawnContainer \/ SpawnFails \/ ContainerCloses \/ KillGroup \/ KillReturns
    \/ Sweep
    \/ HostCrashes \/ HostStarts

Time ==
    \/ \E m \in Msg : DelayElapses(m) \/ ClaimAges(m)
    \/ HeartbeatAges

Loop ==
    \/ clearStaleProcessingAcks \/ Poll \/ HandleCommands
    \/ \E S \in SUBSET Msg : StartQuery(S)
    \/ ProviderEvent \/ ProviderHangs \/ ProviderResult \/ QueryEnds \/ QueryErrors

FollowUp ==
    \/ FollowUpSeesCommand \/ FollowUpClaims
    \/ \E S \in SUBSET Msg : FollowUpPushes(S) \/ FollowUpFails(S)
    \/ \E B \in strays : \E S \in SUBSET Msg : StrayReturns(B, S)

Tool == \E m \in Msg : Ask(m) \/ AnswerArrives(m) \/ QuestionTimesOut(m)

Next == Host \/ Time \/ Loop \/ FollowUp \/ Tool \/ RunnerCrashes

Spec == Init /\ [][Next]_vars
----------------------------------------------------------------------------
(* Fairness.  Both loops run on timers, so every step they can take is     *)
(* taken; a spawn or a claim cleanup that fails is tried again and assumed  *)
(* to succeed at some point.  The provider either ends its turn or falls   *)
(* silent for good (ProviderHangs); users, restarts and crashes are free.  *)
Fairness ==
    /\ WF_vars(SweepSync) /\ WF_vars(SweepKills) /\ WF_vars(SweepStops)
    /\ WF_vars(SweepFindsAlive) /\ WF_vars(SweepFindsDead)
    /\ SF_vars(resetStuckProcessingRows(TRUE))
    /\ SF_vars(SpawnContainer)
    /\ SF_vars(ContainerCloses) /\ WF_vars(KillReturns) /\ WF_vars(HostStarts)
    /\ \A m \in Msg : WF_vars(DelayElapses(m)) /\ WF_vars(ClaimAges(m))
    /\ WF_vars(HeartbeatAges)
    /\ WF_vars(clearStaleProcessingAcks) /\ WF_vars(Poll) /\ WF_vars(HandleCommands)
    /\ WF_vars(\E S \in SUBSET Msg : StartQuery(S))
    /\ WF_vars(ProviderResult) /\ WF_vars(fp = "ended" /\ QueryEnds)
    /\ WF_vars(FollowUpSeesCommand) /\ WF_vars(FollowUpClaims)
    /\ WF_vars(\E S \in SUBSET Msg : FollowUpPushes(S))
    /\ \A m \in Msg : WF_vars(QuestionTimesOut(m))

FairSpec == Spec /\ Fairness

----------------------------------------------------------------------------
(* Properties.                                                             *)

\* The two database files.
TypeRows ==
    /\ status \in [Msg -> {"none", "pending", "completed", "failed"}]
    /\ seq \in [Msg -> Nat]
    /\ tries \in [Msg -> 0..MAX_TRIES]
    /\ deferred \subseteq Msg
    /\ ack \in [Msg -> {"none", "processing", "completed"}]
    /\ aged \subseteq Msg /\ beat \subseteq Msg

\* The host, the heartbeat file and the crash bound.
TypeHost ==
    /\ hb \in {"none", "fresh", "stale"}
    /\ up \in BOOLEAN /\ active \in BOOLEAN /\ waking \in BOOLEAN
    /\ sweep \in {"idle", "waking", "sla", "stopping", "reset"}
    /\ killing \in BOOLEAN /\ onExit \in BOOLEAN
    /\ posed \subseteq Msg
    /\ crashes \in 0..MaxCrashes

\* The runner and the history of its deeds.
TypeRunner ==
    /\ rp \in {"off", "boot", "poll", "claimed", "script", "query"}
    /\ first \in BOOLEAN /\ hung \in BOOLEAN
    /\ fp \in {"idle", "script", "ended"}
    /\ batch \subseteq Msg /\ fbatch \subseteq Msg /\ asked \subseteq Msg
    /\ strays \subseteq SUBSET Msg
    /\ handled \subseteq Msg /\ given \subseteq Msg /\ unpaid \subseteq Msg
    /\ open \subseteq Msg
    /\ runs \in [Msg -> Nat]

\* Every variable keeps its type; resetStuckProcessingRows never charges a row
\* beyond MAX_TRIES.
TypeOK == TypeRows /\ TypeHost /\ TypeRunner

\* Whenever the host takes the container for gone (and so wakes another one,
\* or edits outbound.db), the runner process really is gone: activeContainers
\* never forgets a running container (container-runner.ts, index.ts).
HostKnowsRunner == up /\ ~active => rp = "off"

\* The host writes outbound.db only while no runner has it open: "safe
\* because the host only writes to outbound.db when no container is running"
\* (deleteOrphanProcessingClaims).
HostWritesAlone == sweep = "reset" => rp = "off"

\* No row is reported done that nobody dealt with: a completed inbound row
\* was acknowledged by a runner, and an acknowledged row was handed to the
\* agent, gated by its own script, a /clear, or an answer that was read.
CompletedWasHandled ==
    \A m \in Msg : /\ status[m] = "completed" => ack[m] = "completed"
                   /\ ack[m] = "completed" => m \in handled

\* The host gives a row up only once its tries are used up, and no runner
\* has acknowledged a row the host has given up.
FailedIsExhausted ==
    \A m \in Msg : status[m] = "failed" => tries[m] = MAX_TRIES /\ ack[m] # "completed"

\* A row goes into a prompt again only when its claim was lost in between: the
\* host charged the row for it, or the next runner found the claim at its start
\* and dropped it (a wake that overtakes the sweep's cleanup).  In particular one
\* container hands a row to the agent at most once, whatever polls, follow-up
\* polls, script waits and errors lie between.
ReshownIsPaid ==
    [][\A m \in Msg : runs'[m] # runs[m] => m \notin unpaid]_vars

\* A row leaves "completed" or "failed" never: a late acknowledgement, a
\* second sweep or a retry does not revive or overturn a settled row.
SettledIsFinal ==
    [][\A m \in Msg : status[m] \in {"completed", "failed"} => status'[m] = status[m]]_vars

\* A row is charged or failed only for a claim that its runner has lost, and
\* at most once per delay, although several sweeps may see the same claim
\* (after a cleanup that failed, or a host that died before it).
ChargedOncePerDelay ==
    [][\A m \in Msg :
          tries'[m] # tries[m] \/ (status'[m] = "failed" /\ status[m] # "failed")
             => m \in Claims \ deferred /\ rp = "off"]_vars

\* A chat, task or command row that wakes a container is in the end completed
\* or failed, through crashes, hung providers, failing spawns and restarts.
RowSettles ==
    \A m \in Wake \ (OnWake \cup System) :
        status[m] = "pending" ~> status[m] \in {"completed", "failed"}

\* Once a row is acknowledged, the host learns of it.
AckIsSynced ==
    \A m \in Msg : ack[m] = "completed" ~> status[m] = "completed"

----------------------------------------------------------------------------
(* The promise of the two files.                                           *)

\* What status and processing_ack together say of a row.
LeaseOf(s, a) ==
    CASE s = "none"      -> "none"
      [] s = "failed"    -> "failed"
      [] s = "completed" -> "done"
      [] s = "pending" /\ a = "none"       -> "waiting"
      [] s = "pending" /\ a = "processing" -> "leased"
      [] s = "pending" /\ a = "completed"  -> "settled"

LeaseState == [m \in Msg |-> LeaseOf(status[m], ack[m])]

\* A runner takes part once it has dropped the claims of its predecessor.
Consumes == rp \notin {"off", "boot"}

Leases == INSTANCE LeaseQueue
    WITH state <- LeaseState, consumer <- Consumes, shown <- IF Consumes THEN given ELSE {},
         Unshown <- Scripted \cup Clear \cup System, Direct <- System

\* Sweep, retries and the runner's loops implement the queue of module LeaseQueue: a container
\* settles only rows it showed to the agent itself (or that need no showing), shows none twice,
\* and claims are dropped and charged only when their container is gone.
KeepsLeases == Leases!Spec

----------------------------------------------------------------------------
(* The inductive invariant that the safety properties rest on.             *)

\* A dead runner holds nothing.
DeadHoldsNothing == rp = "off" => batch = {} /\ fbatch = {} /\ strays = {}

\* The batch that an event of the query may acknowledge was handed to it.
QueryHoldsHandled == rp = "query" => batch \subseteq handled

\* What a runner holds, the host has not given up.
HeldIsLive ==
    /\ \A m \in batch \cup fbatch : status[m] # "failed"
    /\ \A B \in strays : \A m \in B : status[m] # "failed"

\* While a runner polls, the rows it has handed out cannot be polled again.
GivenIsClaimed ==
    /\ rp = "boot" => given = {}
    /\ rp \notin {"off", "boot"} => \A m \in given : ack[m] # "none"

\* What is not yet in a prompt is claimed, and this container never handed it
\* out.
ClaimedIsNew ==
    /\ rp \in {"claimed", "script"} =>
          batch \cap given = {} /\ \A m \in batch : ack[m] # "none"
    /\ fbatch \cap given = {}

IInv ==
    /\ TypeOK
    /\ HostKnowsRunner /\ HostWritesAlone
    /\ DeadHoldsNothing /\ QueryHoldsHandled
    /\ CompletedWasHandled /\ HeldIsLive /\ FailedIsExhausted
    /\ GivenIsClaimed /\ ClaimedIsNew

----------------------------------------------------------------------------
(* What the repository's own comments and documents say, and the code does *)
(* not do.                                                                 *)

\* poll-loop.ts:334-336: if something is stuck "the host will kill the
\* container and messages get reset to pending".
UnansweredIsRetried ==
    [][rp # "off" /\ rp' = "off" => \A m \in open : ack'[m] # "completed"]_vars

=============================================================================
