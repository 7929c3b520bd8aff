----------------------------- MODULE Scheduling -----------------------------
(***************************************************************************)
(* The tasks of one session.  A task is a row of messages_in; a recurring  *)
(* one becomes a series: whenever the sweep finds a completed row that     *)
(* still has a recurrence, it inserts a row for the next occurrence and    *)
(* clears the recurrence of the old one.  The agent changes tasks by       *)
(* system rows of messages_out, which delivery hands to the handlers of    *)
(* this module later: by then the occurrence the agent saw may be in work, *)
(* done or replaced, and a handler may fail, be retried after newer        *)
(* requests, or be applied again after a crash.                            *)
(* Runner, sweep and delivery are those of SessionQueue and Delivery, cut  *)
(* down to what they do to a task.                                         *)
(***************************************************************************)
EXTENDS Naturals, Sequences, FiniteSets

CONSTANTS
    Series,         \* tasks an agent may schedule; the id of a series is that of its first row
    Recurring,      \* those scheduled with a cron expression
    MAX_TRIES,
    MaxOccurrences, \* bound: rows of a series
    MaxRequests,    \* bound: requests of the agent in a behaviour
    MaxFaults       \* bound: failed or repeated steps of the host

ASSUME Tasks == Recurring \subseteq Series
ASSUME Bounds == /\ MAX_TRIES \in Nat /\ MaxOccurrences \in Nat \ {0}
                 /\ MaxRequests \in Nat /\ MaxFaults \in Nat

Rows == Series \X (1..MaxOccurrences)

\* Requests carry the id of a row; "cron" says what an update does to the recurrence.
Request == [op : {"schedule", "cancel", "pause", "resume", "update"},
            id : Rows, cron : {"kept", "set", "cleared"}]

VARIABLES
    status,   \* messages_in.status ("none": no row)
    recur,    \* rows with a recurrence
    due,      \* rows whose process_after has passed
    tries,
    ack,      \* processing_ack.status
    alive,    \* a runner works on the session
    polled,   \* rows the runner has read and not yet claimed
    outbox,   \* system rows of messages_out, undelivered
    asked,    \* requests so far (bounded by MaxRequests)
    sweep,    \* where sweepSession stands: "idle", "synced", "reset", "cloning"
    todo,     \* the rows handleRecurrence has left of its snapshot
    faults,   \* failed or repeated steps so far (bounded by MaxFaults)
    torn,     \* history: series with a row inserted and the old one not cleared
    wanted,   \* history: series that recur, not stopped by a request or a failure
    ended,    \* history: series cancelled while no occurrence awaited its successor
    calm      \* history: series paused while no occurrence was in work, and not resumed

rowVars == <<status, recur, due, tries>>
runnerVars == <<ack, alive, polled>>
sweepVars == <<sweep, todo>>
histVars == <<torn, wanted, ended, calm>>
vars == <<rowVars, runnerVars, outbox, asked, sweepVars, faults, histVars>>

Live(r) == status[r] \in {"pending", "paused"}

\* getCompletedRecurring: occurrences whose successor is still to be inserted.
Unsucceeded == {r \in recur : status[r] = "completed"}

Of(s) == {r \in Rows : r[1] = s}

\* No occurrence of the series is in the hands of a runner or between completion and successor.
AtRest(s) ==
    /\ Unsucceeded \cap Of(s) = {}
    /\ polled \cap Of(s) = {}
    /\ \A r \in Of(s) : Live(r) => ack[r] = "none"

Fault == faults < MaxFaults /\ faults' = faults + 1

------------------------------------------------------------------------------
(* Handlers of the requests.  id = ? OR series_id = ?, for live rows.      *)

\* Mutant: only the row with that very id.
Matched_ById(id) == {r \in Rows : Live(r) /\ r = id}

Matched(id) == {r \in Rows : Live(r) /\ (r = id \/ (id[2] = 1 /\ r[1] = id[1]))}

\* Mutant: a second insertion replaces the row.
insertTask_Replaces(id) ==
    /\ status' = [status EXCEPT ![id] = "pending"]
    /\ recur' = IF id[1] \in Recurring THEN recur \cup {id} ELSE recur
    /\ wanted' = IF id[1] \in Recurring THEN wanted \cup {id[1]} ELSE wanted
    /\ UNCHANGED <<due, ended, calm>>

\* The id is a primary key: a second insertion throws and changes nothing.
insertTask(id) ==
    /\ status[id] = "none"
    /\ status' = [status EXCEPT ![id] = "pending"]
    /\ recur' = IF id[1] \in Recurring THEN recur \cup {id} ELSE recur
    /\ wanted' = IF id[1] \in Recurring THEN wanted \cup {id[1]} ELSE wanted
    /\ UNCHANGED <<due, ended, calm>>

\* Mutant: the recurrence is left in place.
Cancelled_KeepsRecurrence(M) ==
    /\ status' = [r \in Rows |-> IF r \in M THEN "completed" ELSE status[r]]
    /\ UNCHANGED recur

Cancelled(M) ==
    /\ status' = [r \in Rows |-> IF r \in M THEN "completed" ELSE status[r]]
    /\ recur' = recur \ M

cancelTask(id) ==
    /\ Cancelled(Matched(id))
    /\ wanted' = wanted \ {r[1] : r \in Matched(id)}
    /\ ended' = IF /\ id[2] = 1 /\ Unsucceeded \cap Of(id[1]) = {}
                   /\ \E r \in Of(id[1]) : Live(r)
                THEN ended \cup {id[1]} ELSE ended
    /\ UNCHANGED <<due, calm>>

pauseTask(id) ==
    /\ status' = [r \in Rows |-> IF r \in Matched(id) THEN "paused" ELSE status[r]]
    /\ calm' = calm \cup {s \in Series : id = <<s, 1>> /\ AtRest(s) /\ \E r \in Of(s) : Live(r)}
    /\ UNCHANGED <<recur, due, wanted, ended>>

resumeTask(id) ==
    /\ status' = [r \in Rows |-> IF r \in Matched(id) THEN "pending" ELSE status[r]]
    /\ calm' = calm \ {id[1]}
    /\ UNCHANGED <<recur, due, wanted, ended>>

\* An update may also move the row to a later time.  Prompt and script are data.
updateTask(id, cron) ==
    LET M == Matched(id) IN
    /\ recur' = CASE cron = "kept"    -> recur
                  [] cron = "set"     -> recur \cup M
                  [] cron = "cleared" -> recur \ M
    /\ \E moved \in {{}, M} : due' = due \ moved
    /\ wanted' = IF M = {} \/ cron = "kept" THEN wanted
                 ELSE IF cron = "set" THEN wanted \cup {id[1]} ELSE wanted \ {id[1]}
    /\ UNCHANGED <<status, ended, calm>>

Handler(q) ==
    \/ q.op = "schedule" /\ insertTask(q.id)
    \/ q.op = "cancel" /\ cancelTask(q.id)
    \/ q.op = "pause" /\ pauseTask(q.id)
    \/ q.op = "resume" /\ resumeTask(q.id)
    \/ q.op = "update" /\ updateTask(q.id, q.cron)

------------------------------------------------------------------------------
(* The agent and its runner.                                               *)

\* The tools write a system row; an id is new or one the agent has been told.
AgentAsks(q) ==
    /\ alive /\ asked < MaxRequests
    /\ IF q.op = "schedule"
       THEN q.id[2] = 1 /\ status[q.id] = "none" /\ \A i \in DOMAIN outbox : outbox[i].id # q.id
       ELSE status[q.id] # "none"
    /\ q.op # "update" => q.cron = "kept"
    /\ outbox' = Append(outbox, q)
    /\ asked' = asked + 1
    /\ UNCHANGED <<rowVars, runnerVars, sweepVars, faults, histVars>>

\* The runner reads a window of the pending rows that are due, and claims it in a second
\* transaction.
getPendingMessages ==
    /\ alive /\ polled = {}
    /\ polled' \in (SUBSET {r \in due : status[r] = "pending" /\ ack[r] = "none"}) \ {{}}
    /\ UNCHANGED <<rowVars, ack, alive, outbox, asked, sweepVars, faults, histVars>>

markProcessing ==
    /\ polled # {} /\ polled' = {}
    /\ ack' = [r \in Rows |-> IF r \in polled THEN "processing" ELSE ack[r]]
    /\ UNCHANGED <<rowVars, alive, outbox, asked, sweepVars, faults, histVars>>

Completes(r) ==
    /\ alive /\ ack[r] = "processing"
    /\ ack' = [ack EXCEPT ![r] = "completed"]
    /\ UNCHANGED <<rowVars, alive, polled, outbox, asked, sweepVars, faults, histVars>>

RunnerGone ==
    /\ alive /\ alive' = FALSE /\ polled' = {}
    /\ UNCHANGED <<rowVars, ack, outbox, asked, sweepVars, faults, histVars>>

\* A fresh container first deletes the claims of its predecessor.
RunnerStarts ==
    /\ ~alive /\ alive' = TRUE
    /\ ack' = [r \in Rows |-> IF ack[r] = "processing" THEN "none" ELSE ack[r]]
    /\ UNCHANGED <<rowVars, polled, outbox, asked, sweepVars, faults, histVars>>

TimePasses(r) ==
    /\ Live(r) /\ r \notin due
    /\ due' = due \cup {r}
    /\ UNCHANGED <<status, recur, tries, runnerVars, outbox, asked, sweepVars, faults, histVars>>

------------------------------------------------------------------------------
(* Delivery of a request.                                                  *)

\* What a crash of the host destroys; containers are stopped at the next start.
MemoryLost == sweep' = "idle" /\ todo' = {} /\ alive' = FALSE /\ polled' = {}

\* The handler acts and the request is recorded as delivered.  The record may fail, or the
\* host crash before it: then the request is applied again.
HandlerActs ==
    /\ outbox # <<>>
    /\ Handler(Head(outbox))
    /\ \/ outbox' = Tail(outbox) /\ UNCHANGED <<faults, sweepVars, alive, polled>>
       \/ Fault /\ UNCHANGED <<outbox, sweepVars, alive, polled>>
       \/ Fault /\ MemoryLost /\ UNCHANGED outbox
    /\ UNCHANGED <<tries, ack, asked, torn>>

\* The handler throws: the request is retried after those behind it, or given up.
HandlerThrows ==
    /\ outbox # <<>>
    /\ \/ outbox' = Append(Tail(outbox), Head(outbox)) /\ Fault
       \/ outbox' = Tail(outbox) /\ Fault
       \/ /\ Head(outbox).op = "schedule" /\ status[Head(outbox).id] # "none"
          /\ outbox' = Tail(outbox) /\ UNCHANGED faults
    /\ UNCHANGED <<rowVars, runnerVars, asked, sweepVars, histVars>>

------------------------------------------------------------------------------
(* sweepSession.  It awaits a wake after the first step, an import before and in the last.  *)

SweepSync ==
    /\ sweep = "idle" /\ sweep' = "synced"
    /\ status' = [r \in Rows |-> IF ack[r] = "completed" THEN "completed" ELSE status[r]]
    /\ UNCHANGED <<recur, due, tries, runnerVars, outbox, asked, todo, faults, histVars>>

Charged(Lost) ==
    status' = [r \in Rows |-> IF r \in Lost /\ tries[r] >= MAX_TRIES THEN "failed" ELSE status[r]]

Retried(Lost) ==
    [r \in Rows |-> IF r \in Lost /\ tries[r] < MAX_TRIES THEN tries[r] + 1 ELSE tries[r]]

\* resetStuckProcessingRows, if the host knows the runner gone (or has just killed it).
SweepResets ==
    LET Lost == {r \in due : ack[r] = "processing" /\ status[r] = "pending"} IN
    /\ sweep = "synced" /\ sweep' = "reset"
    /\ \/ UNCHANGED <<rowVars, ack, wanted>>
       \/ /\ ~alive
          /\ Charged(Lost)
          /\ tries' = Retried(Lost)
          /\ due' = due \ {r \in Lost : tries[r] < MAX_TRIES}
          /\ ack' = [r \in Rows |-> IF ack[r] = "processing" THEN "none" ELSE ack[r]]
          /\ wanted' = wanted \ {r[1] : r \in {q \in Lost : tries[q] >= MAX_TRIES}}
          /\ UNCHANGED recur
    /\ UNCHANGED <<alive, polled, outbox, asked, todo, faults, torn, ended, calm>>

\* Mutant: failed rows are looked for in place of completed ones.
handleRecurrence_Failed ==
    /\ sweep = "reset" /\ sweep' = "cloning"
    /\ todo' = {r \in recur : status[r] = "failed"}
    /\ UNCHANGED <<rowVars, runnerVars, outbox, asked, faults, histVars>>

\* handleRecurrence reads its snapshot.
handleRecurrence ==
    /\ sweep = "reset" /\ sweep' = "cloning"
    /\ todo' = Unsucceeded
    /\ UNCHANGED <<rowVars, runnerVars, outbox, asked, faults, histVars>>

\* A fresh id: the first row of the series that is not in use.
Unused(s, q) ==
    /\ q \in Of(s) /\ status[q] = "none"
    /\ \A p \in Of(s) : p[2] < q[2] => status[p] # "none"

\* Mutant: the recurrence is cleared first.
Succeeds_ClearsFirst(r, q) ==
    \/ /\ recur' = (recur \cup {q}) \ {r}
       /\ status' = [status EXCEPT ![q] = "pending"]
       /\ UNCHANGED <<faults, torn>>
    \/ Fault /\ recur' = recur \ {r} /\ UNCHANGED <<status, torn>>

\* Mutant: the recurrence is not cleared.
Succeeds_KeepsOld(r, q) ==
    /\ status' = [status EXCEPT ![q] = "pending"]
    /\ recur' = recur \cup {q} /\ UNCHANGED <<faults, torn>>

\* insertRecurrence, then clearRecurrence; an error or a crash may come in between.
Succeeds(r, q) ==
    /\ status' = [status EXCEPT ![q] = "pending"]
    /\ \/ recur' = (recur \cup {q}) \ {r} /\ UNCHANGED <<faults, torn>>
       \/ Fault /\ recur' = recur \cup {q} /\ torn' = torn \cup {r[1]}

Clones(r) ==
    /\ sweep = "cloning" /\ r \in todo /\ todo' = todo \ {r}
    /\ \E q \in Rows : Unused(r[1], q) /\ Succeeds(r, q)
    /\ UNCHANGED <<due, tries, runnerVars, outbox, asked, sweep, wanted, ended, calm>>

\* The row is put off to the next sweep: a cron expression or a write that fails.
CloneFails(r) ==
    /\ sweep = "cloning" /\ r \in todo /\ todo' = todo \ {r}
    /\ \/ Fault
       \/ (\A q \in Of(r[1]) : status[q] # "none") /\ UNCHANGED faults  \* MaxOccurrences
    /\ UNCHANGED <<rowVars, runnerVars, outbox, asked, sweep, histVars>>

SweepEnds ==
    /\ sweep = "cloning" /\ todo = {} /\ sweep' = "idle"
    /\ UNCHANGED <<rowVars, runnerVars, outbox, asked, todo, faults, histVars>>

\* The memory of the host is gone; what it wrote stays.
HostRestarts ==
    /\ Fault
    /\ MemoryLost
    /\ UNCHANGED <<rowVars, ack, outbox, asked, histVars>>

------------------------------------------------------------------------------
Init ==
    /\ status = [r \in Rows |-> "none"] /\ recur = {} /\ due = {}
    /\ tries = [r \in Rows |-> 0]
    /\ ack = [r \in Rows |-> "none"] /\ alive = FALSE /\ polled = {}
    /\ outbox = <<>> /\ asked = 0
    /\ sweep = "idle" /\ todo = {} /\ faults = 0
    /\ torn = {} /\ wanted = {} /\ ended = {} /\ calm = {}

Runner ==
    \/ \E q \in Request : AgentAsks(q)
    \/ \E r \in Rows : Completes(r) \/ TimePasses(r)
    \/ getPendingMessages \/ markProcessing \/ RunnerGone \/ RunnerStarts

Sweep ==
    \/ SweepSync \/ SweepResets \/ handleRecurrence
    \/ \E r \in Rows : Clones(r) \/ CloneFails(r)
    \/ SweepEnds

Next == Runner \/ HandlerActs \/ HandlerThrows \/ Sweep \/ HostRestarts

Spec == Init /\ [][Next]_vars

\* The sweep runs on a timer; nothing is assumed of agents, runners and deliveries.
FairSpec == Spec /\ WF_vars(Sweep)

------------------------------------------------------------------------------
(* Properties.                                                             *)

\* Every variable keeps its type.
TypeOK ==
    /\ status \in [Rows -> {"none", "pending", "paused", "completed", "failed"}]
    /\ recur \subseteq Rows /\ due \subseteq Rows
    /\ tries \in [Rows -> 0..MAX_TRIES]
    /\ ack \in [Rows -> {"none", "processing", "completed"}]
    /\ alive \in BOOLEAN /\ polled \subseteq Rows
    /\ outbox \in Seq(Request) /\ asked \in 0..MaxRequests
    /\ sweep \in {"idle", "synced", "reset", "cloning"}
    /\ todo \subseteq Rows
    /\ faults \in 0..MaxFaults
    /\ torn \subseteq Series /\ wanted \subseteq Series /\ ended \subseteq Series
    /\ calm \subseteq Series

\* The rows that carry a series on.
Heirs(s) == {r \in Of(s) : Live(r) \/ r \in Unsucceeded}

\* However sweeps, requests and runners interleave, a series has one live occurrence or one
\* that awaits its successor, never two, unless a crash fell between insertRecurrence and
\* clearRecurrence (recurrence.ts:36-37): so list_tasks shows all there is.
OneHeir == \A s \in Series \ torn : \A p, q \in Heirs(s) : p = q

\* A recurring task goes on until a request or a failure stops it, also through a crash
\* between the two statements: it may be doubled but not lost.
SeriesGoesOn ==
    \A s \in wanted : \E r \in Of(s) \cap recur : Live(r) \/ status[r] = "completed"

\* A cancelled series stays so: a sweep under way, a repeated or late schedule request, an
\* update or a resume does not bring it back, unless an occurrence had just been completed
\* and had no successor yet (scheduling/db.ts:38-42).
CancelEnds == \A s \in ended : Heirs(s) = {}

\* A series paused at rest is not handed to the agent, whatever id the agent used, and
\* whatever sweeps, restarts and other requests come (scheduling/db.ts:8-11, 44-48).
CalmPauseHolds ==
    [][\A r \in Rows : ack[r] = "none" /\ ack'[r] = "processing" => r[1] \notin calm]_vars

\* Each occurrence that was completed gets its successor, unless the bound is reached.
Room(s) == \E q \in Of(s) : status[q] = "none"
NextIsInserted ==
    \A r \in Rows : r \in Unsucceeded /\ Room(r[1]) ~> r \notin Unsucceeded \/ ~Room(r[1])

------------------------------------------------------------------------------
(* The promise of the module.                                              *)

\* What status and recurrence together say of a row.
Stage(s, recurs) ==
    CASE s = "none"                 -> "none"
      [] s \in {"pending", "paused"} -> "live"
      [] s = "completed" /\ recurs  -> "owed"
      [] s = "completed" /\ ~recurs -> "over"
      [] s = "failed"               -> "over"

Stages == [r \in Rows |-> Stage(status[r], r \in recur)]

Turns == INSTANCE TaskSeries WITH state <- Stages

\* Requests, runner and sweep implement the rows of module TaskSeries: a series is started once, by
\* its first row, and passed from a row that owes a successor to one row, or to two at a crash.
KeepsTurns == Turns!Spec
=============================================================================
