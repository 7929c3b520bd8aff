------------------------- MODULE SchedulingProofs -------------------------
(***************************************************************************)
(* Proofs about Scheduling: a series has one heir, goes on until it is     *)
(* stopped, stays cancelled, and stays paused if it was paused at rest.    *)
(* RowInv is the part of the invariant about rows, IInv adds the queue of  *)
(* requests and the bounded counters.                                      *)
(***************************************************************************)
EXTENDS Scheduling, TLAPS

USE Tasks, Bounds

\* A row that does not exist or has failed is in nobody's hands, so that no late
\* acknowledgement completes it (session-db.ts:189).
DeadIsUntouched ==
    \A r \in Rows : status[r] \in {"none", "failed"} => ack[r] = "none" /\ r \notin polled

\* A row read by a runner is forgotten with the runner.
GoneHoldsNothing == ~alive => polled = {}

\* Successors come after the first row, so only the first row is ever scheduled by a request.
FirstIsFirst == \A r \in Rows : status[r] # "none" => status[<<r[1], 1>>] # "none"

SchedulesFirst == \A i \in 1..Len(outbox) : outbox[i].op = "schedule" => outbox[i].id[2] = 1

\* The snapshot of handleRecurrence does not go stale: only a clone takes a row out of it.
SnapshotHolds == todo \subseteq Unsucceeded

\* A cancelled series has no heir and an occupied first row.
EndedHasNoHeir == \A s \in ended : Heirs(s) = {} /\ status[<<s, 1>>] # "none"

\* The live rows of a series paused at rest are paused and free, and nothing awaits a successor.
CalmIsFree ==
    \A s \in calm :
        /\ AtRest(s) /\ status[<<s, 1>>] # "none"
        /\ \A r \in Of(s) : status[r] # "pending"

RowTypes ==
    /\ status \in [Rows -> {"none", "pending", "paused", "completed", "failed"}]
    /\ recur \subseteq Rows /\ due \subseteq Rows
    /\ tries \in [Rows -> 0..MAX_TRIES]
    /\ ack \in [Rows -> {"none", "processing", "completed"}]
    /\ alive \in BOOLEAN /\ polled \subseteq Rows /\ todo \subseteq Rows
    /\ torn \subseteq Series /\ wanted \subseteq Series /\ ended \subseteq Series
    /\ calm \subseteq Series

RowInv ==
    /\ RowTypes /\ DeadIsUntouched /\ GoneHoldsNothing /\ FirstIsFirst /\ SnapshotHolds
    /\ EndedHasNoHeir /\ CalmIsFree /\ OneHeir /\ SeriesGoesOn

QueueInv ==
    /\ outbox \in Seq(Request) /\ asked \in 0..MaxRequests
    /\ sweep \in {"idle", "synced", "reset", "cloning"} /\ faults \in 0..MaxFaults
    /\ SchedulesFirst

IInv == RowInv /\ QueueInv

LEMMA RowFacts ==
    ASSUME NEW r \in Rows
    PROVE  r[1] \in Series /\ r[2] \in 1..MaxOccurrences /\ <<r[1], 1>> \in Rows
           /\ r = <<r[1], r[2]>>
  BY DEF Rows

LEMMA FirstRow == ASSUME NEW s \in Series PROVE <<s, 1>> \in Rows /\ <<s, 1>> \in Of(s)
  BY DEF Rows, Of

LEMMA InitInv == Init => IInv
<1> SUFFICES ASSUME Init PROVE IInv
  OBVIOUS
<1>1. RowTypes
  <2>1. /\ status \in [Rows -> {"none", "pending", "paused", "completed", "failed"}]
        /\ ack \in [Rows -> {"none", "processing", "completed"}]
    BY DEF Init
  <2>2. tries \in [Rows -> 0..MAX_TRIES]
    BY DEF Init
  <2> QED
    BY <2>1, <2>2 DEF Init, RowTypes
<1>2. \A s \in Series : Heirs(s) = {}
  BY DEF Init, Heirs, Live, Unsucceeded, Of
<1>3. RowInv
  BY <1>1, <1>2 DEF Init, RowInv, DeadIsUntouched, GoneHoldsNothing, FirstIsFirst, SnapshotHolds,
     EndedHasNoHeir, CalmIsFree, OneHeir, SeriesGoesOn
<1>4. QueueInv
  BY DEF Init, QueueInv, SchedulesFirst
<1> QED
  BY <1>3, <1>4 DEF IInv

------------------------------------------------------------------------------
(* Handlers.                                                               *)

\* What HandlerActs does beside the handler, with or without a crash.
HostKeeps ==
    /\ UNCHANGED <<tries, ack, torn>>
    /\ \/ UNCHANGED <<todo, polled, alive>>
       \/ todo' = {} /\ polled' = {} /\ alive' = FALSE

\* A handler changes live rows only, into live or completed ones without recurrence: what is
\* settled, and what is dead, stays.
LEMMA HandlerKeeps ==
    ASSUME RowInv, HostKeeps, RowTypes',
           \A r \in Rows : status'[r] # status[r] =>
               Live(r) /\ (status'[r] \in {"pending", "paused"}
                           \/ (status'[r] = "completed" /\ r \notin recur')),
           \A r \in Rows : status[r] = "completed" => (r \in recur' <=> r \in recur)
    PROVE  /\ DeadIsUntouched' /\ GoneHoldsNothing' /\ FirstIsFirst' /\ SnapshotHolds'
           /\ OneHeir' /\ \A s \in Series : Heirs(s)' \subseteq Heirs(s)
<1> USE DEF RowInv, HostKeeps
<1>1. DeadIsUntouched'
  BY DEF DeadIsUntouched, RowTypes, Live
<1>2. GoneHoldsNothing'
  BY DEF GoneHoldsNothing
<1>3. FirstIsFirst'
  BY RowFacts DEF FirstIsFirst, RowTypes, Live
<1>4. Unsucceeded' = Unsucceeded
  BY DEF Unsucceeded, RowTypes, Live
<1>5. SnapshotHolds'
  BY <1>4 DEF SnapshotHolds
<1>6. ASSUME NEW s \in Series PROVE Heirs(s)' \subseteq Heirs(s)
  BY <1>4 DEF Heirs, Of, Live, RowTypes
<1>7. OneHeir'
  BY <1>6 DEF OneHeir
<1> QED
  BY <1>1, <1>2, <1>3, <1>5, <1>6, <1>7

LEMMA EndedKeeps ==
    ASSUME RowInv, RowTypes', ended' = ended, \A s \in Series : Heirs(s)' \subseteq Heirs(s),
           \A r \in Rows : status'[r] # status[r] => status'[r] # "none"
    PROVE  EndedHasNoHeir'
  BY FirstRow DEF RowInv, RowTypes, EndedHasNoHeir

\* No row of a calm series becomes pending, live, or awaits a successor.
LEMMA CalmKeeps ==
    ASSUME RowInv, RowTypes', calm' \subseteq calm, ack' = ack, polled' \subseteq polled,
           \A s \in calm' : Unsucceeded' \cap Of(s) \subseteq Unsucceeded \cap Of(s),
           \A r \in Rows : status'[r] # status[r] =>
               Live(r) /\ status'[r] # "none" /\ (status'[r] # "pending" \/ r[1] \notin calm')
    PROVE  CalmIsFree'
<1>1. SUFFICES ASSUME NEW s \in calm'
      PROVE  AtRest(s)' /\ status'[<<s, 1>>] # "none"
             /\ \A r \in Of(s) : status'[r] # "pending"
  BY DEF CalmIsFree, Of
<1>2. /\ s \in Series /\ AtRest(s) /\ status[<<s, 1>>] # "none"
      /\ \A r \in Of(s) : status[r] # "pending"
  BY <1>1 DEF RowInv, RowTypes, CalmIsFree
<1>3. \A r \in Of(s) : r \in Rows /\ r[1] = s
  BY DEF Of
<1>4. AtRest(s)'
  BY <1>1, <1>2, <1>3 DEF AtRest, Live, Of
<1> QED
  BY <1>1, <1>2, <1>3, <1>4, FirstRow

LEMMA CancelInv ==
    ASSUME RowInv, HostKeeps, NEW id \in Rows, cancelTask(id) PROVE RowInv'
<1> USE DEF cancelTask, Cancelled
<1>1. Matched(id) \subseteq {r \in Rows : Live(r)}
  BY DEF Matched
<1>2. RowTypes'
  BY RowFacts, <1>1 DEF RowInv, RowTypes, HostKeeps
<1>3. /\ DeadIsUntouched' /\ GoneHoldsNothing' /\ FirstIsFirst' /\ SnapshotHolds' /\ OneHeir'
      /\ \A s \in Series : Heirs(s)' \subseteq Heirs(s)
  BY <1>1, <1>2, HandlerKeeps DEF RowInv, RowTypes, Live
<1>4. Unsucceeded' = Unsucceeded
  BY <1>1 DEF RowInv, RowTypes, Unsucceeded, Live
<1>5. CalmIsFree'
  BY <1>1, <1>2, <1>4, CalmKeeps DEF RowInv, RowTypes, HostKeeps
<1>6. ASSUME NEW s \in ended' PROVE Heirs(s)' = {} /\ status'[<<s, 1>>] # "none"
  <2>1. CASE s \in ended
    BY <1>2, <1>3, <2>1, FirstRow DEF RowInv, RowTypes, EndedHasNoHeir
  <2>2. CASE s = id[1] /\ id[2] = 1 /\ Unsucceeded \cap Of(s) = {} /\ \E r \in Of(s) : Live(r)
    <3>1. \A r \in Of(s) : Live(r) => r \in Matched(id)
      BY <2>2 DEF Matched, Of
    <3>2. Heirs(s)' = {}
      BY <1>4, <2>2, <3>1 DEF Heirs, Live, Of
    <3>3. status[<<s, 1>>] # "none"
      BY <2>2, RowFacts DEF RowInv, FirstIsFirst, Live, Of
    <3> QED
      BY <2>2, <3>2, <3>3, FirstRow, RowFacts DEF RowInv, RowTypes
  <2> QED
    BY <2>1, <2>2
<1>7. SeriesGoesOn'
  <2>1. SUFFICES ASSUME NEW s \in wanted'
        PROVE  \E r \in Of(s)' \cap recur' : Live(r)' \/ status'[r] = "completed"
    BY DEF SeriesGoesOn
  <2>2. PICK r \in Of(s) \cap recur : Live(r) \/ status[r] = "completed"
    BY <2>1 DEF RowInv, SeriesGoesOn
  <2>3. r \in Rows /\ r \notin Matched(id)
    BY <2>1, <2>2 DEF Of
  <2>4. r \in Of(s)' \cap recur' /\ (Live(r)' \/ status'[r] = "completed")
    BY <2>2, <2>3 DEF RowInv, RowTypes, Of, Live
  <2> QED
    BY <2>4
<1> QED
  BY <1>2, <1>3, <1>5, <1>6, <1>7 DEF RowInv, EndedHasNoHeir

LEMMA PauseInv ==
    ASSUME RowInv, HostKeeps, NEW id \in Rows, pauseTask(id) PROVE RowInv'
<1> USE DEF pauseTask
<1>1. Matched(id) \subseteq {r \in Rows : Live(r)}
  BY DEF Matched
<1>2. RowTypes'
  BY <1>1 DEF RowInv, RowTypes, HostKeeps
<1>a. recur' = recur /\ \A r \in Rows : status'[r] # status[r] => Live(r) /\ status'[r] = "paused"
  BY <1>1 DEF RowInv, RowTypes
<1>3. /\ DeadIsUntouched' /\ GoneHoldsNothing' /\ FirstIsFirst' /\ SnapshotHolds' /\ OneHeir'
      /\ \A s \in Series : Heirs(s)' \subseteq Heirs(s)
  BY <1>2, <1>a, HandlerKeeps
<1>4. Unsucceeded' = Unsucceeded
  BY <1>1 DEF RowInv, RowTypes, Unsucceeded, Live
<1>5. EndedHasNoHeir'
  BY <1>1, <1>2, <1>3, EndedKeeps DEF RowInv, RowTypes
<1>6. ASSUME NEW s \in calm'
      PROVE  AtRest(s)' /\ status'[<<s, 1>>] # "none"
             /\ \A r \in Of(s) : status'[r] # "pending"
  <2>0. s \in Series /\ \A r \in Of(s) : r \in Rows /\ r[1] = s
    BY <1>2 DEF RowTypes, Of
  <2>1. AtRest(s)
    BY <1>6 DEF RowInv, CalmIsFree
  <2>2. \A r \in Of(s) : Live(r)' => Live(r)
    BY <2>0, <1>1 DEF RowInv, RowTypes, Live
  <2>3. AtRest(s)'
    BY <1>4, <2>0, <2>1, <2>2 DEF AtRest, HostKeeps, Of
  <2>4. CASE s \in calm
    <3>1. status[<<s, 1>>] # "none" /\ \A r \in Of(s) : status[r] # "pending"
      BY <2>4 DEF RowInv, CalmIsFree
    <3> QED
      BY <2>0, <2>3, <3>1, FirstRow DEF RowInv, RowTypes
  <2>5. CASE id = <<s, 1>> /\ \E r \in Of(s) : Live(r)
    <3>1. \A r \in Of(s) : status[r] = "pending" => r \in Matched(id)
      BY <2>0, <2>5 DEF Matched, Live
    <3>2. status[<<s, 1>>] # "none"
      BY <2>0, <2>5 DEF RowInv, FirstIsFirst, Live
    <3> QED
      BY <2>0, <2>3, <3>1, <3>2, FirstRow DEF RowInv, RowTypes
  <2> QED
    BY <1>6, <2>4, <2>5
<1>7. CalmIsFree'
  BY <1>6 DEF CalmIsFree, Of
<1>8. SeriesGoesOn'
  <2>1. \A r \in Rows : Live(r) \/ status[r] = "completed" => Live(r)' \/ status'[r] = "completed"
    BY <1>1 DEF RowInv, RowTypes, Live
  <2> QED
    BY <2>1 DEF RowInv, SeriesGoesOn, Of
<1> QED
  BY <1>2, <1>3, <1>5, <1>7, <1>8 DEF RowInv

LEMMA ResumeInv ==
    ASSUME RowInv, HostKeeps, NEW id \in Rows, resumeTask(id) PROVE RowInv'
<1> USE DEF resumeTask
<1>1. Matched(id) \subseteq {r \in Rows : Live(r) /\ r[1] = id[1]}
  BY DEF Matched
<1>2. RowTypes'
  BY <1>1 DEF RowInv, RowTypes, HostKeeps
<1>a. recur' = recur /\ \A r \in Rows : status'[r] # status[r] => Live(r) /\ status'[r] = "pending"
  BY <1>1 DEF RowInv, RowTypes
<1>3. /\ DeadIsUntouched' /\ GoneHoldsNothing' /\ FirstIsFirst' /\ SnapshotHolds' /\ OneHeir'
      /\ \A s \in Series : Heirs(s)' \subseteq Heirs(s)
  BY <1>2, <1>a, HandlerKeeps
<1>4. Unsucceeded' = Unsucceeded
  BY <1>1 DEF RowInv, RowTypes, Unsucceeded, Live
<1>5. EndedHasNoHeir'
  BY <1>1, <1>2, <1>3, EndedKeeps DEF RowInv, RowTypes
<1>6. CalmIsFree'
  BY <1>1, <1>2, <1>4, CalmKeeps DEF RowInv, RowTypes, HostKeeps
<1>7. SeriesGoesOn'
  <2>1. \A r \in Rows : Live(r) \/ status[r] = "completed" => Live(r)' \/ status'[r] = "completed"
    BY <1>1 DEF RowInv, RowTypes, Live
  <2> QED
    BY <2>1 DEF RowInv, SeriesGoesOn, Of
<1> QED
  BY <1>2, <1>3, <1>5, <1>6, <1>7 DEF RowInv

LEMMA UpdateInv ==
    ASSUME RowInv, HostKeeps, NEW id \in Rows, NEW cron \in {"kept", "set", "cleared"},
           updateTask(id, cron)
    PROVE  RowInv'
<1> USE DEF updateTask
<1>1. Matched(id) \subseteq {r \in Rows : Live(r) /\ r[1] = id[1]}
  BY DEF Matched
<1>2. RowTypes'
  BY <1>1, RowFacts DEF RowInv, RowTypes, HostKeeps
<1>3. \A r \in Rows : status[r] = "completed" => (r \in recur' <=> r \in recur)
  BY <1>1 DEF Live
<1>4. /\ DeadIsUntouched' /\ GoneHoldsNothing' /\ FirstIsFirst' /\ SnapshotHolds' /\ OneHeir'
      /\ \A s \in Series : Heirs(s)' \subseteq Heirs(s)
  BY <1>2, <1>3, HandlerKeeps
<1>5. Unsucceeded' = Unsucceeded
  BY <1>2, <1>3 DEF RowInv, RowTypes, Unsucceeded
<1>6. EndedHasNoHeir'
  BY <1>2, <1>4, EndedKeeps
<1>7. CalmIsFree'
  BY <1>2, <1>5, CalmKeeps DEF HostKeeps
<1>8. SeriesGoesOn'
  <2>1. SUFFICES ASSUME NEW s \in wanted'
        PROVE  \E r \in Of(s) \cap recur' : Live(r) \/ status[r] = "completed"
    BY DEF SeriesGoesOn, Of, Live
  <2>2. CASE cron = "set" /\ Matched(id) # {} /\ s = id[1]
    <3>1. PICK r \in Matched(id) : TRUE
      BY <2>2
    <3>2. r \in Of(s) \cap recur' /\ Live(r)
      BY <1>1, <2>2, <3>1 DEF Of
    <3> QED
      BY <3>2
  <2>3. CASE s \in wanted /\ (cron = "cleared" => Matched(id) = {} \/ s # id[1])
    <3>1. PICK r \in Of(s) \cap recur : Live(r) \/ status[r] = "completed"
      BY <2>3 DEF RowInv, SeriesGoesOn
    <3>2. r \in recur'
      BY <1>1, <2>3, <3>1 DEF Of
    <3> QED
      BY <3>1, <3>2
  <2> QED
    BY <2>1, <2>2, <2>3
<1> QED
  BY <1>2, <1>4, <1>6, <1>7, <1>8 DEF RowInv

\* The first row is free, so no other row of the series is in use and nothing is in the way.
LEMMA ScheduleInv ==
    ASSUME RowInv, HostKeeps, NEW id \in Rows, id[2] = 1, insertTask(id) PROVE RowInv'
<1> USE DEF insertTask
<1>0. id = <<id[1], 1>> /\ id[1] \in Series
  BY RowFacts
<1>1. RowTypes'
  BY <1>0 DEF RowInv, RowTypes, HostKeeps
<1>2. \A r \in Of(id[1]) : r \in Rows /\ status[r] = "none"
  BY <1>0 DEF RowInv, FirstIsFirst, Of
<1>3. Unsucceeded' = Unsucceeded
  BY DEF RowInv, RowTypes, Unsucceeded
<1>4. ASSUME NEW s \in Series, s # id[1]
      PROVE  Heirs(s)' = Heirs(s) /\ <<s, 1>> # id /\ \A r \in Of(s) : status'[r] = status[r]
  BY <1>0, <1>3, <1>4 DEF RowInv, RowTypes, Heirs, Of, Live
<1>5. Heirs(id[1])' \subseteq {id}
  BY <1>2, <1>3 DEF RowInv, RowTypes, Heirs, Unsucceeded, Of, Live
<1>6. DeadIsUntouched' /\ GoneHoldsNothing' /\ SnapshotHolds'
  BY <1>3 DEF RowInv, RowTypes, HostKeeps, DeadIsUntouched, GoneHoldsNothing, SnapshotHolds
<1>7. FirstIsFirst'
  BY <1>0, RowFacts DEF RowInv, RowTypes, FirstIsFirst
<1>8. OneHeir'
  BY <1>4, <1>5 DEF RowInv, HostKeeps, OneHeir
<1>9. EndedHasNoHeir'
  <2>1. id[1] \notin ended
    BY <1>0 DEF RowInv, EndedHasNoHeir
  <2> QED
    BY <2>1, <1>4, FirstRow DEF RowInv, RowTypes, EndedHasNoHeir
<1>10. CalmIsFree'
  <2>1. id[1] \notin calm
    BY <1>0 DEF RowInv, CalmIsFree
  <2>2. ASSUME NEW s \in calm
        PROVE AtRest(s)' /\ status'[<<s, 1>>] # "none" /\ \A r \in Of(s) : status'[r] # "pending"
    <3>1. s \in Series /\ s # id[1] /\ AtRest(s) /\ status[<<s, 1>>] # "none"
      BY <2>1, <2>2 DEF RowInv, RowTypes, CalmIsFree
    <3>2. \A r \in Of(s) : status'[r] = status[r]
      BY <1>4, <3>1
    <3>3. AtRest(s)'
      BY <1>3, <3>1, <3>2 DEF AtRest, HostKeeps, Of, Live
    <3> QED
      BY <2>2, <3>1, <3>2, <3>3, FirstRow DEF RowInv, CalmIsFree
  <2> QED
    BY <2>2 DEF CalmIsFree, Of
<1>11. SeriesGoesOn'
  <2>1. id \in Of(id[1])' /\ Live(id)'
    BY DEF RowInv, RowTypes, Of, Live
  <2>2. \A r \in Rows : Live(r) \/ status[r] = "completed" => Live(r)' \/ status'[r] = "completed"
    BY DEF RowInv, RowTypes, Live
  <2>3. \A s \in wanted : \E r \in Of(s) \cap recur : Live(r) \/ status[r] = "completed"
    BY DEF RowInv, SeriesGoesOn
  <2>4. recur \subseteq recur' /\ (id[1] \in Recurring => id \in recur')
    OBVIOUS
  <2>5. \A s \in wanted' : s \in wanted \/ (s = id[1] /\ s \in Recurring)
    OBVIOUS
  <2> QED
    BY <2>1, <2>2, <2>3, <2>4, <2>5 DEF SeriesGoesOn, Of
<1> QED
  BY <1>1, <1>6, <1>7, <1>8, <1>9, <1>10, <1>11 DEF RowInv

LEMMA TailSchedules ==
    ASSUME outbox \in Seq(Request), outbox # <<>>, SchedulesFirst
    PROVE  \A i \in 1..Len(Tail(outbox)) : Tail(outbox)[i].op = "schedule" => Tail(outbox)[i].id[2] = 1
<1>1. SUFFICES ASSUME NEW i \in 1..Len(Tail(outbox)), Tail(outbox)[i].op = "schedule"
      PROVE  Tail(outbox)[i].id[2] = 1
  OBVIOUS
<1>2. Tail(outbox)[i] = outbox[i + 1] /\ i + 1 \in 1..Len(outbox)
  OBVIOUS
<1> QED
  BY <1>1, <1>2 DEF SchedulesFirst

LEMMA HandlerActsInv == ASSUME IInv, HandlerActs PROVE IInv'
<1> DEFINE q == Head(outbox)
<1>1. q \in Request /\ (q.op = "schedule" => q.id[2] = 1)
  <2>1. outbox \in Seq(Request) /\ outbox # <<>>
    BY DEF IInv, QueueInv, HandlerActs
  <2>2. q = outbox[1] /\ q \in Request /\ 1 \in 1..Len(outbox)
    BY <2>1
  <2> QED
    BY <2>2 DEF IInv, QueueInv, SchedulesFirst
<1>2. q.id \in Rows /\ q.cron \in {"kept", "set", "cleared"}
  BY <1>1 DEF Request
<1>3. RowInv /\ HostKeeps /\ Handler(q)
  BY DEF IInv, HandlerActs, HostKeeps, MemoryLost, sweepVars
<1>4. RowInv'
  BY <1>1, <1>2, <1>3, ScheduleInv, CancelInv, PauseInv, ResumeInv, UpdateInv DEF Handler
<1>5. QueueInv'
  <2>1. outbox' \in {outbox, Tail(outbox)} /\ outbox # <<>>
    BY DEF HandlerActs
  <2>2. outbox' \in Seq(Request)
    BY <2>1 DEF IInv, QueueInv
  <2>3. SchedulesFirst'
    BY <2>1, TailSchedules DEF IInv, QueueInv, SchedulesFirst
  <2> QED
    BY <2>2, <2>3 DEF IInv, QueueInv, HandlerActs, MemoryLost, Fault, sweepVars
<1> QED
  BY <1>4, <1>5 DEF IInv

------------------------------------------------------------------------------
(* Steps that leave the rows alone.                                        *)

LEMMA RowsStay ==
    ASSUME RowInv, UNCHANGED <<status, recur, tries, histVars>>,
           RowTypes', DeadIsUntouched', GoneHoldsNothing', todo' \subseteq Unsucceeded, CalmIsFree'
    PROVE  RowInv'
<1> USE DEF histVars
<1>1. Unsucceeded' = Unsucceeded /\ \A s \in Series : Heirs(s)' = Heirs(s)
  BY DEF Unsucceeded, Heirs, Of, Live
<1>2. EndedHasNoHeir'
  BY <1>1 DEF RowInv, RowTypes, EndedHasNoHeir
<1>3. OneHeir' /\ SeriesGoesOn' /\ FirstIsFirst' /\ SnapshotHolds'
  BY <1>1 DEF RowInv, OneHeir, SeriesGoesOn, FirstIsFirst, SnapshotHolds, Of, Live
<1> QED
  BY <1>2, <1>3 DEF RowInv

\* A series at rest stays so while no row of it is read or claimed.
LEMMA CalmStays ==
    ASSUME RowInv, UNCHANGED <<status, recur, calm>>,
           \A r \in polled' : r \in polled \/ (r \in Rows /\ status[r] = "pending"),
           \A r \in Rows : Live(r) /\ ack[r] = "none" => ack'[r] = "none" \/ r \in polled
    PROVE  CalmIsFree'
<1>1. SUFFICES ASSUME NEW s \in calm PROVE AtRest(s)'
  BY DEF RowInv, CalmIsFree, Of
<1>2. /\ AtRest(s)
      /\ \A r \in Of(s) : r \in Rows /\ status[r] # "pending"
  BY DEF RowInv, CalmIsFree, Of
<1>3. polled' \cap Of(s) = {}
  BY <1>2 DEF AtRest
<1>4. \A r \in Of(s) : Live(r) => ack'[r] = "none"
  BY <1>2 DEF AtRest
<1> QED
  BY <1>2, <1>3, <1>4 DEF AtRest, Unsucceeded, Of, Live

LEMMA AgentAsksInv == ASSUME IInv, NEW q \in Request, AgentAsks(q) PROVE IInv'
<1>1. RowInv'
  <2>1. UNCHANGED <<rowVars, runnerVars, sweepVars, histVars>>
    BY DEF AgentAsks
  <2> QED
    BY <2>1, RowsStay, CalmStays DEF IInv, RowInv, RowTypes, DeadIsUntouched, GoneHoldsNothing,
       SnapshotHolds, rowVars, runnerVars, sweepVars, histVars
<1>2. SchedulesFirst'
  BY DEF AgentAsks, IInv, QueueInv, SchedulesFirst
<1> QED
  BY <1>1, <1>2 DEF AgentAsks, IInv, QueueInv, sweepVars

LEMMA HandlerThrowsInv == ASSUME IInv, HandlerThrows PROVE IInv'
<1>1. RowInv'
  <2>1. UNCHANGED <<rowVars, runnerVars, sweepVars, histVars>>
    BY DEF HandlerThrows
  <2> QED
    BY <2>1, RowsStay, CalmStays DEF IInv, RowInv, RowTypes, DeadIsUntouched, GoneHoldsNothing,
       SnapshotHolds, rowVars, runnerVars, sweepVars, histVars
<1>2. /\ outbox \in Seq(Request) /\ outbox # <<>>
      /\ outbox' \in {Tail(outbox), Append(Tail(outbox), Head(outbox))}
  BY DEF HandlerThrows, IInv, QueueInv
<1>3. outbox' \in Seq(Request)
  BY <1>2
<1>4. SchedulesFirst'
  <2>1. CASE outbox' = Tail(outbox)
    BY <1>2, <2>1, TailSchedules DEF IInv, QueueInv, SchedulesFirst
  <2>2. CASE outbox' = Append(Tail(outbox), Head(outbox))
    <3>1. Tail(outbox) \in Seq(Request) /\ Head(outbox) = outbox[1] /\ 1 \in 1..Len(outbox)
      BY <1>2
    <3>2. \A i \in 1..Len(outbox') :
              \/ i \in 1..Len(Tail(outbox)) /\ outbox'[i] = Tail(outbox)[i]
              \/ outbox'[i] = outbox[1]
      BY <2>2, <3>1
    <3>3. outbox[1].op = "schedule" => outbox[1].id[2] = 1
      BY <3>1 DEF IInv, QueueInv, SchedulesFirst
    <3> QED
      BY <1>2, <3>2, <3>3, TailSchedules DEF IInv, QueueInv, SchedulesFirst
  <2> QED
    BY <1>2, <2>1, <2>2
<1> QED
  BY <1>1, <1>3, <1>4 DEF HandlerThrows, IInv, QueueInv, sweepVars, Fault

LEMMA QueueStays ==
    ASSUME QueueInv, UNCHANGED <<outbox, asked>>,
           sweep' \in {"idle", "synced", "reset", "cloning"}, faults' = faults \/ Fault
    PROVE  QueueInv'
  BY DEF QueueInv, SchedulesFirst, Fault

LEMMA getPendingMessagesInv == ASSUME IInv, getPendingMessages PROVE IInv'
<1>1. CalmIsFree'
  BY CalmStays DEF IInv, RowInv, RowTypes, getPendingMessages, rowVars, histVars
<1>2. RowInv'
  BY <1>1, RowsStay DEF IInv, RowInv, RowTypes, DeadIsUntouched, GoneHoldsNothing, SnapshotHolds,
     getPendingMessages, rowVars, sweepVars, histVars
<1> QED
  BY <1>2, QueueStays DEF IInv, QueueInv, getPendingMessages, sweepVars

LEMMA markProcessingInv == ASSUME IInv, markProcessing PROVE IInv'
<1>1. CalmIsFree'
  BY CalmStays DEF IInv, RowInv, RowTypes, markProcessing, rowVars, histVars
<1>2. RowTypes'
  BY DEF IInv, RowInv, RowTypes, markProcessing, rowVars, sweepVars, histVars
<1>3. DeadIsUntouched'
  BY DEF IInv, RowInv, RowTypes, DeadIsUntouched, markProcessing, rowVars
<1>4. RowInv'
  BY <1>1, <1>2, <1>3, RowsStay DEF IInv, RowInv, GoneHoldsNothing, SnapshotHolds,
     markProcessing, rowVars, sweepVars, histVars
<1> QED
  BY <1>4, QueueStays DEF IInv, QueueInv, markProcessing, sweepVars

LEMMA CompletesInv == ASSUME IInv, NEW r \in Rows, Completes(r) PROVE IInv'
<1>1. CalmIsFree'
  BY CalmStays DEF IInv, RowInv, RowTypes, Completes, rowVars, histVars
<1>2. RowTypes'
  BY DEF IInv, RowInv, RowTypes, Completes, rowVars, sweepVars, histVars
<1>3. DeadIsUntouched'
  BY DEF IInv, RowInv, RowTypes, DeadIsUntouched, Completes, rowVars
<1>4. RowInv'
  BY <1>1, <1>2, <1>3, RowsStay DEF IInv, RowInv, GoneHoldsNothing, SnapshotHolds,
     Completes, rowVars, sweepVars, histVars
<1> QED
  BY <1>4, QueueStays DEF IInv, QueueInv, Completes, sweepVars

\* A runner goes or starts, or the host does: claims are dropped, nothing is claimed.
LEMMA RunnerSteps ==
    ASSUME IInv, RunnerGone \/ RunnerStarts \/ HostRestarts PROVE IInv'
<1>1. /\ UNCHANGED <<rowVars, outbox, asked, histVars>> /\ alive' \in BOOLEAN
      /\ polled' = polled \/ polled' = {}
      /\ todo' = todo \/ todo' = {}
      /\ sweep' = sweep \/ sweep' = "idle"
      /\ faults' = faults \/ Fault
  BY DEF RunnerGone, RunnerStarts, HostRestarts, MemoryLost, sweepVars
<1>2. ack' \in [Rows -> {"none", "processing", "completed"}]
      /\ \A r \in Rows : ack'[r] = ack[r] \/ ack'[r] = "none"
  BY DEF IInv, RowInv, RowTypes, RunnerGone, RunnerStarts, HostRestarts
<1>3. GoneHoldsNothing'
  BY DEF IInv, RowInv, RowTypes, GoneHoldsNothing, RunnerGone, RunnerStarts, HostRestarts, MemoryLost
<1>4. CalmIsFree'
  BY <1>1, <1>2, CalmStays DEF IInv, RowInv, rowVars, histVars
<1>5. RowTypes' /\ DeadIsUntouched' /\ todo' \subseteq Unsucceeded
  BY <1>1, <1>2 DEF IInv, RowInv, RowTypes, DeadIsUntouched, SnapshotHolds, rowVars, histVars
<1>6. RowInv'
  BY <1>1, <1>3, <1>4, <1>5, RowsStay DEF IInv, rowVars
<1> QED
  BY <1>1, <1>6, QueueStays DEF IInv, QueueInv

\* Time, the snapshot, a clone put off, and the end of a sweep.
LEMMA SweepWaits ==
    ASSUME IInv,
           \/ \E r \in Rows : TimePasses(r) \/ CloneFails(r)
           \/ handleRecurrence \/ SweepEnds
    PROVE  IInv'
<1>1. /\ UNCHANGED <<status, recur, tries, runnerVars, outbox, asked, histVars>>
      /\ due' \subseteq Rows
      /\ todo' \subseteq todo \/ todo' = Unsucceeded
      /\ sweep' = sweep \/ sweep' \in {"cloning", "idle"}
      /\ faults' = faults \/ Fault
  BY DEF IInv, RowInv, RowTypes, TimePasses, CloneFails, handleRecurrence, SweepEnds, rowVars,
     sweepVars
<1>2. todo' \subseteq Unsucceeded /\ Unsucceeded \subseteq Rows
  BY <1>1 DEF IInv, RowInv, RowTypes, SnapshotHolds, Unsucceeded
<1>3. CalmIsFree'
  BY <1>1, CalmStays DEF IInv, RowInv, runnerVars, histVars
<1>4. RowTypes' /\ DeadIsUntouched' /\ GoneHoldsNothing'
  BY <1>1, <1>2 DEF IInv, RowInv, RowTypes, DeadIsUntouched, GoneHoldsNothing, runnerVars, histVars
<1>5. RowInv'
  BY <1>1, <1>2, <1>3, <1>4, RowsStay DEF IInv
<1> QED
  BY <1>1, <1>5, QueueStays DEF IInv, QueueInv

------------------------------------------------------------------------------
(* Steps of the sweep that change rows.                                    *)

\* The first step turns live rows into completed ones, the second pending ones into failed
\* ones; neither adds an heir, and neither touches a series at rest.
LEMMA SweepKeeps ==
    ASSUME RowInv, RowTypes', UNCHANGED <<recur, polled, alive, todo, torn, ended, calm>>,
           \A r \in Rows : status'[r] # status[r] =>
               \/ status'[r] = "completed" /\ ack[r] = "completed"
               \/ status'[r] = "failed" /\ status[r] = "pending" /\ ack'[r] = "none" /\ polled = {},
           \A r \in Rows : ack'[r] = ack[r] \/ ack'[r] = "none"
    PROVE  /\ DeadIsUntouched' /\ GoneHoldsNothing' /\ FirstIsFirst' /\ SnapshotHolds'
           /\ EndedHasNoHeir' /\ CalmIsFree' /\ OneHeir'
<1>1. \A r \in Rows : status'[r] # status[r] => Live(r) \/ status[r] = "completed"
  BY DEF RowInv, RowTypes, DeadIsUntouched, Live
<1>2. \A r \in Rows : status[r] = "completed" => status'[r] = "completed"
  BY DEF RowInv, RowTypes
<1>3. DeadIsUntouched' /\ GoneHoldsNothing'
  BY DEF RowInv, RowTypes, DeadIsUntouched, GoneHoldsNothing
<1>4. FirstIsFirst'
  BY <1>1, RowFacts DEF RowInv, RowTypes, FirstIsFirst, Live
<1>5. SnapshotHolds'
  BY <1>2 DEF RowInv, RowTypes, SnapshotHolds, Unsucceeded
<1>6. \A s \in Series : Heirs(s)' \subseteq Heirs(s)
  BY <1>1, <1>2 DEF RowInv, RowTypes, Heirs, Of, Live, Unsucceeded
<1>7. OneHeir'
  BY <1>6 DEF RowInv, OneHeir
<1>8. EndedHasNoHeir'
  BY <1>1, <1>6, EndedKeeps DEF RowInv, Live
<1>9. CalmIsFree'
  <2>1. SUFFICES ASSUME NEW s \in calm
        PROVE  AtRest(s)' /\ status'[<<s, 1>>] # "none"
               /\ \A r \in Of(s) : status'[r] # "pending"
    BY DEF CalmIsFree, Of
  <2>2. /\ s \in Series /\ AtRest(s) /\ status[<<s, 1>>] # "none"
        /\ \A r \in Of(s) : r \in Rows /\ status[r] # "pending"
    BY DEF RowInv, RowTypes, CalmIsFree, Of
  <2>3. \A r \in Of(s) : status'[r] = status[r]
    BY <1>1, <1>2, <2>2 DEF AtRest, Live
  <2>4. AtRest(s)'
    BY <2>2, <2>3 DEF AtRest, Unsucceeded, Of, Live
  <2> QED
    BY <2>2, <2>3, <2>4, FirstRow
<1> QED
  BY <1>3, <1>4, <1>5, <1>7, <1>8, <1>9

LEMMA SweepSyncInv == ASSUME IInv, SweepSync PROVE IInv'
<1> USE DEF IInv, SweepSync, runnerVars, histVars
<1>1. RowTypes'
  BY DEF RowInv, RowTypes
<1>2. \A r \in Rows : status'[r] # status[r] => status'[r] = "completed" /\ ack[r] = "completed"
  BY DEF RowInv, RowTypes
<1>3. /\ DeadIsUntouched' /\ GoneHoldsNothing' /\ FirstIsFirst' /\ SnapshotHolds'
      /\ EndedHasNoHeir' /\ CalmIsFree' /\ OneHeir'
  BY <1>1, <1>2, SweepKeeps
<1>4. SeriesGoesOn'
  BY <1>2 DEF RowInv, RowTypes, SeriesGoesOn, Of, Live
<1> QED
  BY <1>1, <1>3, <1>4, QueueStays DEF RowInv, QueueInv

LEMMA SweepResetsInv == ASSUME IInv, SweepResets PROVE IInv'
<1>1. CASE UNCHANGED <<rowVars, ack, wanted>>
  <2>1. CalmIsFree'
    BY <1>1, CalmStays DEF IInv, RowInv, RowTypes, SweepResets, rowVars
  <2>2. RowInv'
    BY <1>1, <2>1, RowsStay DEF IInv, RowInv, RowTypes, DeadIsUntouched, GoneHoldsNothing,
       SnapshotHolds, SweepResets, rowVars, histVars
  <2> QED
    BY <2>2, QueueStays DEF IInv, QueueInv, SweepResets
<1>2. CASE ~alive /\ ~UNCHANGED <<rowVars, ack, wanted>>
  <2> DEFINE L == {r \in due : ack[r] = "processing" /\ status[r] = "pending"}
             Failing == {r \in L : tries[r] >= MAX_TRIES}
  <2>1. /\ Charged(L) /\ tries' = Retried(L)
        /\ due' = due \ {r \in L : tries[r] < MAX_TRIES}
        /\ ack' = [r \in Rows |-> IF ack[r] = "processing" THEN "none" ELSE ack[r]]
        /\ wanted' = wanted \ {r[1] : r \in Failing}
        /\ UNCHANGED <<recur, alive, polled, outbox, asked, todo, faults, torn, ended, calm>>
        /\ sweep' = "reset"
    BY <1>2 DEF SweepResets
  <2>2. polled = {}
    BY <1>2 DEF IInv, RowInv, GoneHoldsNothing
  <2>3. status' = [r \in Rows |-> IF r \in Failing THEN "failed" ELSE status[r]]
    BY <2>1 DEF Charged
  <2>4. tries' \in [Rows -> 0..MAX_TRIES]
    BY <2>1 DEF Retried, IInv, RowInv, RowTypes
  <2>5. RowTypes'
    BY <2>1, <2>3, <2>4 DEF IInv, RowInv, RowTypes
  <2>6. \A r \in Rows : ack'[r] = ack[r] \/ ack'[r] = "none"
    BY <2>1
  <2>7. \A r \in Rows : status'[r] # status[r] =>
            status'[r] = "failed" /\ status[r] = "pending" /\ ack'[r] = "none" /\ polled = {}
    BY <2>1, <2>2, <2>3
  <2>8. /\ DeadIsUntouched' /\ GoneHoldsNothing' /\ FirstIsFirst' /\ SnapshotHolds'
        /\ EndedHasNoHeir' /\ CalmIsFree' /\ OneHeir'
    <3> HIDE DEF L, Failing
    <3> QED
      BY <2>1, <2>5, <2>6, <2>7, SweepKeeps DEF IInv
  <2>9. SeriesGoesOn'
    <3>1. SUFFICES ASSUME NEW s \in wanted'
          PROVE  \E r \in Of(s) \cap recur : Live(r)' \/ status'[r] = "completed"
      BY <2>1 DEF SeriesGoesOn, Of
    <3>2. PICK r \in Of(s) \cap recur : Live(r) \/ status[r] = "completed"
      BY <2>1 DEF IInv, RowInv, SeriesGoesOn
    <3>3. r \in Rows /\ r \notin Failing
      BY <2>1, <3>2 DEF Of
    <3>4. status'[r] = status[r]
      BY <2>3, <3>3
    <3> QED
      BY <3>2, <3>4 DEF Live
  <2>10. QueueInv'
    BY <2>1, QueueStays DEF IInv, QueueInv
  <2> QED
    BY <2>5, <2>8, <2>9, <2>10 DEF IInv, RowInv
<1> QED
  BY <1>1, <1>2 DEF SweepResets

\* The successor takes the place of the only heir, unless the recurrence is left behind.
LEMMA ClonesInv == ASSUME IInv, NEW r \in Rows, Clones(r) PROVE IInv'
<1> DEFINE s == r[1]
<1>1. PICK q \in Rows : Unused(s, q) /\ Succeeds(r, q)
  BY DEF Clones
<1>2. /\ r \in Unsucceeded /\ r \in Of(s) /\ q \in Of(s) /\ s \in Series /\ status[q] = "none"
      /\ r # q
  BY <1>1, RowFacts DEF Clones, IInv, RowInv, RowTypes, SnapshotHolds, Unsucceeded, Unused, Of
<1>3. /\ status' = [status EXCEPT ![q] = "pending"]
      /\ \/ recur' = (recur \cup {q}) \ {r} /\ torn' = torn
         \/ recur' = recur \cup {q} /\ torn' = torn \cup {s}
      /\ faults' = faults \/ Fault
      /\ todo' = todo \ {r}
      /\ UNCHANGED <<due, tries, runnerVars, outbox, asked, sweep, wanted, ended, calm>>
  BY <1>1 DEF Clones, Succeeds
<1>4. RowTypes'
  BY <1>2, <1>3 DEF IInv, RowInv, RowTypes, runnerVars
<1>5. DeadIsUntouched' /\ GoneHoldsNothing'
  BY <1>2, <1>3 DEF IInv, RowInv, RowTypes, DeadIsUntouched, GoneHoldsNothing, runnerVars
<1>6. \A p \in Rows : p # q => status'[p] = status[p]
  BY <1>3 DEF IInv, RowInv, RowTypes
<1>7. status'[q] = "pending"
  BY <1>3 DEF IInv, RowInv, RowTypes
<1>8. status[<<s, 1>>] # "none" /\ status'[<<s, 1>>] # "none"
  BY <1>2, <1>6, <1>7, FirstRow DEF IInv, RowInv, FirstIsFirst, Unsucceeded
<1>9. FirstIsFirst'
  BY <1>2, <1>6, <1>8, RowFacts DEF IInv, RowInv, FirstIsFirst, Of
<1>10. SnapshotHolds'
  BY <1>2, <1>3, <1>6 DEF IInv, RowInv, SnapshotHolds, Unsucceeded
<1>11. \A t \in Series : t # s => Heirs(t)' = Heirs(t) /\ \A p \in Of(t) : p # q /\ p # r
  BY <1>2, <1>3, <1>6 DEF Heirs, Unsucceeded, Of, Live
<1>12. s \notin torn' => Heirs(s)' \subseteq (Heirs(s) \ {r}) \cup {q}
  <2>1. SUFFICES ASSUME recur' = (recur \cup {q}) \ {r}
        PROVE Heirs(s)' \subseteq (Heirs(s) \ {r}) \cup {q}
    BY <1>3
  <2>2. \A p \in Of(s) : p # q => p \in Rows /\ status'[p] = status[p]
    BY <1>6 DEF Of
  <2>3. r \notin Heirs(s)'
    BY <1>2, <2>1, <2>2 DEF Heirs, Unsucceeded, Live
  <2> QED
    BY <2>1, <2>2, <2>3 DEF Heirs, Unsucceeded, Of, Live
<1>13. OneHeir'
  <2>1. ASSUME NEW t \in Series \ torn', NEW p1 \in Heirs(t)', NEW p2 \in Heirs(t)' PROVE p1 = p2
    <3>1. t \notin torn
      BY <1>3, <2>1
    <3>2. CASE t # s
      BY <1>11, <2>1, <3>1, <3>2 DEF IInv, RowInv, OneHeir
    <3>3. CASE t = s
      <4>1. r \in Heirs(s)
        BY <1>2 DEF Heirs
      <4> QED
        BY <1>12, <2>1, <3>1, <3>3, <4>1 DEF IInv, RowInv, OneHeir
    <3> QED
      BY <3>2, <3>3
  <2> QED
    BY <2>1 DEF OneHeir
<1>14. EndedHasNoHeir'
  <2>1. s \notin ended
    BY <1>2 DEF IInv, RowInv, EndedHasNoHeir, Heirs
  <2> QED
    BY <1>3, <1>6, <1>11, <2>1, FirstRow DEF IInv, RowInv, RowTypes, EndedHasNoHeir
<1>15. CalmIsFree'
  <2>1. s \notin calm
    BY <1>2 DEF IInv, RowInv, CalmIsFree, AtRest
  <2>2. ASSUME NEW t \in calm
        PROVE AtRest(t)' /\ status'[<<t, 1>>] # "none" /\ \A p \in Of(t) : status'[p] # "pending"
    <3>1. t \in Series /\ t # s /\ AtRest(t) /\ status[<<t, 1>>] # "none"
      BY <2>1, <2>2 DEF IInv, RowInv, RowTypes, CalmIsFree
    <3>2. \A p \in Of(t) : status'[p] = status[p] /\ (p \in recur' <=> p \in recur)
      BY <1>3, <1>6, <1>11, <3>1 DEF Of
    <3>3. AtRest(t)'
      BY <1>3, <3>1, <3>2 DEF AtRest, Unsucceeded, Of, Live, runnerVars
    <3> QED
      BY <2>2, <3>1, <3>2, <3>3, FirstRow DEF IInv, RowInv, CalmIsFree
  <2> QED
    BY <1>3, <2>2 DEF CalmIsFree, Of
<1>16. SeriesGoesOn'
  <2>1. ASSUME NEW t \in wanted
        PROVE \E p \in Of(t) \cap recur' : Live(p)' \/ status'[p] = "completed"
    <3>1. CASE t = s
      BY <1>2, <1>3, <1>7, <3>1 DEF Live
    <3>2. CASE t # s
      <4>1. PICK p \in Of(t) \cap recur : Live(p) \/ status[p] = "completed"
        BY <2>1 DEF IInv, RowInv, SeriesGoesOn
      <4>2. p \in Rows /\ p # q /\ p # r
        BY <1>2, <3>2, <4>1 DEF Of
      <4> QED
        BY <1>3, <1>6, <4>1, <4>2 DEF Live
    <3> QED
      BY <3>1, <3>2
  <2> QED
    BY <1>3, <2>1 DEF SeriesGoesOn, Of
<1>17. QueueInv'
  BY <1>3, QueueStays DEF IInv, QueueInv
<1> QED
  BY <1>4, <1>5, <1>9, <1>10, <1>13, <1>14, <1>15, <1>16, <1>17 DEF IInv, RowInv

------------------------------------------------------------------------------
LEMMA NextInv == IInv /\ [Next]_vars => IInv'
<1> SUFFICES ASSUME IInv, [Next]_vars PROVE IInv'
  OBVIOUS
<1>1. CASE Runner
  BY <1>1, AgentAsksInv, getPendingMessagesInv, markProcessingInv, CompletesInv, SweepWaits,
     RunnerSteps DEF Runner
<1>2. CASE Sweep
  BY <1>2, SweepSyncInv, SweepResetsInv, ClonesInv, SweepWaits DEF Sweep
<1>3. CASE UNCHANGED vars
  <2>1. UNCHANGED <<rowVars, runnerVars, outbox, asked, sweepVars, faults, histVars>>
    BY <1>3 DEF vars
  <2>2. CalmIsFree'
    BY <2>1, CalmStays DEF IInv, RowInv, RowTypes, rowVars, runnerVars, histVars
  <2>3. RowInv'
    BY <2>1, <2>2, RowsStay DEF IInv, RowInv, RowTypes, DeadIsUntouched, GoneHoldsNothing,
       SnapshotHolds, rowVars, runnerVars, sweepVars, histVars
  <2> QED
    BY <2>1, <2>3, QueueStays DEF IInv, QueueInv, sweepVars
<1> QED
  BY <1>1, <1>2, <1>3, HandlerActsInv, HandlerThrowsInv, RunnerSteps DEF Next

LEMMA Invariant == Spec => []IInv
<1> QED
  BY InitInv, NextInv, PTL DEF Spec

\* Every variable keeps its type, and no task is charged more than MAX_TRIES times.
THEOREM TaskTypes == Spec => []TypeOK
<1>1. IInv => TypeOK
  BY DEF IInv, RowInv, QueueInv, RowTypes, TypeOK
<1> QED
  BY <1>1, Invariant, PTL

\* However sweeps, requests, runners and crashes interleave, a series has at most one row that
\* carries it on, unless a fault fell between insertRecurrence and clearRecurrence.
THEOREM OneRowCarriesOn == Spec => []OneHeir
<1>1. IInv => OneHeir
  BY DEF IInv, RowInv
<1> QED
  BY <1>1, Invariant, PTL

\* A recurring series is never lost between two occurrences (recurrence.ts:36-37).
THEOREM NeverLost == Spec => []SeriesGoesOn
<1>1. IInv => SeriesGoesOn
  BY DEF IInv, RowInv
<1> QED
  BY <1>1, Invariant, PTL

\* A series cancelled while no occurrence awaits its successor never comes back
\* (scheduling/db.ts:38-42).
THEOREM CancelledStays == Spec => []CancelEnds
<1>1. IInv => CancelEnds
  BY DEF IInv, RowInv, EndedHasNoHeir, CancelEnds
<1> QED
  BY <1>1, Invariant, PTL

\* A runner claims no row of a series that was paused at rest and not resumed
\* (scheduling/db.ts:44-48).
THEOREM PausedAtRestStays == Spec => CalmPauseHolds
<1>1. IInv /\ [Next]_vars =>
      [\A r \in Rows : ack[r] = "none" /\ ack'[r] = "processing" => r[1] \notin calm]_vars
  <2> SUFFICES ASSUME IInv, Next, NEW r \in Rows, ack[r] = "none", ack'[r] = "processing"
      PROVE  r[1] \notin calm
    OBVIOUS
  <2>1. r \in polled
    BY DEF Next, Runner, Sweep, AgentAsks, getPendingMessages, markProcessing, Completes,
       RunnerGone, RunnerStarts, TimePasses, HandlerActs, HandlerThrows, SweepSync, SweepResets,
       handleRecurrence, Clones, CloneFails, SweepEnds, HostRestarts, rowVars, runnerVars,
       IInv, RowInv, RowTypes
  <2>2. \A s \in calm : polled \cap Of(s) = {}
    BY DEF IInv, RowInv, CalmIsFree, AtRest
  <2> QED
    BY <2>1, <2>2 DEF Of
<1> QED
  BY <1>1, Invariant, PTL DEF Spec, CalmPauseHolds

------------------------------------------------------------------------------
(* The rows of module TaskSeries.                                          *)

LEMMA StageCases ==
    ASSUME NEW s \in {"none", "pending", "paused", "completed", "failed"}, NEW recurs \in BOOLEAN
    PROVE  /\ Stage(s, recurs) = "none" <=> s = "none"
           /\ Stage(s, recurs) = "live" <=> s \in {"pending", "paused"}
           /\ Stage(s, recurs) = "owed" <=> s = "completed" /\ recurs
BY DEF Stage

LEMMA Staging ==
    ASSUME RowTypes
    PROVE  \A r \in Rows : /\ Stages[r] = "none" <=> status[r] = "none"
                           /\ Stages[r] = "live" <=> Live(r)
                           /\ Stages[r] = "owed" <=> r \in Unsucceeded
<1> SUFFICES ASSUME NEW r \in Rows
             PROVE  /\ Stages[r] = "none" <=> status[r] = "none"
                    /\ Stages[r] = "live" <=> Live(r)
                    /\ Stages[r] = "owed" <=> r \in Unsucceeded
  OBVIOUS
<1>1. Stages[r] = Stage(status[r], r \in recur)
  BY DEF Stages
<1>2. status[r] \in {"none", "pending", "paused", "completed", "failed"} /\ (r \in recur) \in BOOLEAN
  BY DEF RowTypes
<1> QED
  BY <1>1, <1>2, StageCases DEF Live, Unsucceeded

\* Requests and losses only end live rows, and leave ended ones as they are.
LEMMA ClosesMap ==
    ASSUME RowTypes, RowTypes', torn' = torn,
           \A r \in Rows : Live(r) \/ (status'[r] = status[r]
                                       /\ (status[r] = "completed" => (r \in recur' <=> r \in recur))),
           \A r \in Rows : Live(r) => status'[r] # "none"
    PROVE  Turns!Next
<1> DEFINE S == {r \in Rows : Live(r) /\ ~Live(r)'}
           O == {r \in Rows : r \in Unsucceeded'}
<1>1. ASSUME NEW r \in Rows
      PROVE  Stages'[r] = IF r \in S THEN IF r \in O THEN "owed" ELSE "over" ELSE Stages[r]
  <2> USE DEF RowTypes, Live, Unsucceeded
  <2>1. status[r] \in {"none", "pending", "paused", "completed", "failed"}
        /\ status'[r] \in {"none", "pending", "paused", "completed", "failed"}
    OBVIOUS
  <2>2. /\ Stages[r] = Stage(status[r], r \in recur)
        /\ Stages'[r] = Stage(status'[r], r \in recur')
    BY DEF Stages
  <2> QED
    BY <2>1, <2>2 DEF Stage
<1>2. Stages' = [r \in Rows |-> IF r \in S THEN IF r \in O THEN "owed" ELSE "over" ELSE Stages[r]]
  BY <1>1 DEF Stages
<1>3. S \subseteq {r \in Rows : Stages[r] = "live"}
  BY Staging
<1>4. S \in SUBSET Rows /\ O \in SUBSET Rows
  OBVIOUS
<1> HIDE DEF S, O
<1>5. Turns!Close(S, O)
  BY <1>2, <1>3 DEF Turns!Close
<1> QED
  BY <1>4, <1>5 DEF Turns!Next

LEMMA StartsMap ==
    ASSUME RowInv, RowTypes', NEW id \in Rows, id[2] = 1, insertTask(id), torn' = torn
    PROVE  Turns!Next
<1> USE DEF RowInv
<1>1. id = <<id[1], 1>>
  BY RowFacts
<1>2. \A q \in Turns!Kin(id) : status[q] = "none"
  BY <1>1 DEF Turns!Kin, FirstIsFirst, insertTask
<1>3. \A q \in Turns!Kin(id) : Stages[q] = "none"
  BY <1>2, Staging DEF Turns!Kin
<1>4. Stages' = [Stages EXCEPT ![id] = "live"]
  <2>1. \A r \in Rows : Stage(status'[r], r \in recur') =
                          IF r = id THEN "live" ELSE Stage(status[r], r \in recur)
    BY DEF insertTask, RowTypes, Stage
  <2> QED
    BY <2>1 DEF Stages
<1> QED
  BY <1>3, <1>4 DEF Turns!Start, Turns!Next

LEMMA HandlersMap ==
    ASSUME IInv, IInv', HandlerActs
    PROVE  Turns!Next
<1> DEFINE q == Head(outbox)
<1>1. q \in Request /\ (q.op = "schedule" => q.id[2] = 1)
  <2>1. outbox \in Seq(Request) /\ outbox # <<>>
    BY DEF IInv, QueueInv, HandlerActs
  <2>2. q = outbox[1] /\ q \in Request /\ 1 \in 1..Len(outbox)
    BY <2>1
  <2> QED
    BY <2>2 DEF IInv, QueueInv, SchedulesFirst
<1>2. q.id \in Rows /\ q.cron \in {"kept", "set", "cleared"}
  BY <1>1 DEF Request
<1>3. RowInv /\ RowTypes /\ RowTypes' /\ torn' = torn /\ Handler(q)
  BY DEF IInv, RowInv, HandlerActs
<1> HIDE DEF q
<1>4. CASE q.op = "schedule" /\ insertTask(q.id)
  BY <1>1, <1>2, <1>3, <1>4, StartsMap
<1> USE DEF Matched, Live
<1>5. CASE cancelTask(q.id)
  BY <1>3, <1>5, ClosesMap DEF cancelTask, Cancelled, RowTypes
<1>6. CASE pauseTask(q.id)
  BY <1>3, <1>6, ClosesMap DEF pauseTask, RowTypes
<1>7. CASE resumeTask(q.id)
  BY <1>3, <1>7, ClosesMap DEF resumeTask, RowTypes
<1>8. CASE updateTask(q.id, q.cron)
  <2>1. status' = status /\ \A r \in Rows : Live(r) \/ (r \in recur' <=> r \in recur)
    BY <1>2, <1>8 DEF updateTask
  <2> QED
    BY <1>3, <2>1, ClosesMap DEF RowTypes
<1> QED
  BY <1>3, <1>4, <1>5, <1>6, <1>7, <1>8 DEF Handler

LEMMA ClonesMap ==
    ASSUME IInv, NEW r \in Rows, Clones(r)
    PROVE  Turns!Next
<1> USE DEF IInv, RowInv
<1>1. r \in Unsucceeded
  BY DEF Clones, SnapshotHolds
<1>2. PICK q \in Rows : Unused(r[1], q) /\ Succeeds(r, q)
  BY DEF Clones
<1>3. q \in Turns!Kin(r) /\ status[q] = "none" /\ q # r
  BY <1>1, <1>2 DEF Unused, Of, Turns!Kin, Unsucceeded
<1>4. status' = [status EXCEPT ![q] = "pending"]
  BY <1>2 DEF Succeeds
<1>5. CASE recur' = (recur \cup {q}) \ {r} /\ UNCHANGED torn
  <2>1. \A p \in Rows : Stage(status'[p], p \in recur') =
           IF p = r THEN "over" ELSE IF p = q THEN "live" ELSE Stage(status[p], p \in recur)
    BY <1>1, <1>3, <1>4, <1>5 DEF RowTypes, Unsucceeded, Stage
  <2>2. Stages' = [Stages EXCEPT ![r] = "over", ![q] = "live"]
    BY <1>3, <2>1 DEF Stages
  <2> QED
    BY <1>1, <1>3, <1>5, <2>2, Staging DEF Turns!Succeed, Turns!Next
<1>6. CASE recur' = recur \cup {q} /\ torn' = torn \cup {r[1]}
  <2>1. \A p \in Rows : Stage(status'[p], p \in recur') =
           IF p = q THEN "live" ELSE Stage(status[p], p \in recur)
    BY <1>3, <1>4, <1>6 DEF RowTypes, Stage
  <2>2. Stages' = [Stages EXCEPT ![q] = "live"]
    BY <1>3, <2>1 DEF Stages
  <2> QED
    BY <1>1, <1>3, <1>6, <2>2, Staging DEF Turns!Succeed, Turns!Next
<1> QED
  BY <1>2, <1>5, <1>6 DEF Succeeds

\* Requests, runner, sweep and crashes implement the rows of TaskSeries: a series is started once, by
\* its first row, and each turn is passed on by the row that owes it, to one row, or to two only when a
\* crash falls between insertRecurrence and clearRecurrence (recurrence.ts:36-37, scheduling/db.ts).
THEOREM ImplementsTurns == Spec => KeepsTurns
<1>1. Init => Turns!Init
  BY DEF Init, Turns!Init, Stages, Stage
<1>2. IInv /\ IInv' /\ [Next]_vars => [Turns!Next]_<<Stages, torn>>
  <2> SUFFICES ASSUME IInv, IInv', [Next]_vars PROVE Turns!Next \/ UNCHANGED <<Stages, torn>>
    OBVIOUS
  <2>0. RowTypes /\ RowTypes' /\ DeadIsUntouched
    BY DEF IInv, RowInv
  <2>1. CASE UNCHANGED <<status, recur, torn>>
    BY <2>1 DEF Stages
  <2>2. CASE HandlerActs
    BY <2>2, HandlersMap
  <2>3. CASE SweepSync
    BY <2>0, <2>3, ClosesMap DEF SweepSync, histVars, RowTypes, DeadIsUntouched, Live
  <2>4. CASE SweepResets
    BY <2>0, <2>4, ClosesMap DEF SweepResets, Charged, rowVars, RowTypes, Live
  <2>5. ASSUME NEW r \in Rows, Clones(r) PROVE Turns!Next
    BY <2>5, ClonesMap
  <2> QED
    BY <2>1, <2>2, <2>3, <2>4, <2>5 DEF Next, Runner, Sweep, AgentAsks, getPendingMessages,
       markProcessing, Completes, RunnerGone, RunnerStarts, TimePasses, HandlerThrows,
       handleRecurrence, CloneFails, SweepEnds, HostRestarts, rowVars, histVars, vars
<1> QED
  BY <1>1, <1>2, Invariant, PTL DEF Spec, KeepsTurns, Turns!Spec

\* A series has one row with its turn, live or owing a successor, unless a crash has doubled it.
TurnIsHeldOnce ==
    \A p, q \in Rows : /\ p[1] = q[1] /\ p[1] \notin torn
                       /\ Stages[p] \in {"live", "owed"} /\ Stages[q] \in {"live", "owed"}
                       => p = q

\* The promise is strong enough: TurnIsHeldOnce follows from the steps of TaskSeries alone, whatever
\* requests and sweeps carry them out (insertTask, insertRecurrence).
THEOREM TurnsAreUnique == KeepsTurns => []TurnIsHeldOnce
<1>1. Turns!Init => TurnIsHeldOnce
  BY DEF Turns!Init, TurnIsHeldOnce
<1>2. ASSUME TurnIsHeldOnce, Turns!Next PROVE TurnIsHeldOnce'
  <2>1. Stages = [r \in Rows |-> Stages[r]]
    BY DEF Stages
  <2>2. ASSUME NEW r \in Rows, Turns!Start(r) PROVE TurnIsHeldOnce'
    BY <1>2, <2>1, <2>2 DEF Turns!Start, Turns!Kin, TurnIsHeldOnce
  <2>3. ASSUME NEW S \in SUBSET Rows, NEW O \in SUBSET Rows, Turns!Close(S, O) PROVE TurnIsHeldOnce'
    BY <1>2, <2>1, <2>3 DEF Turns!Close, TurnIsHeldOnce
  <2>4. ASSUME NEW r \in Rows, NEW q \in Rows, Turns!Succeed(r, q) PROVE TurnIsHeldOnce'
    BY <1>2, <2>1, <2>4 DEF Turns!Succeed, Turns!Kin, TurnIsHeldOnce
  <2> QED
    BY <1>2, <2>2, <2>3, <2>4 DEF Turns!Next
<1>3. TurnIsHeldOnce /\ UNCHANGED <<Stages, torn>> => TurnIsHeldOnce'
  BY DEF TurnIsHeldOnce
<1> QED
  BY <1>1, <1>2, <1>3, PTL DEF KeepsTurns, Turns!Spec

=============================================================================
