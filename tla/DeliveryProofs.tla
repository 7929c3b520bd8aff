--------------------------- MODULE DeliveryProofs ---------------------------
(***************************************************************************)
(* Proofs about Delivery, for any sessions, rows and bounds.               *)
(***************************************************************************)
EXTENDS Delivery, FiniteSetTheorems, TLAPS

\* The attempt counter and the number of rows are naturals.
LEMMA Numbers ==
    /\ \A t \in 1..Cardinality(Rows) : t \in Nat /\ t > 0
    /\ MAX_DELIVERY_ATTEMPTS \in Nat /\ MaxCrashes \in Nat
<1>1. Cardinality(Rows) \in Nat
  BY FS_CardinalityType, RowsAndSessions
<1> QED
  BY <1>1, Limits

----------------------------------------------------------------------------
(* The pollers.                                                            *)

PollerType ==
    /\ inflight \subseteq Sessions
    /\ at \in [Pollers -> {"visit", "row", "send", "shown"}]
    /\ visit \in [Pollers -> Sessions \cup {NoSession}]
    /\ todo \in [Pollers -> SUBSET Rows]
    /\ row \in [Pollers -> Rows \cup {NoRow}]

PollerInv == PollerType /\ GuardIsExact /\ WorksOnItsSession

\* Leaving a row, after whatever became of it, keeps the pollers in order,
\* as long as no other row's outcome has changed.
LEMMA AdvanceKeeps ==
    ASSUME TypeOK, PollerInv, NEW p \in Pollers, Working(p), Advance(p),
           stamp' = stamp,
           \A r \in Rows : r # row[p] => outcome'[r] = outcome[r]
    PROVE  PollerInv' /\ row'[p] # row[p] /\ ~(at'[p] = "shown")
           /\ \A q \in Pollers : q # p => at'[q] = at[q] /\ row'[q] = row[q]
<1> USE DEF PollerInv, PollerType, Pollers, Working
<1>0. /\ visit[p] \in Sessions /\ row[p] \in Undelivered(visit[p])
      /\ todo[p] \subseteq Undelivered(visit[p]) \ {row[p]}
  BY DEF WorksOnItsSession
<1>1. \A q \in Pollers : q # p /\ Working(q) =>
        visit[q] # visit[p] /\ visit[q] \in Sessions /\ row[q] \in Undelivered(visit[q])
        /\ todo[q] \subseteq Undelivered(visit[q]) \ {row[q]}
  BY <1>0, RowsAndSessions DEF GuardIsExact, WorksOnItsSession
<1>2. \A s \in Sessions : \A r \in Undelivered(s) : r # row[p] => r \in Undelivered(s)'
  BY DEF Undelivered
<1>3. \A q \in Pollers : q # p /\ Working(q) => \A s \in Sessions : s = visit[q] =>
        row[q] \in Undelivered(s)' /\ todo[q] \subseteq Undelivered(s)' \ {row[q]}
  <2>1. \A q \in Pollers : q # p /\ Working(q) =>
          row[p] \notin Undelivered(visit[q])
    BY <1>0, <1>1 DEF Undelivered
  <2> QED BY <1>1, <1>2, <2>1
<1>4. CASE todo[p] = {} /\ EndDrain(p)
  <2>1. PollerType' /\ row'[p] # row[p] /\ at'[p] # "shown"
    BY <1>0, <1>4, RowsAndSessions DEF EndDrain, Undelivered
  <2>2. \A q \in Pollers : q # p =>
          at'[q] = at[q] /\ row'[q] = row[q] /\ visit'[q] = visit[q] /\ todo'[q] = todo[q]
    BY <1>4 DEF EndDrain
  <2>3. /\ at'[p] = "visit" /\ row'[p] = NoRow /\ visit'[p] = NoSession
        /\ todo'[p] = {} /\ inflight' = inflight \ {visit[p]}
    BY <1>4 DEF EndDrain
  <2>4. WorksOnItsSession'
    BY <1>1, <1>3, <2>2, <2>3 DEF WorksOnItsSession
  <2>5. GuardIsExact'
    BY <1>0, <1>1, <2>2, <2>3, RowsAndSessions DEF GuardIsExact
  <2> QED BY <2>1, <2>2, <2>4, <2>5
<1>5. CASE TakeUp(p, todo[p])
  <2>1. PICK r \in Earliest(todo[p]) :
          /\ at' = [at EXCEPT ![p] = "row"]
          /\ row' = [row EXCEPT ![p] = r]
          /\ todo' = [todo EXCEPT ![p] = todo[p] \ {r}]
    BY <1>5 DEF TakeUp
  <2>2. r \in todo[p] /\ r \in Rows /\ r # row[p] /\ UNCHANGED <<inflight, visit>>
    BY <1>0, <1>5, <2>1 DEF Earliest, TakeUp
  <2>3. PollerType' /\ row'[p] = r /\ at'[p] = "row" /\ todo'[p] = todo[p] \ {r}
    BY <2>1, <2>2
  <2>4. \A q \in Pollers : q # p =>
          at'[q] = at[q] /\ row'[q] = row[q] /\ todo'[q] = todo[q]
    BY <2>1
  <2>5. /\ r \in Undelivered(visit[p])'
        /\ todo'[p] \subseteq Undelivered(visit[p])' \ {r}
    BY <1>0, <1>2, <2>2, <2>3 DEF Undelivered
  <2>6. WorksOnItsSession'
    BY <1>0, <1>1, <1>3, <2>2, <2>3, <2>4, <2>5 DEF WorksOnItsSession
  <2>7. GuardIsExact'
    BY <2>2, <2>3, <2>4 DEF GuardIsExact
  <2> QED BY <2>2, <2>3, <2>4, <2>6, <2>7
<1> QED
  BY <1>4, <1>5 DEF Advance

----------------------------------------------------------------------------
(* The invariant.                                                          *)

LEMMA InitInv == Init => IInv
<1> SUFFICES ASSUME Init PROVE IInv
  OBVIOUS
<1> USE DEF Init, Zero, Pollers, Working
<1>1. TypeOK
  BY Numbers DEF TypeOK
<1>2. GuardIsExact /\ WorksOnItsSession
  BY DEF GuardIsExact, WorksOnItsSession
<1>3. Untouched /\ ShownOncePerFault
  BY DEF Untouched, ShownOncePerFault, Unrecorded
<1> QED
  BY <1>1, <1>2, <1>3 DEF IInv

\* A poller that leaves its row, however it does.
LEMMA LeaveInv ==
    ASSUME IInv, NEW p \in Pollers, NEW r, r = row[p],
           Returns(p) \/ Drops(p) \/ Throws(p)
    PROVE  IInv'
<1> USE DEF IInv
<1>1. /\ Working(p) /\ Advance(p) /\ UNCHANGED <<stamp, up, list, crashes, seen, answered>>
      /\ r \in Rows /\ outcome[r] = "none" /\ stamp[r] > 0
      /\ \A q \in Rows : q # r => outcome'[q] = outcome[q] /\ faults'[q] = faults[q]
  <2>1. Working(p)
    BY DEF Returns, Drops, Throws, Working
  <2>2. r \in Rows /\ outcome[r] = "none" /\ stamp[r] > 0
    BY <2>1 DEF WorksOnItsSession, Undelivered
  <2> QED
    BY <2>1, <2>2 DEF Returns, Drops, Throws, Settled, Mark, TypeOK, rowVars, histVars
<1>2. PollerInv
  BY DEF PollerInv, PollerType, TypeOK
<1>3. /\ PollerInv' /\ row'[p] # r /\ at'[p] # "shown"
      /\ \A q \in Pollers : q # p => at'[q] = at[q] /\ row'[q] = row[q]
  BY <1>1, <1>2, AdvanceKeeps
<1>4. \A q \in Pollers : q # p => row[q] # r
  <2> SUFFICES ASSUME NEW q \in Pollers, q # p PROVE row[q] # r
    OBVIOUS
  <2>1. CASE Working(q)
    BY <1>1, <2>1, RowsAndSessions DEF WorksOnItsSession, GuardIsExact, Undelivered
  <2>2. CASE ~Working(q)
    BY <1>1, <2>2, RowsAndSessions DEF WorksOnItsSession
  <2> QED BY <2>1, <2>2
<1>5. \A q \in Rows : q # r => (Unrecorded(q)' <=> Unrecorded(q))
  BY <1>1, <1>3 DEF Unrecorded, WorksOnItsSession
<1>6. ~Unrecorded(r)'
  BY <1>3, <1>4 DEF Unrecorded
<1>7. Unrecorded(r) <=> at[p] = "shown"
  BY <1>4 DEF Unrecorded
<1>8. TypeOK'
  <2>1. outcome' \in [Rows -> {"none", "delivered", "failed"}]
    BY <1>1 DEF TypeOK, Returns, Drops, Throws, Settled, Mark
  <2>2. attempts' \in [Rows -> Nat] /\ throws' \in [Rows -> Nat] /\ faults' \in [Rows -> Nat]
    BY <1>1 DEF TypeOK, Returns, Drops, Throws, Settled, histVars
  <2>3. posed' \subseteq Question
    BY DEF TypeOK, Returns, Drops, Throws
  <2>4. UNCHANGED <<stamp, up, list, crashes, seen, answered>>
    BY <1>1
  <2> QED
    BY <1>3, <2>1, <2>2, <2>3, <2>4 DEF TypeOK, PollerInv, PollerType
<1>9. Untouched'
  BY <1>1 DEF Untouched
<1>10. /\ outcome'[r] = "delivered" => (at[p] = "shown" <=> r \notin Unroutable) /\ faults'[r] = faults[r]
       /\ outcome'[r] # "delivered" => faults'[r] = faults[r] + (IF at[p] = "shown" THEN 1 ELSE 0)
  <2>1. CASE Returns(p)
    BY <1>1, <2>1 DEF Returns, Settled, Mark, TypeOK, WorksOnItsSession, histVars
  <2>2. CASE Drops(p)
    BY <1>1, <2>2 DEF Drops, Settled, Mark, TypeOK, histVars
  <2>3. CASE Throws(p)
    BY <1>1, <2>3 DEF Throws, Mark, TypeOK
  <2> QED BY <2>1, <2>2, <2>3
<1>11. ShownOncePerFault'
  <2> SUFFICES ASSUME NEW q \in Rows
               PROVE  seen'[q] = faults'[q] + (IF Unrecorded(q)' \/ (outcome'[q] = "delivered" /\ q \notin Unroutable) THEN 1 ELSE 0)
    BY DEF ShownOncePerFault
  <2>1. CASE q # r
    BY <1>1, <1>5, <2>1 DEF ShownOncePerFault
  <2>2. CASE q = r
    BY <1>1, <1>6, <1>7, <1>10, <2>2 DEF ShownOncePerFault, TypeOK
  <2> QED BY <2>1, <2>2
<1> QED
  BY <1>3, <1>8, <1>9, <1>11 DEF PollerInv

\* A poller that starts to drain a session, or skips it.
LEMMA PollInv ==
    ASSUME IInv, NEW p \in Pollers, NEW s \in Sessions, PollSession(p, s)
    PROVE  IInv'
<1> USE DEF IInv
<1>0. /\ UNCHANGED <<stamp, outcome, posed, up, attempts, crashes, seen, faults, throws, answered>>
      /\ at[p] = "visit" /\ list' = [list EXCEPT ![p] = @ \ {s}]
  BY DEF PollSession, rowVars, histVars
<1>1. CASE UNCHANGED <<at, visit, todo, row, inflight>>
  <2>1. TypeOK'
    BY <1>0, <1>1 DEF TypeOK
  <2>2. GuardIsExact' /\ WorksOnItsSession'
    BY <1>0, <1>1 DEF GuardIsExact, WorksOnItsSession, Undelivered, Working
  <2>3. Untouched' /\ ShownOncePerFault'
    BY <1>0, <1>1 DEF Untouched, ShownOncePerFault, Unrecorded
  <2> QED BY <2>1, <2>2, <2>3
<1>2. CASE ~Skips(s) /\ StartDrain(p, s)
  <2>1. PICK r \in Earliest(Undelivered(s)) :
          /\ at' = [at EXCEPT ![p] = "row"]
          /\ row' = [row EXCEPT ![p] = r]
          /\ todo' = [todo EXCEPT ![p] = Undelivered(s) \ {r}]
    BY <1>2 DEF StartDrain
  <2>2. /\ r \in Undelivered(s) /\ r \in Rows /\ Undelivered(s) \subseteq Rows
        /\ s \notin inflight /\ s # NoSession
        /\ inflight' = inflight \cup {s} /\ visit' = [visit EXCEPT ![p] = s]
    BY <1>2, RowsAndSessions DEF Earliest, Undelivered, StartDrain, Skips
  <2>3. TypeOK'
    BY <1>0, <2>1, <2>2 DEF TypeOK
  <2>4. /\ at'[p] = "row" /\ row'[p] = r /\ todo'[p] = Undelivered(s) \ {r} /\ visit'[p] = s
        /\ \A q \in Pollers : q # p => /\ at'[q] = at[q] /\ row'[q] = row[q]
                                      /\ todo'[q] = todo[q] /\ visit'[q] = visit[q]
    BY <2>1, <2>2 DEF TypeOK
  <2>5. \A q \in Pollers : visit[q] # s
    BY <2>2 DEF GuardIsExact
  <2>6. visit[p] = NoSession
    BY <1>0 DEF GuardIsExact, Working
  <2>7. GuardIsExact'
    BY <2>2, <2>4, <2>5, <2>6 DEF GuardIsExact, Working
  <2>8. WorksOnItsSession'
    <3>1. \A t \in Sessions : Undelivered(t)' = Undelivered(t)
      BY <1>0 DEF Undelivered
    <3> QED BY <2>2, <2>4, <3>1 DEF WorksOnItsSession, Working
  <2>9. \A q \in Rows : Unrecorded(q)' <=> Unrecorded(q)
    BY <1>0, <2>4 DEF Unrecorded
  <2>10. Untouched' /\ ShownOncePerFault'
    BY <1>0, <2>9 DEF Untouched, ShownOncePerFault
  <2> QED BY <2>3, <2>7, <2>8, <2>10
<1> QED
  BY <1>1, <1>2 DEF PollSession

\* A poller that calls the adapter, or whose row reaches its destination.
LEMMA SendInv ==
    ASSUME IInv, NEW p \in Pollers, NEW r, r = row[p], Sends(p) \/ Shows(p)
    PROVE  IInv'
<1> USE DEF IInv
<1>1. /\ UNCHANGED <<stamp, outcome, up, inflight, attempts, list, visit, todo, row, crashes, faults, throws, answered>>
      /\ Working(p) /\ r \in Rows /\ outcome[r] = "none" /\ r \in Undelivered(visit[p]) /\ stamp[r] > 0
      /\ r \notin Unroutable
  BY DEF Sends, Shows, Working, histVars, rowVars, WorksOnItsSession, Undelivered
<1>2. \A q \in Pollers : q # p => row[q] # r
  BY <1>1, RowsAndSessions DEF WorksOnItsSession, GuardIsExact, Undelivered, Working
<1>3. TypeOK'
  BY <1>1 DEF TypeOK, Sends, Shows, rowVars, histVars
<1>4. /\ Working(p)' /\ at'[p] # "row" /\ \A q \in Pollers : q # p => at'[q] = at[q]
      /\ at'[p] = "shown" <=> Shows(p)
  BY DEF Sends, Shows, Working, TypeOK
<1>5. GuardIsExact' /\ WorksOnItsSession'
  <2>1. \A t \in Sessions : Undelivered(t)' = Undelivered(t)
    BY <1>1 DEF Undelivered
  <2> QED BY <1>1, <1>4, <2>1 DEF GuardIsExact, WorksOnItsSession, Working
<1>6. Untouched'
  BY <1>1 DEF Untouched, Sends, Shows, histVars, TypeOK
<1>7. ShownOncePerFault'
  <2>1. \A q \in Rows : q # r => (Unrecorded(q)' <=> Unrecorded(q)) /\ seen'[q] = seen[q]
    BY <1>1, <1>4 DEF Unrecorded, Sends, Shows, histVars, TypeOK
  <2>2. ~Unrecorded(r)
    BY <1>2 DEF Unrecorded, Sends, Shows
  <2>3. seen'[r] = faults'[r] + (IF Unrecorded(r)' THEN 1 ELSE 0)
    <3>1. seen[r] = faults[r] /\ seen[r] \in Nat
      BY <1>1, <2>2 DEF ShownOncePerFault, TypeOK
    <3>2. CASE Sends(p)
      BY <1>1, <1>2, <3>1, <3>2 DEF Sends, Unrecorded, histVars, TypeOK
    <3>3. CASE Shows(p)
      BY <1>1, <1>4, <3>1, <3>3 DEF Shows, Unrecorded, TypeOK
    <3> QED BY <3>2, <3>3
  <2> QED BY <1>1, <2>1, <2>3 DEF ShownOncePerFault
<1> QED
  BY <1>3, <1>5, <1>6, <1>7

\* A row enters a session's outbound.db.
LEMMA WriteInv ==
    ASSUME IInv, NEW r \in Rows, NEW t \in 1..Cardinality(Rows), WriteOut(r, t)
    PROVE  IInv'
<1> USE DEF IInv
<1>1. /\ UNCHANGED <<outcome, posed, up, inflight, attempts, at, list, visit, todo, row, crashes, seen, faults, throws, answered>>
      /\ stamp[r] = 0 /\ stamp' = [stamp EXCEPT ![r] = t] /\ t \in Nat /\ t > 0
  BY Numbers DEF WriteOut, pollVars, histVars
<1>2. TypeOK'
  BY <1>1 DEF TypeOK
<1>3. \A s \in Sessions : Undelivered(s) \subseteq Undelivered(s)'
  BY <1>1 DEF Undelivered, TypeOK
<1>4. GuardIsExact' /\ WorksOnItsSession'
  BY <1>1, <1>3 DEF GuardIsExact, WorksOnItsSession, Working
<1>5. Untouched' /\ ShownOncePerFault'
  BY <1>1 DEF Untouched, ShownOncePerFault, Unrecorded, TypeOK
<1> QED
  BY <1>2, <1>4, <1>5

\* The process ends: what a poller was about to record is lost.
LEMMA StopInv ==
    ASSUME IInv, HostStops
    PROVE  IInv'
<1> USE DEF IInv
<1>1. /\ UNCHANGED <<stamp, outcome, posed, seen, throws, answered>>
      /\ \A p \in Pollers : ~Working(p)' /\ at'[p] = "visit" /\ visit'[p] = NoSession
                          /\ row'[p] = NoRow /\ todo'[p] = {}
      /\ inflight' = {}
  BY DEF HostStops, rowVars, Working
<1>2. TypeOK'
  <2>1. faults' \in [Rows -> Nat] /\ attempts' \in [Rows -> Nat]
    BY DEF TypeOK, HostStops, Zero
  <2>2. up' = FALSE /\ crashes' \in Nat
    BY Numbers DEF TypeOK, HostStops
  <2>3. /\ at' \in [Pollers -> {"visit"}] /\ list' \in [Pollers -> {{}}]
        /\ visit' \in [Pollers -> {NoSession}] /\ todo' \in [Pollers -> {{}}]
        /\ row' \in [Pollers -> {NoRow}]
    BY DEF HostStops
  <2> QED BY <1>1, <2>1, <2>2, <2>3 DEF TypeOK
<1>3. GuardIsExact' /\ WorksOnItsSession' /\ Untouched'
  BY <1>1 DEF GuardIsExact, WorksOnItsSession, Untouched
<1>4. \A r \in Rows : ~Unrecorded(r)' /\ (Unrecorded(r) => outcome[r] = "none")
  BY <1>1 DEF Unrecorded, WorksOnItsSession, Working, Undelivered
<1>5. \A r \in Rows : faults'[r] = IF Unrecorded(r) THEN faults[r] + 1 ELSE faults[r]
  BY DEF HostStops, Unrecorded
<1>6. ShownOncePerFault'
  BY <1>1, <1>4, <1>5 DEF ShownOncePerFault, TypeOK
<1> QED
  BY <1>2, <1>3, <1>6

\* What touches neither the rows' fate nor the pollers' places.
LEMMA RestInv ==
    ASSUME IInv,
           \/ \E p \in Pollers : PollStarts(p)
           \/ \E r \in Question : Answers(r)
           \/ HostStarts
           \/ UNCHANGED vars
    PROVE  IInv'
<1> USE DEF IInv
<1>1. UNCHANGED <<stamp, outcome, inflight, at, visit, todo, row, seen, faults>>
  BY DEF PollStarts, Answers, HostStarts, vars, rowVars, pollVars, histVars
<1>2. TypeOK'
  <2>1. CASE \E p \in Pollers : PollStarts(p)
    BY <2>1 DEF TypeOK, PollStarts, rowVars, histVars
  <2>2. CASE \E r \in Question : Answers(r)
    BY <2>2, RowsAndSessions DEF TypeOK, Answers, pollVars
  <2>3. CASE HostStarts
    BY <2>3 DEF TypeOK, HostStarts, rowVars, pollVars, histVars
  <2>4. CASE UNCHANGED vars
    BY <2>4 DEF TypeOK, vars, rowVars, pollVars, histVars
  <2> QED BY <2>1, <2>2, <2>3, <2>4
<1>3. GuardIsExact' /\ WorksOnItsSession'
  BY <1>1 DEF GuardIsExact, WorksOnItsSession, Undelivered, Working
<1>4. Untouched' /\ ShownOncePerFault'
  BY <1>1 DEF Untouched, ShownOncePerFault, Unrecorded
<1> QED
  BY <1>2, <1>3, <1>4

LEMMA StepInv == IInv /\ [Next]_vars => IInv'
<1> SUFFICES ASSUME IInv, [Next]_vars PROVE IInv'
  OBVIOUS
<1>1. ASSUME NEW p \in Pollers, PollerStep(p) PROVE IInv'
  <2>1. CASE RowStep(p)
    BY <2>1, SendInv, LeaveInv DEF RowStep
  <2>2. CASE \E s \in Sessions : PollSession(p, s)
    BY <2>2, PollInv
  <2>3. CASE PollStarts(p)
    BY <2>3, RestInv
  <2> QED BY <1>1, <2>1, <2>2, <2>3 DEF PollerStep
<1>2. ASSUME NEW r \in Rows, NEW t \in 1..Cardinality(Rows), WriteOut(r, t) PROVE IInv'
  BY <1>2, WriteInv
<1>3. CASE HostStops
  BY <1>3, StopInv
<1>4. CASE (\E r \in Question : Answers(r)) \/ HostStarts \/ UNCHANGED vars
  BY <1>4, RestInv
<1> QED
  BY <1>1, <1>2, <1>3, <1>4 DEF Next

\* The two timer chains never drain one session at once, and no session
\* stays locked after its drain (inflightDeliveries, delivery.ts).
THEOREM OneDrainPerSession == Spec => []GuardIsExact
<1>1. IInv => GuardIsExact
  BY DEF IInv
<1> QED
  BY InitInv, StepInv, <1>1, PTL DEF Spec

\* Whatever the pollers, retries and restarts do, a row is shown exactly
\* once more than faults have struck it, if it is shown at all.
THEOREM NoDuplicateWithoutFault == Spec => [](TypeOK /\ ShownOncePerFault)
<1>1. IInv => TypeOK /\ ShownOncePerFault
  BY DEF IInv
<1> QED
  BY InitInv, StepInv, <1>1, PTL DEF Spec

----------------------------------------------------------------------------
(* Cards and the order of first tries.                                     *)

\* The adapter has been called with r, and the call is not over.
Sent(r) == \E p \in Pollers : at[p] \in {"send", "shown"} /\ row[p] = r

\* A card that is shown or being sent has its row, and each further row or answer was paid for by an
\* error or a restart.
CardInv ==
    \A r \in Question :
        /\ (seen[r] > 0 \/ Sent(r)) /\ answered[r] = 0 => r \in posed
        /\ answered[r] + (IF r \in posed THEN 1 ELSE 0)
             <= throws[r] + crashes + (IF outcome[r] = "delivered" \/ Sent(r) THEN 1 ELSE 0)

\* What is older than the row at work was tried; what is older than a row of the snapshot was tried,
\* or is in the snapshot too.
OrderInv ==
    \A p \in Pollers : Working(p) =>
        \A q \in Rows : Owner[q] = visit[p] /\ stamp[q] > 0 =>
            /\ stamp[q] < stamp[row[p]] => Tried(q)
            /\ \A u \in todo[p] : stamp[q] < stamp[u] => Tried(q) \/ q \in todo[p] \cup {row[p]}

LEMMA CardInit == Init => CardInv /\ OrderInv
  BY RowsAndSessions, Numbers DEF Init, Zero, CardInv, OrderInv, Sent, Pollers, Working

\* Two pollers never work on one row.
LEMMA OneWorker ==
    ASSUME IInv, NEW p \in Pollers, Working(p)
    PROVE  /\ row[p] \in Rows /\ outcome[row[p]] = "none" /\ stamp[row[p]] > 0 /\ Owner[row[p]] = visit[p]
           /\ visit[p] \in Sessions /\ todo[p] \subseteq Undelivered(visit[p]) \ {row[p]}
           /\ \A q \in Pollers : q # p => row[q] # row[p] /\ visit[q] # visit[p]
<1>1. /\ visit[p] \in Sessions /\ row[p] \in Undelivered(visit[p])
      /\ todo[p] \subseteq Undelivered(visit[p]) \ {row[p]}
  BY DEF IInv, WorksOnItsSession
<1>2. ASSUME NEW q \in Pollers, q # p PROVE row[q] # row[p] /\ visit[q] # visit[p]
  <2>1. CASE Working(q)
    BY <1>1, <1>2, <2>1, RowsAndSessions DEF IInv, WorksOnItsSession, GuardIsExact, Undelivered
  <2>2. CASE ~Working(q)
    BY <1>1, <1>2, <2>2, RowsAndSessions DEF IInv, WorksOnItsSession, Undelivered
  <2> QED BY <2>1, <2>2
<1> QED
  BY <1>1, <1>2 DEF Undelivered

\* A row is sent, or reaches its destination.
LEMMA CardSends ==
    ASSUME IInv, CardInv, NEW p \in Pollers, Sends(p) \/ Shows(p)
    PROVE  CardInv'
<1> DEFINE r == row[p]
<1>1. Working(p) /\ UNCHANGED <<outcome, row, crashes, throws, answered>> /\ r \in Rows /\ outcome[r] = "none"
  BY OneWorker DEF Sends, Shows, Working, rowVars, histVars
<1>2. \A q \in Pollers : q # p => row[q] # r /\ at'[q] = at[q]
  BY <1>1, OneWorker DEF Sends, Shows, IInv, TypeOK
<1>3. Sent(r)' /\ \A q \in Rows : q # r => (Sent(q)' <=> Sent(q))
  <2>1. at'[p] \in {"send", "shown"}
    BY DEF Sends, Shows, IInv, TypeOK
  <2> QED BY <1>1, <1>2, <2>1 DEF Sent
<1>4. \A q \in Rows : q # r => seen'[q] = seen[q] /\ (q \in posed' <=> q \in posed)
  BY <1>1 DEF Sends, Shows, histVars, rowVars, IInv, TypeOK
<1>5. CASE Sends(p)
  <2>1. ~Sent(r)
    BY <1>2, <1>5 DEF Sent, Sends
  <2>2. r \in Question => r \in posed'
    BY <1>5 DEF Sends
  <2>3. \A q \in Question : q \in Rows
    BY RowsAndSessions
  <2>4. crashes \in Nat /\ \A q \in Rows : answered[q] \in Nat /\ throws[q] \in Nat
    BY DEF IInv, TypeOK
  <2>5. r \in Question => answered[r] <= throws[r] + crashes
    BY <1>1, <2>1, <2>4 DEF CardInv
  <2> QED
    BY <1>1, <1>3, <1>4, <2>2, <2>3, <2>4, <2>5 DEF CardInv
<1>6. CASE Shows(p)
  <2>1. Sent(r) /\ UNCHANGED posed
    BY <1>6 DEF Sent, Shows, rowVars
  <2> QED
    BY <1>1, <1>3, <1>4, <2>1, RowsAndSessions DEF CardInv
<1> QED
  BY <1>5, <1>6

\* A poller leaves its row: recorded as delivered, or with one error more.
LEMMA CardLeaves ==
    ASSUME IInv, IInv', CardInv, NEW p \in Pollers, Returns(p) \/ Drops(p) \/ Throws(p)
    PROVE  CardInv'
<1>1. Working(p) /\ Advance(p) /\ UNCHANGED <<stamp, crashes, seen, answered>>
  BY DEF Returns, Drops, Throws, Settled, Working, histVars
<1> PICK r \in Rows : r = row[p]
  BY <1>1, OneWorker
<1>2. /\ outcome[r] = "none" /\ seen[r] \in Nat
      /\ \A q \in Pollers : q # p => row[q] # r
  BY <1>1, OneWorker DEF IInv, TypeOK
<1>3. /\ \A q \in Rows : q # r => /\ outcome'[q] = outcome[q] /\ throws'[q] = throws[q]
                                  /\ (q \in posed' <=> q \in posed)
  BY <1>1 DEF Returns, Drops, Throws, Settled, Mark, histVars, IInv, TypeOK
<1>4. /\ PollerInv /\ \A q \in Rows : q # r => outcome'[q] = outcome[q]
  BY <1>3 DEF PollerInv, PollerType, IInv, TypeOK
<1>5. /\ row'[p] # r /\ at'[p] \in {"row", "visit"}
      /\ \A q \in Pollers : q # p => at'[q] = at[q] /\ row'[q] = row[q]
  <2>1. row'[p] # r /\ \A q \in Pollers : q # p => at'[q] = at[q] /\ row'[q] = row[q]
    BY <1>1, <1>4, AdvanceKeeps DEF IInv
  <2>2. at'[p] \in {"row", "visit"}
    BY <1>1 DEF Advance, EndDrain, TakeUp, IInv, TypeOK
  <2> QED BY <2>1, <2>2
<1>6. /\ ~Sent(r)'
      /\ \A q \in Rows : q # r => (Sent(q)' <=> Sent(q))
  <2>1. ASSUME NEW q \in Pollers PROVE ~(at'[q] \in {"send", "shown"} /\ row'[q] = r)
    BY <1>2, <1>5
  <2>2. ASSUME NEW q \in Rows, q # r, NEW w \in Pollers
        PROVE  at'[w] \in {"send", "shown"} /\ row'[w] = q <=> at[w] \in {"send", "shown"} /\ row[w] = q
    <3>1. CASE w = p
      BY <1>5, <2>2, <3>1
    <3>2. CASE w # p
      BY <1>5, <3>2
    <3> QED BY <3>1, <3>2
  <2> QED BY <2>1, <2>2 DEF Sent
<1>7. crashes \in Nat /\ \A q \in Rows : answered[q] \in Nat /\ throws[q] \in Nat
  BY DEF IInv, TypeOK
<1>8. ASSUME r \in Question
      PROVE  /\ seen[r] > 0 /\ answered[r] = 0 => r \in posed'
             /\ answered[r] + (IF r \in posed' THEN 1 ELSE 0)
                  <= throws'[r] + crashes + (IF outcome'[r] = "delivered" THEN 1 ELSE 0)
  <2>1. CASE Returns(p)
    <3>1. /\ Sent(r) /\ posed' = posed /\ throws' = throws /\ outcome'[r] = "delivered"
      BY <1>2, <2>1 DEF Returns, Sent, Settled, Mark, histVars, IInv, TypeOK
    <3> QED BY <1>8, <3>1 DEF CardInv
  <2>2. CASE Drops(p)
    <3>1. /\ at[p] = "row" /\ posed \subseteq posed' /\ throws' = throws /\ outcome'[r] = "delivered"
      BY <1>2, <2>2 DEF Drops, Settled, Mark, histVars, IInv, TypeOK
    <3>2. ~Sent(r)
      BY <1>2, <3>1 DEF Sent
    <3>3. answered[r] <= throws[r] + crashes
      BY <1>2, <1>7, <1>8, <3>2 DEF CardInv
    <3> QED BY <1>2, <1>7, <1>8, <3>1, <3>3 DEF CardInv
  <2>3. CASE Throws(p)
    <3>1. posed' = posed /\ throws'[r] = throws[r] + 1
      BY <1>2, <2>3 DEF Throws, IInv, TypeOK
    <3> QED BY <1>2, <1>7, <1>8, <3>1 DEF CardInv
  <2> QED BY <2>1, <2>2, <2>3
<1>9. ASSUME NEW q \in Question, q # r
      PROVE  /\ UNCHANGED <<outcome[q], throws[q], seen[q], answered[q], crashes>>
             /\ (q \in posed' <=> q \in posed) /\ (Sent(q)' <=> Sent(q))
  BY <1>1, <1>3, <1>6, <1>9, RowsAndSessions
<1>10. seen' = seen /\ answered' = answered /\ crashes' = crashes
  BY <1>1
<1> QED
  BY <1>6, <1>8, <1>9, <1>10 DEF CardInv

\* Everything else: an answer takes the row, a restart pays for what was being sent.
LEMMA CardRest ==
    ASSUME IInv, CardInv,
           \/ \E p \in Pollers : PollStarts(p) \/ \E s \in Sessions : PollSession(p, s)
           \/ \E r \in Rows, t \in 1..Cardinality(Rows) : WriteOut(r, t)
           \/ \E r \in Question : Answers(r)
           \/ HostStops \/ HostStarts \/ UNCHANGED vars
    PROVE  CardInv'
<1>0. crashes \in Nat /\ \A q \in Question : answered[q] \in Nat /\ throws[q] \in Nat /\ q \in Rows
  BY RowsAndSessions DEF IInv, TypeOK
<1>1. CASE \E p \in Pollers : PollStarts(p) \/ \E s \in Sessions : PollSession(p, s)
  <2>1. UNCHANGED <<outcome, posed, crashes, seen, throws, answered>>
    BY <1>1 DEF PollStarts, PollSession, rowVars, histVars
  <2>2. \A q \in Pollers : \/ at'[q] = at[q] /\ row'[q] = row[q]
                           \/ at[q] = "visit" /\ at'[q] = "row"
    BY <1>1 DEF PollStarts, PollSession, StartDrain, IInv, TypeOK
  <2>3. \A r \in Rows : Sent(r)' <=> Sent(r)
    BY <2>2 DEF Sent
  <2> QED BY <1>0, <2>1, <2>3 DEF CardInv
<1>2. CASE \/ \E r \in Rows, t \in 1..Cardinality(Rows) : WriteOut(r, t)
           \/ HostStarts \/ UNCHANGED vars
  BY <1>2 DEF WriteOut, HostStarts, vars, pollVars, rowVars, histVars, CardInv, Sent
<1>3. ASSUME NEW r \in Question, Answers(r) PROVE CardInv'
  <2>1. /\ UNCHANGED <<outcome, at, row, crashes, seen, throws>> /\ r \in posed
        /\ posed' = posed \ {r} /\ answered' = [answered EXCEPT ![r] = @ + 1]
    BY <1>3 DEF Answers, pollVars
  <2>2. \A q \in Question : q # r => answered'[q] = answered[q]
    BY <2>1 DEF IInv, TypeOK
  <2>3. answered'[r] = answered[r] + 1
    BY <2>1, <1>0 DEF IInv, TypeOK
  <2>4. \A q \in Question : Sent(q)' <=> Sent(q)
    BY <2>1 DEF Sent
  <2> QED BY <1>0, <2>1, <2>2, <2>3, <2>4 DEF CardInv
<1>4. CASE HostStops
  <2>1. /\ UNCHANGED <<outcome, posed, seen, throws, answered>> /\ crashes' = crashes + 1
        /\ \A q \in Pollers : at'[q] = "visit"
    BY <1>4 DEF HostStops, rowVars
  <2>2. \A q \in Question : ~Sent(q)'
    BY <2>1 DEF Sent
  <2> QED BY <1>0, <2>1, <2>2 DEF CardInv
<1> QED
  BY <1>1, <1>2, <1>3, <1>4

\* What was tried stays tried.
LEMMA TriedStays ==
    ASSUME IInv, [Next]_vars, NEW q \in Rows, Tried(q)
    PROVE  Tried(q)'
<1>0. seen[q] \in Nat /\ throws[q] \in Nat
  BY DEF IInv, TypeOK
<1>1. CASE UNCHANGED <<outcome, seen, throws>>
  BY <1>1 DEF Tried
<1>2. ASSUME NEW p \in Pollers, Shows(p) PROVE Tried(q)'
  <2>1. UNCHANGED <<outcome, throws>> /\ seen'[q] >= seen[q]
    BY <1>0, <1>2 DEF Shows, rowVars, IInv, TypeOK
  <2>2. seen'[q] \in Nat
    BY <1>0, <1>2 DEF Shows, IInv, TypeOK
  <2>3. CASE seen[q] > 0
    BY <1>0, <2>1, <2>2, <2>3 DEF Tried
  <2>4. CASE throws[q] > 0 \/ outcome[q] # "none"
    BY <2>1, <2>4 DEF Tried
  <2> QED BY <2>3, <2>4 DEF Tried
<1>3. ASSUME NEW p \in Pollers, Returns(p) \/ Drops(p) \/ Throws(p) PROVE Tried(q)'
  <2>1. seen' = seen /\ throws'[q] >= throws[q] /\ throws'[q] \in Nat
    BY <1>0, <1>3 DEF Returns, Drops, Throws, histVars, IInv, TypeOK
  <2>2. outcome[q] # "none" => outcome'[q] # "none"
    BY <1>3 DEF Returns, Drops, Throws, Settled, Mark, IInv, TypeOK
  <2> QED BY <1>0, <2>1, <2>2 DEF Tried
<1>4. CASE \/ \E p \in Pollers : PollStarts(p) \/ Sends(p) \/ \E s \in Sessions : PollSession(p, s)
           \/ \E r \in Rows, t \in 1..Cardinality(Rows) : WriteOut(r, t)
           \/ \E r \in Question : Answers(r)
           \/ HostStops \/ HostStarts \/ UNCHANGED vars
  BY <1>1, <1>4 DEF PollStarts, Sends, PollSession, WriteOut, Answers, HostStops, HostStarts, vars, rowVars, pollVars, histVars
<1> QED
  BY <1>2, <1>3, <1>4 DEF Next, PollerStep, RowStep

\* A poller goes to the next row of its snapshot, an oldest one; the one it leaves was tried.
LEMMA OrderLeaves ==
    ASSUME IInv, OrderInv, [Next]_vars, NEW p \in Pollers, Returns(p) \/ Drops(p) \/ Throws(p)
    PROVE  OrderInv'
<1>1. Working(p) /\ Advance(p) /\ stamp' = stamp
  BY DEF Returns, Drops, Throws, Settled, Working
<1> PICK r \in Rows : r = row[p]
  BY <1>1, OneWorker
<1>2. /\ outcome[r] = "none" /\ visit[p] \in Sessions
      /\ todo[p] \subseteq Rows /\ \A u \in todo[p] : Owner[u] = visit[p] /\ stamp[u] > 0
  BY <1>1, OneWorker DEF Undelivered
<1>3. Tried(r)'
  <2>1. CASE Returns(p) \/ Drops(p)
    <3>1. outcome'[r] = "delivered"
      BY <1>2, <2>1 DEF Returns, Drops, Settled, Mark, IInv, TypeOK
    <3> QED BY <3>1 DEF Tried
  <2>2. CASE Throws(p)
    <3>1. throws'[r] = throws[r] + 1 /\ throws[r] \in Nat
      BY <1>2, <2>2 DEF Throws, IInv, TypeOK
    <3> QED BY <3>1 DEF Tried
  <2> QED BY <2>1, <2>2
<1>4. \A q \in Rows : Tried(q) => Tried(q)'
  BY TriedStays
<1>5. \A w \in Pollers : w # p => /\ at'[w] = at[w] /\ row'[w] = row[w]
                                  /\ visit'[w] = visit[w] /\ todo'[w] = todo[w]
  BY <1>1 DEF Advance, EndDrain, TakeUp, IInv, TypeOK
<1>6. ASSUME NEW w \in Pollers, w # p, Working(w)', NEW q \in Rows, Owner[q] = visit'[w], stamp'[q] > 0
      PROVE  /\ stamp'[q] < stamp'[row'[w]] => Tried(q)'
             /\ \A u \in todo'[w] : stamp'[q] < stamp'[u] => Tried(q)' \/ q \in todo'[w] \cup {row'[w]}
  BY <1>1, <1>4, <1>5, <1>6 DEF OrderInv, Working
<1>7. ASSUME Working(p)', NEW q \in Rows, Owner[q] = visit'[p], stamp'[q] > 0
      PROVE  /\ stamp'[q] < stamp'[row'[p]] => Tried(q)'
             /\ \A u \in todo'[p] : stamp'[q] < stamp'[u] => Tried(q)' \/ q \in todo'[p] \cup {row'[p]}
  <2>1. TakeUp(p, todo[p])
    BY <1>1, <1>7 DEF Advance, EndDrain, Working, IInv, TypeOK
  <2>2. PICK x \in Earliest(todo[p]) :
          row' = [row EXCEPT ![p] = x] /\ todo' = [todo EXCEPT ![p] = todo[p] \ {x}]
    BY <2>1 DEF TakeUp
  <2>3. /\ row'[p] = x /\ todo'[p] = todo[p] \ {x} /\ visit'[p] = visit[p]
        /\ x \in todo[p] /\ \A u \in todo[p] : stamp[x] <= stamp[u]
    BY <2>1, <2>2 DEF TakeUp, Earliest, IInv, TypeOK
  <2>4. \A u \in todo[p] : stamp[q] < stamp[u] => Tried(q) \/ q \in todo[p] \cup {r}
    BY <1>1, <1>7, <2>3 DEF OrderInv
  <2>5. stamp[q] \in Nat /\ stamp[x] \in Nat
    BY <1>2, <2>3 DEF IInv, TypeOK
  <2>6. stamp[q] < stamp[x] => Tried(q)'
    BY <1>3, <1>4, <2>3, <2>4, <2>5
  <2>7. \A u \in todo[p] \ {x} : stamp[q] < stamp[u] => Tried(q)' \/ q \in todo[p]
    BY <1>3, <1>4, <2>4
  <2> QED BY <1>1, <2>3, <2>6, <2>7
<1> QED
  BY <1>6, <1>7 DEF OrderInv

\* The snapshot of a session holds every row of it that is not settled.
LEMMA OrderStarts ==
    ASSUME IInv, OrderInv, NEW p \in Pollers, NEW s \in Sessions, PollSession(p, s)
    PROVE  OrderInv'
<1>1. UNCHANGED <<stamp, outcome, seen, throws>> /\ at[p] = "visit"
  BY DEF PollSession, rowVars, histVars
<1>2. CASE UNCHANGED <<at, visit, todo, row>>
  BY <1>1, <1>2 DEF OrderInv, Working, Tried
<1>3. CASE StartDrain(p, s)
  <2>1. PICK r \in Earliest(Undelivered(s)) :
          /\ row' = [row EXCEPT ![p] = r] /\ todo' = [todo EXCEPT ![p] = Undelivered(s) \ {r}]
    BY <1>3 DEF StartDrain
  <2>2. /\ row'[p] = r /\ todo'[p] = Undelivered(s) \ {r} /\ visit'[p] = s
        /\ r \in Rows /\ Undelivered(s) \subseteq Rows /\ \A u \in Undelivered(s) : stamp[r] <= stamp[u]
    BY <1>3, <2>1 DEF StartDrain, Earliest, Undelivered, IInv, TypeOK
  <2>3. \A w \in Pollers : w # p => /\ at'[w] = at[w] /\ row'[w] = row[w]
                                    /\ visit'[w] = visit[w] /\ todo'[w] = todo[w]
    BY <1>3 DEF StartDrain
  <2>4. ASSUME NEW q \in Rows, Owner[q] = s, stamp[q] > 0
        PROVE  /\ stamp[q] < stamp[r] => Tried(q)
               /\ \A u \in Undelivered(s) : stamp[q] < stamp[u] => Tried(q) \/ q \in Undelivered(s)
    <3>1. Tried(q) \/ q \in Undelivered(s)
      BY <2>4 DEF Tried, Undelivered
    <3>2. stamp[q] \in Nat /\ stamp[r] \in Nat
      BY <2>2 DEF IInv, TypeOK
    <3> QED BY <2>2, <3>1, <3>2
  <2>5. \A q \in Rows : Tried(q)' <=> Tried(q)
    BY <1>1 DEF Tried
  <2> QED BY <1>1, <2>2, <2>3, <2>4, <2>5 DEF OrderInv, Working
<1> QED
  BY <1>2, <1>3 DEF PollSession

\* A new row is as young as any of its session; other steps move no poller on.
LEMMA OrderRest ==
    ASSUME IInv, OrderInv, [Next]_vars,
           \/ \E p \in Pollers : PollStarts(p) \/ Sends(p) \/ Shows(p)
           \/ \E r \in Rows, t \in 1..Cardinality(Rows) : WriteOut(r, t)
           \/ \E r \in Question : Answers(r)
           \/ HostStops \/ HostStarts \/ UNCHANGED vars
    PROVE  OrderInv'
<1>0. \A q \in Rows : Tried(q) => Tried(q)'
  BY TriedStays
<1>1. CASE \/ \E p \in Pollers : PollStarts(p) \/ Sends(p) \/ Shows(p)
           \/ \E r \in Question : Answers(r)
           \/ HostStarts \/ UNCHANGED vars
  <2>1. UNCHANGED <<stamp, visit, todo, row>>
    BY <1>1 DEF PollStarts, Sends, Shows, Answers, HostStarts, vars, rowVars, pollVars
  <2>2. \A w \in Pollers : Working(w)' <=> Working(w)
    BY <1>1 DEF PollStarts, Sends, Shows, Answers, HostStarts, vars, rowVars, pollVars, Working, IInv, TypeOK
  <2> QED BY <1>0, <2>1, <2>2 DEF OrderInv
<1>2. CASE HostStops
  BY <1>2 DEF HostStops, OrderInv, Working
<1>3. ASSUME NEW r \in Rows, NEW t \in 1..Cardinality(Rows), WriteOut(r, t) PROVE OrderInv'
  <2>1. /\ UNCHANGED <<at, visit, todo, row>> /\ t \in Nat /\ stamp[r] = 0
        /\ stamp' = [stamp EXCEPT ![r] = t]
        /\ \A q \in Rows : Owner[q] = Owner[r] => stamp[q] <= t
    BY <1>3, Numbers DEF WriteOut, pollVars
  <2> SUFFICES ASSUME NEW p \in Pollers, Working(p), NEW q \in Rows, Owner[q] = visit[p], stamp'[q] > 0
               PROVE  /\ stamp'[q] < stamp'[row[p]] => Tried(q)'
                      /\ \A u \in todo[p] : stamp'[q] < stamp'[u] => Tried(q)' \/ q \in todo[p] \cup {row[p]}
    BY <2>1 DEF OrderInv, Working
  <2>2. /\ row[p] \in Rows /\ stamp[row[p]] > 0 /\ Owner[row[p]] = visit[p]
        /\ \A u \in todo[p] : u \in Rows /\ stamp[u] > 0 /\ Owner[u] = visit[p]
    BY OneWorker DEF Undelivered
  <2>3. /\ stamp'[row[p]] = stamp[row[p]] /\ \A u \in todo[p] : stamp'[u] = stamp[u]
        /\ \A u \in Rows : stamp[u] \in Nat
    BY <2>1, <2>2 DEF IInv, TypeOK
  <2>4. CASE q = r
    <3>1. stamp'[q] = t /\ stamp[row[p]] <= t /\ \A u \in todo[p] : stamp[u] <= t
      BY <2>1, <2>2, <2>4 DEF IInv, TypeOK
    <3> QED BY <2>1, <2>2, <2>3, <3>1
  <2>5. CASE q # r
    <3>1. stamp'[q] = stamp[q]
      BY <2>1, <2>5 DEF IInv, TypeOK
    <3> QED BY <1>0, <2>3, <3>1 DEF OrderInv
  <2> QED BY <2>4, <2>5
<1> QED
  BY <1>1, <1>2, <1>3

LEMMA CardStep == IInv /\ IInv' /\ CardInv /\ OrderInv /\ [Next]_vars => CardInv' /\ OrderInv'
<1> SUFFICES ASSUME IInv, IInv', CardInv, OrderInv, [Next]_vars PROVE CardInv' /\ OrderInv'
  OBVIOUS
<1>1. ASSUME NEW p \in Pollers, PollerStep(p) PROVE CardInv' /\ OrderInv'
  <2>1. CASE Sends(p) \/ Shows(p)
    BY <2>1, CardSends, OrderRest
  <2>2. CASE Returns(p) \/ Drops(p) \/ Throws(p)
    BY <2>2, CardLeaves, OrderLeaves
  <2>3. CASE PollStarts(p)
    BY <2>3, CardRest, OrderRest
  <2>4. CASE \E s \in Sessions : PollSession(p, s)
    BY <2>4, CardRest, OrderStarts
  <2> QED BY <1>1, <2>1, <2>2, <2>3, <2>4 DEF PollerStep, RowStep
<1>2. CASE \/ \E r \in Rows, t \in 1..Cardinality(Rows) : WriteOut(r, t)
           \/ \E r \in Question : Answers(r)
           \/ HostStops \/ HostStarts \/ UNCHANGED vars
  BY <1>2, CardRest, OrderRest
<1> QED
  BY <1>1, <1>2 DEF Next

\* A card on the screen that nobody answered has its pending_questions row, whatever is retried,
\* given up or restarted.
THEOREM CardsCanBeAnswered == Spec => []CardIsAnswerable
<1>1. CardInv => CardIsAnswerable
  BY DEF CardInv, CardIsAnswerable
<1> QED
  BY InitInv, StepInv, CardInit, CardStep, <1>1, PTL DEF Spec

\* A question is answered once more only after an error or a restart.
THEOREM AnswersArePaidFor == Spec => []AnsweredOncePerSend
<1>1. IInv /\ CardInv => AnsweredOncePerSend
  <2> SUFFICES ASSUME IInv, CardInv, NEW r \in Question PROVE answered[r] <= 1 + throws[r] + crashes
    BY DEF AnsweredOncePerSend
  <2>1. answered[r] \in Nat /\ throws[r] \in Nat /\ crashes \in Nat
    BY RowsAndSessions DEF IInv, TypeOK
  <2> QED BY <2>1 DEF CardInv
<1> QED
  BY InitInv, StepInv, CardInit, CardStep, <1>1, PTL DEF Spec

\* Within a session no row overtakes an older one that was never tried.
THEOREM FirstTriesKeepOrder == Spec => []FirstTriesInOrder
<1>1. IInv /\ OrderInv => FirstTriesInOrder
  BY DEF IInv, WorksOnItsSession, OrderInv, FirstTriesInOrder
<1> QED
  BY InitInv, StepInv, CardInit, CardStep, <1>1, PTL DEF Spec

----------------------------------------------------------------------------
(* Refinement of Outbox.                                                   *)

LEMMA InitMaps == Init => Promised!Init
<1> SUFFICES ASSUME Init PROVE Promised!Init
  OBVIOUS
<1> QED
  BY DEF Init, Zero, Promised!Init, Status

\* The fate of a row as Outbox sees it.
LEMMA StatusOf ==
    ASSUME IInv
    PROVE  /\ Status \in [Rows -> {"none", "pending", "delivered", "failed"}]
           /\ \A s : \A r \in Undelivered(s) : Status[r] = "pending"
           /\ \A r \in Rows : Status[r] = "pending" =>
                seen[r] = faults[r] + (IF Unrecorded(r) THEN 1 ELSE 0)
<1> QED
  BY DEF IInv, TypeOK, Status, Undelivered, ShownOncePerFault

\* Every step is a step of Outbox, or one it does not see.
LEMMA StepMaps ==
    ASSUME IInv, IInv', [Next]_vars
    PROVE  [Promised!Next]_<<Status, seen, faults>>
<1>1. CASE UNCHANGED <<stamp, outcome, seen, faults>>
  BY <1>1 DEF Status
<1>2. ASSUME NEW r \in Rows, NEW t \in 1..Cardinality(Rows), WriteOut(r, t)
      PROVE  Promised!Write(r)
  <2>1. /\ UNCHANGED <<outcome, seen, faults>> /\ stamp[r] = 0 /\ t > 0 /\ t \in Nat
        /\ stamp' = [stamp EXCEPT ![r] = t] /\ outcome[r] = "none"
    BY <1>2, Numbers DEF WriteOut, histVars, IInv, Untouched
  <2>2. Status[r] = "none"
    BY <2>1 DEF Status
  <2>3. stamp'[r] # 0 /\ \A q \in Rows : q # r => stamp'[q] = stamp[q]
    BY <2>1 DEF IInv, TypeOK
  <2>4. Status' = [Status EXCEPT ![r] = "pending"]
    BY <2>1, <2>3 DEF Status
  <2> QED BY <2>1, <2>2, <2>4 DEF Promised!Write
<1>3. ASSUME NEW p \in Pollers, NEW r \in Rows, r = row[p], Status[r] = "pending", Shows(p)
      PROVE  Promised!Show(r)
  <2>1. UNCHANGED <<stamp, outcome, faults>> /\ seen' = [seen EXCEPT ![r] = @ + 1]
    BY <1>3 DEF Shows, rowVars
  <2>2. Unrecorded(r)'
    BY <1>3 DEF Shows, Unrecorded, IInv, TypeOK
  <2>3. seen[r] = faults[r]
    BY <2>1, <2>2 DEF IInv, TypeOK, ShownOncePerFault
  <2> QED BY <1>3, <2>1, <2>3 DEF Promised!Show, Status
<1>4. ASSUME NEW p \in Pollers, NEW r \in Rows, r = row[p], Status[r] = "pending",
             outcome[r] = "none", stamp[r] # 0, Returns(p)
      PROVE  Promised!Record(r)
  <2>1. /\ UNCHANGED <<stamp, seen, faults>> /\ at[p] = "shown"
        /\ outcome' = [outcome EXCEPT ![r] = "delivered"]
    BY <1>4 DEF Returns, Settled, Mark, histVars, IInv, TypeOK
  <2>2. Status' = [Status EXCEPT ![r] = "delivered"]
    BY <1>4, <2>1 DEF Status, IInv, TypeOK
  <2>3. seen[r] = faults[r] + 1
    BY <1>4, <2>1, StatusOf DEF Unrecorded
  <2> QED BY <1>4, <2>1, <2>2, <2>3 DEF Promised!Record, Promised!Unrecorded
<1>5. ASSUME NEW p \in Pollers, NEW r \in Rows, r = row[p], Status[r] = "pending",
             outcome[r] = "none", stamp[r] # 0, Drops(p)
      PROVE  Promised!Drop(r)
  <2>1. /\ UNCHANGED <<stamp, seen, faults>> /\ r \in Unroutable
        /\ outcome' = [outcome EXCEPT ![r] = "delivered"]
    BY <1>5 DEF Drops, Settled, Mark, histVars, IInv, TypeOK
  <2>2. Status' = [Status EXCEPT ![r] = "delivered"]
    BY <1>5, <2>1 DEF Status, IInv, TypeOK
  <2> QED BY <1>5, <2>1, <2>2 DEF Promised!Drop, IInv, Untouched
<1>6. ASSUME NEW p \in Pollers, NEW r \in Rows, r = row[p], Status[r] = "pending",
             outcome[r] = "none", stamp[r] # 0, Throws(p)
      PROVE  [Promised!Next]_<<Status, seen, faults>>
  <2>1. /\ UNCHANGED <<stamp, seen>>
        /\ faults' = [faults EXCEPT ![r] = IF at[p] = "shown" THEN @ + 1 ELSE @]
    BY <1>6 DEF Throws
  <2>2. CASE Spent(r)
    <3>1. outcome' = [outcome EXCEPT ![r] = "failed"]
      BY <1>6, <2>2 DEF Throws, Mark, IInv, TypeOK
    <3>2. Status' = [Status EXCEPT ![r] = "failed"]
      BY <1>6, <2>1, <3>1 DEF Status, IInv, TypeOK
    <3>3. outcome'[r] = "failed" /\ ~Unrecorded(r)'
      <4>1. outcome'[r] = "failed"
        BY <3>1 DEF IInv, TypeOK
      <4> QED BY <4>1 DEF Unrecorded, IInv, WorksOnItsSession, Working, Undelivered
    <3>4. faults'[r] = seen[r]
      BY <2>1, <3>3 DEF IInv, TypeOK, ShownOncePerFault
    <3>5. faults' = [faults EXCEPT ![r] = seen[r]]
      BY <2>1, <3>4 DEF IInv, TypeOK
    <3> QED BY <1>6, <2>1, <3>2, <3>5 DEF Promised!Next, Promised!GiveUp
  <2>3. CASE ~Spent(r) /\ at[p] = "shown"
    <3>1. UNCHANGED <<stamp, outcome>>
      BY <1>6, <2>1, <2>3 DEF Throws
    <3>2. Promised!Unrecorded(r)
      BY <1>6, <2>3, StatusOf DEF Promised!Unrecorded, Unrecorded
    <3>3. faults' = [q \in Rows |-> IF q \in {r} THEN faults[q] + 1 ELSE faults[q]]
      BY <2>1, <2>3 DEF IInv, TypeOK
    <3>4. Promised!Lose({r})
      BY <2>1, <3>1, <3>2, <3>3 DEF Promised!Lose, Status
    <3> QED BY <3>4 DEF Promised!Next
  <2>4. CASE ~Spent(r) /\ at[p] # "shown"
    <3>1. UNCHANGED <<stamp, outcome, seen, faults>>
      BY <1>6, <2>1, <2>4 DEF Throws, IInv, TypeOK
    <3> QED BY <1>1, <3>1
  <2> QED BY <2>2, <2>3, <2>4
<1>7. CASE HostStops
  <2>1. UNCHANGED <<stamp, outcome, seen>>
    BY <1>7 DEF HostStops, rowVars
  <2> DEFINE S == {r \in Rows : Unrecorded(r)}
  <2>2. \A r \in S : Promised!Unrecorded(r)
    <3>1. \A r \in S : outcome[r] = "none" /\ stamp[r] > 0
      BY DEF IInv, Unrecorded, WorksOnItsSession, Working, Undelivered
    <3>2. \A r \in S : Status[r] = "pending"
      BY <3>1 DEF Status, IInv, TypeOK
    <3> QED BY <3>2, StatusOf DEF Promised!Unrecorded
  <2>3. faults' = [r \in Rows |-> IF r \in S THEN faults[r] + 1 ELSE faults[r]]
    BY <1>7 DEF HostStops, Unrecorded
  <2>4. Promised!Lose(S)
    BY <2>1, <2>2, <2>3 DEF Promised!Lose, Status
  <2> QED BY <2>4 DEF Promised!Next
<1>8. ASSUME NEW p \in Pollers, Returns(p) \/ Drops(p) \/ Throws(p) \/ Shows(p)
      PROVE  [Promised!Next]_<<Status, seen, faults>>
  <2>1. Working(p)
    BY <1>8 DEF Returns, Drops, Throws, Shows, Working
  <2>2. row[p] \in Rows /\ outcome[row[p]] = "none" /\ stamp[row[p]] # 0
    BY <2>1 DEF IInv, WorksOnItsSession, Undelivered, TypeOK
  <2>3. Status[row[p]] = "pending"
    BY <2>2 DEF Status
  <2> QED BY <1>8, <1>3, <1>4, <1>5, <1>6, <2>2, <2>3 DEF Promised!Next
<1> QED
  <2>1. CASE \E p \in Pollers : PollStarts(p) \/ Sends(p) \/ \E s \in Sessions : PollSession(p, s)
    BY <2>1, <1>1 DEF PollStarts, Sends, PollSession, rowVars, histVars
  <2>2. CASE (\E r \in Question : Answers(r)) \/ HostStarts \/ UNCHANGED vars
    BY <2>2, <1>1 DEF Answers, HostStarts, vars, rowVars, histVars
  <2>3. CASE \E r \in Rows, t \in 1..Cardinality(Rows) : WriteOut(r, t)
    BY <2>3, <1>2 DEF Promised!Next
  <2> QED
    BY <2>1, <2>2, <2>3, <1>7, <1>8 DEF Next, PollerStep, RowStep

\* The pollers, their guard, snapshots, retries and restarts implement the
\* promise of module Outbox.
THEOREM ImplementsOutbox == Spec => KeepsPromise
<1>1. IInv /\ [Next]_vars /\ IInv' => [Promised!Next]_<<Status, seen, faults>>
  BY StepMaps
<1> QED
  BY InitInv, InitMaps, StepInv, <1>1, PTL DEF Spec, KeepsPromise, Promised!Spec

------------------------------------------------------------------------------
(* What follows from the promise alone.                                    *)

\* A row was shown as often as its record was lost, and once more if it counts as delivered, unless
\* it has no place to go and was never shown.
ShowingsAreCounted ==
    /\ seen \in [Rows -> Nat] /\ faults \in [Rows -> Nat]
    /\ \A r \in Rows :
          /\ seen[r] \in {faults[r], faults[r] + 1}
          /\ Status[r] = "none" => seen[r] = 0
          /\ Status[r] = "delivered" => seen[r] = faults[r] + 1 \/ (r \in Unroutable /\ seen[r] = 0)
          /\ Status[r] = "failed" => seen[r] = faults[r]

\* A settled row is neither shown again nor settled anew.
SettledRowsStay ==
    [][\A r \in Rows : Status[r] \in {"delivered", "failed"} =>
                          Status'[r] = Status[r] /\ seen'[r] = seen[r]]_<<Status, seen, faults>>

\* The promise is strong enough: both follow from the steps of Outbox alone, whatever pollers and restarts
\* carry them out (drainSession, markDelivered, markDeliveryFailed).
THEOREM PromiseSuffices == KeepsPromise => []ShowingsAreCounted /\ SettledRowsStay
<1> DEFINE Final == \A r \in Rows : Status[r] \in {"delivered", "failed"} =>
                                       Status'[r] = Status[r] /\ seen'[r] = seen[r]
<1>1. Promised!Init => ShowingsAreCounted
  BY DEF Promised!Init, ShowingsAreCounted
<1>2. ASSUME ShowingsAreCounted, Promised!Next PROVE ShowingsAreCounted' /\ Final
  <2>0. Status = [r \in Rows |-> Status[r]]
    BY DEF Status
  <2> USE <1>2, <2>0 DEF ShowingsAreCounted, Promised!Unrecorded
  <2>1. ASSUME NEW r \in Rows, Promised!Write(r) PROVE ShowingsAreCounted' /\ Final
    BY <2>1 DEF Promised!Write
  <2>2. ASSUME NEW r \in Rows, Promised!Show(r) PROVE ShowingsAreCounted' /\ Final
    BY <2>2 DEF Promised!Show
  <2>3. ASSUME NEW r \in Rows, Promised!Record(r) PROVE ShowingsAreCounted' /\ Final
    BY <2>3 DEF Promised!Record
  <2>4. ASSUME NEW r \in Rows, Promised!Drop(r) PROVE ShowingsAreCounted' /\ Final
    BY <2>4 DEF Promised!Drop
  <2>5. ASSUME NEW r \in Rows, Promised!GiveUp(r) PROVE ShowingsAreCounted' /\ Final
    BY <2>5 DEF Promised!GiveUp
  <2>6. ASSUME NEW S \in SUBSET Rows, Promised!Lose(S) PROVE ShowingsAreCounted' /\ Final
    BY <2>6 DEF Promised!Lose
  <2> QED
    BY <2>1, <2>2, <2>3, <2>4, <2>5, <2>6 DEF Promised!Next
<1>3. ShowingsAreCounted /\ UNCHANGED <<Status, seen, faults>> => ShowingsAreCounted'
  BY DEF ShowingsAreCounted
<1>4. ShowingsAreCounted /\ [Promised!Next]_<<Status, seen, faults>> =>
        ShowingsAreCounted' /\ [Final]_<<Status, seen, faults>>
  BY <1>2, <1>3
<1> QED
  BY <1>1, <1>4, PTL DEF KeepsPromise, Promised!Spec, SettledRowsStay

=============================================================================
