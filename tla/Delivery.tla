------------------------------ MODULE Delivery ------------------------------
(***************************************************************************)
(* The host's outbound side.  Agents append rows to the messages_out table *)
(* of their session; two timer chains of the host, the active poll (only   *)
(* sessions with a running container) and the sweep poll (every session),  *)
(* drain sessions one at a time and hand each row to a channel adapter, a  *)
(* system-action handler or another session.  Both chains run in one       *)
(* event loop, so each await lets the other chain, a click of the user or  *)
(* the end of the process in.                                              *)
(***************************************************************************)
EXTENDS Naturals, FiniteSets

CONSTANTS
    Sessions,
    Rows,       \* rows that may be written to a messages_out table
    NoRow, NoSession,
    Owner,      \* the session whose outbound.db holds a row
    Question,   \* ask_user_question cards
    Unroutable, \* chat rows without routing fields, or for a channel type
                \* that no adapter is registered for
    Running,    \* sessions whose container stays up (others come and go)
    Hang,       \* sessions whose adapter call need never return
    MAX_DELIVERY_ATTEMPTS,
    MaxCrashes  \* bound: ends of the host process in a behaviour

ASSUME RowsAndSessions ==
    /\ IsFiniteSet(Rows) /\ NoRow \notin Rows /\ NoSession \notin Sessions
    /\ Owner \in [Rows -> Sessions]
    /\ Question \subseteq Rows /\ Unroutable \subseteq Rows
    /\ Running \subseteq Sessions /\ Hang \subseteq Sessions

ASSUME Limits == MAX_DELIVERY_ATTEMPTS \in Nat \ {0} /\ MaxCrashes \in Nat

Pollers == {"active", "sweep"}

VARIABLES
    stamp,     \* messages_out.timestamp, in whole seconds (0: no row yet)
    outcome,   \* the row of the delivered table: "none", "delivered", "failed"
    posed,     \* questions with a pending_questions row
    up,        \* the host process runs
    inflight,  \* inflightDeliveries
    attempts,  \* deliveryAttempts (0: no entry)
    at,        \* where a poller stands: "visit" (between sessions), "row"
               \* (takes a row up), "send" (awaits), "shown" (the destination
               \* has the row, the await has not returned)
    list,      \* sessions a poller has left to visit this tick
    visit,     \* the session it drains
    todo,      \* the rows of its snapshot it has not taken up
    row,       \* the row it works on
    crashes,   \* ends of the process so far (bounded by MaxCrashes)
    seen,      \* history: how often a row reached its destination
    faults,    \* history: how often the record of that was lost
    throws,    \* history: failed attempts at a row
    answered   \* history: answers accepted for a question

rowVars == <<stamp, outcome, posed>>
pollVars == <<at, list, visit, todo, row>>
histVars == <<seen, faults, throws, answered>>
vars == <<rowVars, up, inflight, attempts, pollVars, crashes, histVars>>

Zero == [r \in Rows |-> 0]

Working(p) == at[p] \in {"row", "send", "shown"}

----------------------------------------------------------------------------
(* Draining a session.                                                     *)

\* Mutant: ORDER BY timestamp DESC.
Earliest_Newest(S) == {r \in S : \A q \in S : stamp[q] <= stamp[r]}

\* ORDER BY timestamp: rows of the same second come in either order.
Earliest(S) == {r \in S : \A q \in S : stamp[r] <= stamp[q]}

\* Mutant: a failed row is still taken for undelivered.
Undelivered_Failed(s) ==
    {r \in Rows : Owner[r] = s /\ stamp[r] > 0 /\ outcome[r] # "delivered"}

Undelivered(s) ==
    {r \in Rows : Owner[r] = s /\ stamp[r] > 0 /\ outcome[r] = "none"}

\* The loop over the snapshot takes up the next row of S.
TakeUp(p, S) ==
    /\ \E r \in Earliest(S) :
        /\ at' = [at EXCEPT ![p] = "row"]
        /\ row' = [row EXCEPT ![p] = r]
        /\ todo' = [todo EXCEPT ![p] = S \ {r}]
    /\ UNCHANGED <<inflight, visit>>

\* The finally block of deliverSessionMessages.
EndDrain(p) ==
    /\ at' = [at EXCEPT ![p] = "visit"]
    /\ row' = [row EXCEPT ![p] = NoRow]
    /\ inflight' = inflight \ {visit[p]}
    /\ visit' = [visit EXCEPT ![p] = NoSession]
    /\ UNCHANGED todo

Advance(p) == IF todo[p] = {} THEN EndDrain(p) ELSE TakeUp(p, todo[p])

\* A tick: getRunningSessions, getActiveSessions.
PollStarts(p) ==
    /\ up /\ at[p] = "visit" /\ list[p] = {}
    /\ \E L \in SUBSET Sessions :
        /\ IF p = "active" THEN Running \subseteq L ELSE L = Sessions
        /\ list' = [list EXCEPT ![p] = L]
    /\ UNCHANGED <<rowVars, up, inflight, attempts, at, visit, todo, row, crashes, histVars>>

\* Mutant: inflightDeliveries is not looked at.
Skips_Never(s) == Undelivered(s) = {}

\* The other poller is inside this session, or there is nothing to deliver.
Skips(s) == s \in inflight \/ Undelivered(s) = {}

\* drainSession: the snapshot of the due rows is taken once.
StartDrain(p, s) ==
    /\ \E r \in Earliest(Undelivered(s)) :
        /\ at' = [at EXCEPT ![p] = "row"]
        /\ row' = [row EXCEPT ![p] = r]
        /\ todo' = [todo EXCEPT ![p] = Undelivered(s) \ {r}]
    /\ inflight' = inflight \cup {s}
    /\ visit' = [visit EXCEPT ![p] = s]

\* Mutant: the second caller waits for the first instead of skipping.
PollSession_Queues(p, s) ==
    /\ up /\ at[p] = "visit" /\ s \in list[p] /\ s \notin inflight
    /\ list' = [list EXCEPT ![p] = @ \ {s}]
    /\ IF Skips(s) THEN UNCHANGED <<at, visit, todo, row, inflight>> ELSE StartDrain(p, s)
    /\ UNCHANGED <<rowVars, up, attempts, crashes, histVars>>

PollSession(p, s) ==
    /\ up /\ at[p] = "visit" /\ s \in list[p]
    /\ list' = [list EXCEPT ![p] = @ \ {s}]
    /\ IF Skips(s) THEN UNCHANGED <<at, visit, todo, row, inflight>> ELSE StartDrain(p, s)
    /\ UNCHANGED <<rowVars, up, attempts, crashes, histVars>>

----------------------------------------------------------------------------
(* One row: deliverMessage and the try/catch around it.                    *)

\* Mutant: the pending_questions row is not written before the card is sent.
Sends_Unposed(p) ==
    /\ up /\ at[p] = "row" /\ row[p] \notin Unroutable
    /\ at' = [at EXCEPT ![p] = "send"]
    /\ UNCHANGED <<rowVars, up, inflight, attempts, list, visit, todo, row, crashes, histVars>>

\* The checks pass, a question is recorded (INSERT OR IGNORE), and the
\* adapter or handler is called.
Sends(p) ==
    /\ up /\ at[p] = "row" /\ row[p] \notin Unroutable
    /\ at' = [at EXCEPT ![p] = "send"]
    /\ posed' = posed \cup ({row[p]} \cap Question)
    /\ UNCHANGED <<stamp, outcome, up, inflight, attempts, list, visit, todo, row, crashes, histVars>>

\* The destination has the row: the user sees it, the handler has acted.
Shows(p) ==
    /\ up /\ at[p] = "send"
    /\ at' = [at EXCEPT ![p] = "shown"]
    /\ seen' = [seen EXCEPT ![row[p]] = @ + 1]
    /\ UNCHANGED <<rowVars, up, inflight, attempts, list, visit, todo, row, crashes, faults, throws, answered>>

\* INSERT OR IGNORE INTO delivered.
Mark(r, v) == outcome' = [outcome EXCEPT ![r] = IF @ = "none" THEN v ELSE @]

Settled(p) ==
    /\ Mark(row[p], "delivered")
    /\ attempts' = [attempts EXCEPT ![row[p]] = 0]
    /\ Advance(p)

Returns(p) ==
    /\ up /\ at[p] = "shown"
    /\ Settled(p)
    /\ UNCHANGED <<stamp, posed, up, list, crashes, histVars>>

\* A row without routing fields or adapter: deliverMessage (or main's bridge
\* to the adapters) returns and the row counts as delivered; a question
\* among them has been recorded by then.
Drops(p) ==
    /\ up /\ at[p] = "row" /\ row[p] \in Unroutable
    /\ Settled(p)
    /\ posed' = posed \cup ({row[p]} \cap Question)
    /\ UNCHANGED <<stamp, up, list, crashes, histVars>>

Spent(r) == attempts[r] + 1 >= MAX_DELIVERY_ATTEMPTS

\* An error at any point: unreadable content, an unknown or unauthorized
\* destination, the adapter, a handler, or the write of the record itself.
\* If the destination already has the row, the record of that is lost.
Throws(p) ==
    /\ up /\ Working(p)
    /\ LET r == row[p] IN
       /\ IF Spent(r) THEN Mark(r, "failed") ELSE UNCHANGED outcome
       /\ attempts' = [attempts EXCEPT ![r] = IF Spent(r) THEN 0 ELSE @ + 1]
       /\ throws' = [throws EXCEPT ![r] = @ + 1]
       /\ faults' = [faults EXCEPT ![r] = IF at[p] = "shown" THEN @ + 1 ELSE @]
    /\ Advance(p)
    /\ UNCHANGED <<stamp, posed, up, list, crashes, seen, answered>>

----------------------------------------------------------------------------
(* The agents, the user and the process.                                   *)

\* writeMessageOut, writeOutboundDirect: the clock does not run backwards,
\* so a row gets the second of the newest one or a later one.
WriteOut(r, t) ==
    /\ stamp[r] = 0
    /\ \A q \in Rows : Owner[q] = Owner[r] => stamp[q] <= t
    /\ t <= 1 + Cardinality({q \in Rows : Owner[q] = Owner[r] /\ stamp[q] > 0})
    /\ stamp' = [stamp EXCEPT ![r] = t]
    /\ UNCHANGED <<outcome, posed, up, inflight, attempts, pollVars, crashes, histVars>>

\* Mutant: deletePendingQuestion is forgotten.
Answers_KeepsRow(r) ==
    /\ up /\ r \in posed /\ seen[r] > 0
    /\ answered' = [answered EXCEPT ![r] = @ + 1]
    /\ UNCHANGED <<rowVars, up, inflight, attempts, pollVars, crashes, seen, faults, throws>>

\* handleInteractiveResponse: a click without a pending row is not claimed.
Answers(r) ==
    /\ up /\ r \in posed /\ seen[r] > 0
    /\ posed' = posed \ {r}
    /\ answered' = [answered EXCEPT ![r] = @ + 1]
    /\ UNCHANGED <<stamp, outcome, up, inflight, attempts, pollVars, crashes, seen, faults, throws>>

\* What lives in memory goes; the two databases stay.
HostStops ==
    /\ up /\ crashes < MaxCrashes
    /\ up' = FALSE /\ crashes' = crashes + 1
    /\ faults' = [r \in Rows |->
         IF \E p \in Pollers : at[p] = "shown" /\ row[p] = r
         THEN faults[r] + 1 ELSE faults[r]]
    /\ inflight' = {} /\ attempts' = Zero
    /\ at' = [p \in Pollers |-> "visit"]
    /\ list' = [p \in Pollers |-> {}]
    /\ visit' = [p \in Pollers |-> NoSession]
    /\ todo' = [p \in Pollers |-> {}]
    /\ row' = [p \in Pollers |-> NoRow]
    /\ UNCHANGED <<rowVars, seen, throws, answered>>

HostStarts ==
    /\ ~up /\ up' = TRUE
    /\ UNCHANGED <<rowVars, inflight, attempts, pollVars, crashes, histVars>>

----------------------------------------------------------------------------

Init ==
    /\ stamp = Zero /\ outcome = [r \in Rows |-> "none"] /\ posed = {}
    /\ up = TRUE /\ inflight = {} /\ attempts = Zero
    /\ at = [p \in Pollers |-> "visit"]
    /\ list = [p \in Pollers |-> {}]
    /\ visit = [p \in Pollers |-> NoSession]
    /\ todo = [p \in Pollers |-> {}]
    /\ row = [p \in Pollers |-> NoRow]
    /\ crashes = 0
    /\ seen = Zero /\ faults = Zero /\ throws = Zero /\ answered = Zero

RowStep(p) == Sends(p) \/ Shows(p) \/ Returns(p) \/ Drops(p) \/ Throws(p)

PollerStep(p) ==
    \/ PollStarts(p)
    \/ \E s \in Sessions : PollSession(p, s)
    \/ RowStep(p)

Next ==
    \/ \E p \in Pollers : PollerStep(p)
    \/ \E r \in Rows, t \in 1..Cardinality(Rows) : WriteOut(r, t)
    \/ \E r \in Question : Answers(r)
    \/ HostStops
    \/ HostStarts

Spec == Init /\ [][Next]_vars

\* The timers fire, a supervisor restarts the host, and an adapter call
\* returns or throws, except one on behalf of a session in Hang.
FairSpec ==
    /\ Spec
    /\ \A p \in Pollers : WF_vars(PollerStep(p) /\ ~(Working(p) /\ visit[p] \in Hang))
    /\ WF_vars(HostStarts)

----------------------------------------------------------------------------
(* Properties.                                                             *)

\* Every variable keeps to its type; the snapshot a poller works through
\* holds rows of the session it visits, and that session is in flight.
TypeOK ==
    /\ stamp \in [Rows -> Nat] /\ posed \subseteq Question
    /\ outcome \in [Rows -> {"none", "delivered", "failed"}]
    /\ up \in BOOLEAN /\ inflight \subseteq Sessions /\ attempts \in [Rows -> Nat]
    /\ at \in [Pollers -> {"visit", "row", "send", "shown"}]
    /\ list \in [Pollers -> SUBSET Sessions]
    /\ visit \in [Pollers -> Sessions \cup {NoSession}]
    /\ todo \in [Pollers -> SUBSET Rows]
    /\ row \in [Pollers -> Rows \cup {NoRow}]
    /\ crashes \in Nat
    /\ seen \in [Rows -> Nat] /\ faults \in [Rows -> Nat]
    /\ throws \in [Rows -> Nat] /\ answered \in [Rows -> Nat]

\* The two timer chains never drain the same session at once, and a session
\* is in inflightDeliveries exactly while a poller is inside it: an entry
\* that outlives its drain would silence the session until a restart.
GuardIsExact ==
    /\ inflight = {visit[p] : p \in Pollers} \ {NoSession}
    /\ \A p, q \in Pollers : p # q /\ visit[p] # NoSession => visit[p] # visit[q]
    /\ \A p \in Pollers : Working(p) <=> visit[p] # NoSession

Unrecorded(r) == \E p \in Pollers : at[p] = "shown" /\ row[p] = r

\* A row is on the user's screen once for its record, or its being shown
\* right now, and once more only for each error after the send and each
\* end of the process before the record: two pollers, a retry and a restart
\* never repeat a row otherwise.
ShownOncePerFault ==
    \A r \in Rows :
        seen[r] = faults[r] + (IF Unrecorded(r) \/ (outcome[r] = "delivered" /\ r \notin Unroutable)
                               THEN 1 ELSE 0)

\* A poller inside a session works on undelivered rows of that session, no
\* row twice in one drain, and calls no adapter for a row without routing;
\* a row nobody wrote, or nobody can route, has reached nobody.  (What
\* makes GuardIsExact and ShownOncePerFault inductive.)
WorksOnItsSession ==
    \A p \in Pollers :
        IF Working(p)
        THEN /\ visit[p] \in Sessions
             /\ row[p] \in Undelivered(visit[p])
             /\ todo[p] \subseteq Undelivered(visit[p]) \ {row[p]}
             /\ at[p] = "row" \/ row[p] \notin Unroutable
        ELSE visit[p] = NoSession /\ row[p] = NoRow /\ todo[p] = {}

Untouched ==
    \A r \in Rows :
        /\ stamp[r] = 0 => outcome[r] = "none" /\ seen[r] = 0
        /\ r \in Unroutable => seen[r] = 0

IInv == TypeOK /\ GuardIsExact /\ WorksOnItsSession /\ Untouched /\ ShownOncePerFault

Tried(r) == seen[r] > 0 \/ throws[r] > 0 \/ outcome[r] # "none"

\* Within a session no row overtakes an older one that was never tried: a
\* later message may pass an earlier one only because that one failed.
FirstTriesInOrder ==
    \A p \in Pollers : row[p] # NoRow =>
        \A q \in Rows :
            Owner[q] = visit[p] /\ stamp[q] > 0 /\ stamp[q] < stamp[row[p]] => Tried(q)

\* A card on the user's screen that nobody answered has its
\* pending_questions row, across retries, giving up and restarts: a click
\* is never lost for want of it.
CardIsAnswerable ==
    \A r \in Question : seen[r] > 0 /\ answered[r] = 0 => r \in posed

\* A question is answered a second time only if an error or a restart made
\* delivery take its card up again: the row an answer removes comes back
\* in no other way, however often the user clicks.
AnsweredOncePerSend == \A r \in Question : answered[r] <= 1 + throws[r] + crashes

Status == [r \in Rows |-> IF stamp[r] = 0 THEN "none"
                          ELSE IF outcome[r] = "none" THEN "pending" ELSE outcome[r]]

Promised == INSTANCE Outbox WITH outcome <- Status

\* Pollers, guard, snapshot, retries and restarts together implement the
\* promise of module Outbox.
KeepsPromise == Promised!Spec

\* A session whose adapter hangs holds up one poller for ever; since the
\* other one skips a session in flight instead of waiting for it, the rows
\* of sessions with a running container are settled all the same.
RowsSettle ==
    Cardinality(Hang) <= 1 =>
        \A r \in Rows :
            Owner[r] \in (IF Hang = {} THEN Sessions ELSE Running \ Hang) =>
                (stamp[r] > 0 ~> outcome[r] # "none")

=============================================================================
