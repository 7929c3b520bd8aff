------------------------------ MODULE Approvals ------------------------------
(***************************************************************************)
(* Requests of one agent that an admin must approve: packages, MCP servers *)
(* and ncl commands.  A request is a system row of messages_out; its       *)
(* handler looks for an approver, stores a row of pending_approvals and    *)
(* sends a card.  A click on the card takes the buttons away and runs the  *)
(* response handler, which applies the request or not, tells the agent and *)
(* deletes the row.                                                        *)
(*                                                                         *)
(* Packages and servers are applied without a suspension (the image is     *)
(* built by execSync); a command may suspend.  The host may crash anywhere *)
(* a step ends, and during a build.                                        *)
(* Left out: the deletion of the group, which removes its approvals with   *)
(* its sessions, and what the applied change does (module Containers).     *)
(***************************************************************************)
EXTENDS Naturals

CONSTANTS
    Installs, Servers, Commands, \* the requests, by action
    MaxCards,    \* bound: approval ids of a request
    MaxClicks,   \* bound: clicks in a behaviour
    MaxFaults,   \* bound: failures and crashes in a behaviour
    None

Requests == Installs \cup Servers \cup Commands
Cards == Requests \X (1..MaxCards)

ASSUME Kinds == Commands \cap (Installs \cup Servers) = {}
ASSUME Bounds == MaxCards \in Nat /\ MaxClicks \in Nat /\ MaxFaults \in Nat
ASSUME NoneIsNew == None \notin Requests \cup Cards \cup [card : Cards, value : {"approve", "reject"}]

VARIABLES
    row,       \* row of messages_out: "unasked", "queued", "delivered"
    handling,  \* the request whose handler is suspended, or None
    sending,   \* the card it is sending, or None while it looks for an approver
    made,      \* approval ids made for a request
    pending,   \* pending_approvals
    buttons,   \* cards an admin can click
    clicks,    \* clicks so far (bounded by MaxClicks)
    clicked,   \* of a click: its card and value
    at,        \* of a click: "editing", "running", "over"
    up,        \* the agent's container runs
    told,      \* cards the agent was told about: the answer or its outcome
    refused,   \* requests the agent was told could not be put to anybody
    host,
    faults,
    runs,      \* history: how often the action of a card was started
    rejected,  \* history: cards answered with a rejection
    quiet,     \* history: cards applied while the container was down
    twice,     \* history: cards of commands approved while already running
    torn,      \* history: cards whose answer a crash interrupted
    lost       \* history: cards sent to a channel that was not connected

asking == <<row, handling, sending, made, refused>>
answers == <<clicks, clicked, at>>
hist == <<runs, rejected, quiet, twice, torn, lost>>
vars == <<asking, pending, buttons, answers, up, told, host, faults, hist>>

Fault == faults < MaxFaults /\ faults' = faults + 1

Click == 1..MaxClicks
InFlight == {i \in Click : at[i] \in {"editing", "running"}}
CardOf(i) == clicked[i].card

------------------------------------------------------------------------------
(* The request.                                                            *)

Ask(r) ==
    /\ up /\ row[r] = "unasked"
    /\ row' = [row EXCEPT ![r] = "queued"]
    /\ UNCHANGED <<handling, sending, made, refused, pending, buttons, answers, up, told, host, faults, hist>>

\* Delivery calls the handler; pickApprovalDelivery may wait for the platform.
HandlerStarts(r) ==
    /\ host /\ handling = None /\ row[r] = "queued"
    /\ handling' = r
    /\ UNCHANGED <<row, sending, made, refused, pending, buttons, answers, up, told, host, faults, hist>>

Delivered(r) ==
    /\ row' = [row EXCEPT ![r] = "delivered"]
    /\ handling' = None /\ sending' = None

\* No approver, or none that can be reached.
NobodyReached(r) ==
    /\ host /\ handling = r /\ sending = None
    /\ Delivered(r)
    /\ refused' = refused \cup {r}
    /\ UNCHANGED <<made, pending, buttons, answers, up, told, host, faults, hist>>

\* createPendingApproval, under a new id each time.
CardMade(r) ==
    /\ host /\ handling = r /\ sending = None /\ made[r] < MaxCards
    /\ made' = [made EXCEPT ![r] = @ + 1]
    /\ pending' = pending \cup {<<r, made'[r]>>}
    /\ sending' = <<r, made'[r]>>
    /\ UNCHANGED <<row, handling, refused, buttons, answers, up, told, host, faults, hist>>

CardSent(r) ==
    /\ host /\ handling = r /\ sending # None
    /\ Delivered(r)
    /\ buttons' = buttons \cup {sending}
    /\ UNCHANGED <<made, refused, pending, answers, up, told, host, faults, hist>>

\* The send fails, though the card may have arrived.
CardFails(r) ==
    /\ host /\ handling = r /\ sending # None /\ Fault
    /\ Delivered(r)
    /\ buttons' \in {buttons, buttons \cup {sending}}
    /\ refused' = refused \cup {r}
    /\ UNCHANGED <<made, pending, answers, up, told, host, hist>>

\* The approver's channel is not connected: the send does nothing and reports success.
CardVanishes(r) ==
    /\ host /\ handling = r /\ sending # None /\ Fault
    /\ Delivered(r)
    /\ lost' = lost \cup {sending}
    /\ UNCHANGED <<made, refused, pending, buttons, answers, up, told, host, runs, rejected, quiet, twice, torn>>

------------------------------------------------------------------------------
(* The answer.                                                             *)

AdminClicks(c, v) ==
    /\ host /\ c \in buttons /\ clicks < MaxClicks
    /\ clicks' = clicks + 1
    /\ clicked' = [clicked EXCEPT ![clicks'] = [card |-> c, value |-> v]]
    /\ at' = [at EXCEPT ![clicks'] = "editing"]
    /\ UNCHANGED <<asking, pending, buttons, up, told, host, faults, hist>>

\* The bridge has taken the buttons away, or failed to; what follows runs at once.
Edited(i) ==
    /\ host /\ at[i] = "editing"
    /\ \/ buttons' = buttons \ {CardOf(i)} /\ UNCHANGED faults
       \/ UNCHANGED buttons /\ Fault

\* Mutant: a rejected row is kept.
Rejected_Kept(c) == pending

Rejected(c) == pending \ {c}

\* Mutant: the row is kept when applying it failed.
Settled_WhenApplied(c, ok) == IF ok THEN pending \ {c} ELSE pending

Settled(c, ok) == pending \ {c}

\* Mutant: a failure is only logged.
Notified_OfSuccess(c, ok) == IF ok THEN told \cup {c} ELSE told

Notified(c, ok) == told \cup {c}

\* Answered before, by another click.
Unclaimed(i) ==
    /\ Edited(i) /\ CardOf(i) \notin pending
    /\ at' = [at EXCEPT ![i] = "over"]
    /\ UNCHANGED <<asking, pending, clicks, clicked, up, told, host, hist>>

Reject(i) ==
    LET c == CardOf(i) IN
    /\ Edited(i) /\ c \in pending /\ clicked[i].value = "reject"
    /\ at' = [at EXCEPT ![i] = "over"]
    /\ pending' = Rejected(c)
    /\ told' = told \cup {c}
    /\ rejected' = rejected \cup {c}
    /\ UNCHANGED <<asking, clicks, clicked, up, host, runs, quiet, twice, torn, lost>>

Approved(i) == CardOf(i) \in pending /\ clicked[i].value = "approve"
Started(c) == runs' = [runs EXCEPT ![c] = @ + 1]

\* Applied: stored, built, and the running containers restarted with a note; nothing else tells
\* the agent.  A failed build, or anything that throws, is reported instead.
ApplyAtOnce(i) ==
    LET c == CardOf(i) IN
    /\ Edited(i) /\ Approved(i) /\ c[1] \notin Commands
    /\ Started(c)
    /\ \E ok \in BOOLEAN :
         /\ told' = IF ok /\ ~up THEN told ELSE Notified(c, ok)
         /\ quiet' = IF ok /\ ~up THEN quiet \cup {c} ELSE quiet
         /\ pending' = Settled(c, ok)
    /\ at' = [at EXCEPT ![i] = "over"]
    /\ UNCHANGED <<asking, clicks, clicked, up, host, rejected, twice, torn, lost>>

\* dispatch of the command; its handler may suspend.
RunCommand(i) ==
    LET c == CardOf(i) IN
    /\ Edited(i) /\ Approved(i) /\ c[1] \in Commands
    /\ Started(c)
    /\ twice' = IF \E j \in Click : at[j] = "running" /\ CardOf(j) = c THEN twice \cup {c} ELSE twice
    /\ at' = [at EXCEPT ![i] = "running"]
    /\ UNCHANGED <<asking, pending, clicks, clicked, up, told, host, rejected, quiet, torn, lost>>

\* The result or the error of the command is written, and the row goes.
CommandEnds(i) ==
    /\ host /\ at[i] = "running"
    /\ \E ok \in BOOLEAN : /\ told' = Notified(CardOf(i), ok)
                           /\ pending' = Settled(CardOf(i), ok)
    /\ at' = [at EXCEPT ![i] = "over"]
    /\ UNCHANGED <<asking, buttons, clicks, clicked, up, host, faults, hist>>

------------------------------------------------------------------------------
(* Container and host.                                                     *)

ContainerChanges ==
    /\ up' = ~up
    /\ UNCHANGED <<asking, pending, buttons, answers, told, host, faults, hist>>

\* Clicks in flight are lost; a card that was being sent, or its buttons, may have changed.
\* With building, an answer dies in the middle of its build.
HostCrashes ==
    /\ host /\ Fault /\ host' = FALSE
    /\ handling' = None /\ sending' = None
    /\ at' = [i \in Click |-> IF i \in InFlight THEN "over" ELSE at[i]]
    /\ buttons' \in {buttons, buttons \ {CardOf(i) : i \in InFlight},
                     buttons \cup {c \in Cards : c = sending}}
    /\ torn' = torn \cup {CardOf(i) : i \in InFlight}
    /\ \/ UNCHANGED runs
       \/ \E i \in Click : at[i] = "editing" /\ Approved(i) /\ CardOf(i)[1] \in Installs /\ Started(CardOf(i))
    /\ UNCHANGED <<row, made, refused, pending, clicks, clicked, up, told, rejected, quiet, twice, lost>>

HostStarts ==
    /\ ~host /\ host' = TRUE
    /\ UNCHANGED <<asking, pending, buttons, answers, up, told, faults, hist>>

------------------------------------------------------------------------------
Init ==
    /\ row = [r \in Requests |-> "unasked"] /\ made = [r \in Requests |-> 0]
    /\ handling = None /\ sending = None /\ refused = {}
    /\ pending = {} /\ buttons = {}
    /\ clicks = 0 /\ clicked = [i \in Click |-> None] /\ at = [i \in Click |-> "over"]
    /\ up = TRUE /\ told = {} /\ host = TRUE /\ faults = 0
    /\ runs = [c \in Cards |-> 0]
    /\ rejected = {} /\ quiet = {} /\ twice = {} /\ torn = {} /\ lost = {}

Handler(r) == HandlerStarts(r) \/ NobodyReached(r) \/ CardMade(r) \/ CardSent(r)
    \/ CardFails(r) \/ CardVanishes(r)
Respond(i) == Unclaimed(i) \/ Reject(i) \/ ApplyAtOnce(i) \/ RunCommand(i) \/ CommandEnds(i)

Next ==
    \/ \E r \in Requests : Ask(r) \/ Handler(r)
    \/ \E c \in Cards, v \in {"approve", "reject"} : AdminClicks(c, v)
    \/ \E i \in Click : Respond(i)
    \/ ContainerChanges \/ HostCrashes \/ HostStarts

Spec == Init /\ [][Next]_vars

------------------------------------------------------------------------------
(* Properties.                                                             *)

Made(c) == c[2] <= made[c[1]]

\* Every variable keeps its type.
TypeOK ==
    /\ row \in [Requests -> {"unasked", "queued", "delivered"}]
    /\ handling \in Requests \cup {None} /\ sending \in Cards \cup {None}
    /\ made \in [Requests -> 0..MaxCards]
    /\ pending \subseteq Cards /\ buttons \subseteq Cards
    /\ clicks \in 0..MaxClicks
    /\ clicked \in [Click -> [card : Cards, value : {"approve", "reject"}] \cup {None}]
    /\ at \in [Click -> {"editing", "running", "over"}]
    /\ up \in BOOLEAN /\ host \in BOOLEAN /\ faults \in 0..MaxFaults
    /\ told \subseteq Cards /\ refused \subseteq Requests
    /\ runs \in [Cards -> Nat]
    /\ rejected \subseteq Cards /\ quiet \subseteq Cards /\ twice \subseteq Cards /\ torn \subseteq Cards
    /\ lost \subseteq Cards

\* The action of a card is started once, however often and however the card is clicked; a second
\* start takes a crash during the first, or for a command an approval that arrives while it runs.
AppliedOnce == \A c \in Cards : runs[c] > 1 => c \in torn \cup twice

\* Nothing is started on a card after its rejection.
RejectedStays == [][\A c \in rejected : runs'[c] = runs[c]]_vars

\* A card that was answered has its answer or its outcome told to the agent, whatever failed,
\* unless it was applied while the container was down.
AnswerIsTold == \A c \in Cards : Made(c) /\ c \notin pending => c \in told \cup quiet

\* A request is not stuck: the last card made for it can be answered or is being answered, or the
\* agent was told that it failed, unless a crash cut an answer off or the channel was not connected.
StaysAnswerable ==
    \A c \in pending : c[2] = made[c[1]] /\ row[c[1]] = "delivered" =>
        \/ c \in buttons \cup torn \cup lost \/ c[1] \in refused
        \/ \E i \in InFlight : CardOf(i) = c
=============================================================================
