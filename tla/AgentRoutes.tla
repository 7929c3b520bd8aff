---------------------------- MODULE AgentRoutes ----------------------------
(***************************************************************************)
(* Messages between agents.  An agent addresses another one by a name its  *)
(* session knows; the host checks the central permissions, picks one       *)
(* session of the other agent and writes the row there, with the session   *)
(* it came from, so that an answer finds its way back: first by the row    *)
(* the answer names, then by the last row of that agent, then to its       *)
(* newest session.                                                         *)
(*                                                                         *)
(* Names are kept in a copy inside each session, written when a container  *)
(* starts and when permissions change; sessions and agents may be deleted, *)
(* containers die, and a host that crashes routes the same row again.      *)
(***************************************************************************)
EXTENDS Naturals, Sequences, FiniteSets

CONSTANTS
    Groups,       \* agent groups, the ones create_agent may still make included
    Groups0,      \* those of the set-up
    MaxSessions,  \* bound: sessions
    MaxChat,      \* bound: rows from chats
    MaxOut,       \* bound: rows between agents
    MaxFaults,    \* bound: crashes, dead containers and what administrators take away
    None

ASSUME Bounds == {MaxSessions, MaxChat, MaxOut, MaxFaults} \subseteq Nat
ASSUME KnownGroups == Groups0 \subseteq Groups /\ None \notin Groups

Sessions == 1..MaxSessions   \* in the order of created_at

ASSUME NoneIsNew == None \notin Sessions

VARIABLES
    groups,   \* agent_groups
    unmade,   \* groups create_agent has not made yet
    owner,    \* of a session: its group, None before it is created
    active,   \* rows of sessions
    allowed,  \* agent_destinations, in the central database: <<agent, target>>
    known,    \* destinations, in the database of a session: targets
    inbox,    \* messages_in of a session, in the order of seq
    running,  \* sessions with a container
    taken,    \* of a session: how many rows its agent was handed
    turn,     \* of a session: the first row of the last batch, 0 before one
    due,      \* rows of messages_out to route
    wrote,    \* rows of messages_out so far
    chats,    \* rows from chats so far
    faults

vars == <<groups, unmade, owner, active, allowed, known, inbox, running, taken, turn,
          due, wrote, chats, faults>>

Fault == faults < MaxFaults /\ faults' = faults + 1

Targets(g) == {h \in Groups : <<g, h>> \in allowed}
Live(g) == {s \in active : owner[s] = g}

\* Places in a log of rows of group h that say which session they came from.
From(log, h) == {i \in 1..Len(log) : log[i].from = h /\ log[i].src # None}
Partners(log, h) == {log[i].src : i \in From(log, h)}
Last(S) == CHOOSE i \in S : \A j \in S : j <= i

Unborn == {s \in Sessions : owner[s] = None}
Next_ == CHOOSE s \in Unborn : \A r \in Unborn : s <= r

\* A row of a chat, of the host (create_agent), or of another agent.
Row(from, src) == [from |-> from, src |-> src]
Append1(s, row) == inbox' = [inbox EXCEPT ![s] = Append(@, row)]

Init ==
    /\ groups = Groups0 /\ unmade = Groups \ Groups0
    /\ owner = [s \in Sessions |-> None] /\ active = {}
    /\ allowed = {} /\ known = [s \in Sessions |-> {}]
    /\ inbox = [s \in Sessions |-> <<>>]
    /\ running = {}
    /\ taken = [s \in Sessions |-> 0] /\ turn = [s \in Sessions |-> 0]
    /\ due = {}
    /\ wrote = 0 /\ chats = 0 /\ faults = 0

------------------------------------------------------------------------------
(* Chats and containers.                                                   *)

\* The router finds the session of the chat, or creates it.
ChatWrites(s) ==
    /\ s \in active /\ chats < MaxChat
    /\ Append1(s, Row(None, None)) /\ chats' = chats + 1
    /\ UNCHANGED <<groups, unmade, owner, active, allowed, known, running, taken, turn, due, wrote, faults>>

ChatOpens(g) ==
    /\ g \in groups /\ Unborn # {} /\ chats < MaxChat
    /\ owner' = [owner EXCEPT ![Next_] = g] /\ active' = active \cup {Next_}
    /\ Append1(Next_, Row(None, None)) /\ chats' = chats + 1
    /\ UNCHANGED <<groups, unmade, allowed, known, running, taken, turn, due, wrote, faults>>

\* spawnContainer, of a session with rows nobody handled: writeDestinations.
Wakes(s) ==
    /\ s \in active \ running /\ taken[s] < Len(inbox[s])
    /\ running' = running \cup {s}
    /\ known' = [known EXCEPT ![s] = Targets(owner[s])]
    /\ UNCHANGED <<groups, unmade, owner, active, allowed, inbox, taken, turn, due, wrote, chats, faults>>

\* A new batch, or a follow-up of the open one.  A batch that ended without
\* a row to another agent is told from an open one only when it matters: here,
\* and when the container dies.
Takes(s) ==
    /\ s \in running \cap active /\ taken[s] < Len(inbox[s])
    /\ \E first \in {turn[s], taken[s] + 1} \ {0} : turn' = [turn EXCEPT ![s] = first]
    /\ taken' = [taken EXCEPT ![s] = Len(inbox[s])]
    /\ UNCHANGED <<groups, unmade, owner, active, allowed, known, inbox, running, due, wrote, chats, faults>>

\* The rows of an open batch are handed over again.
Undone(s) == IF turn[s] = 0 THEN {taken[s]} ELSE {taken[s], turn[s] - 1}

Dies(s) ==
    /\ s \in running /\ Fault
    /\ running' = running \ {s}
    /\ \E done \in Undone(s) : taken' = [taken EXCEPT ![s] = done]
    /\ turn' = [turn EXCEPT ![s] = 0]
    /\ UNCHANGED <<groups, unmade, owner, active, allowed, known, inbox, due, wrote, chats>>

------------------------------------------------------------------------------
(* What an agent writes to another one.                                    *)

Writes(s, h, ref) ==
    /\ s \in running \cap active /\ turn[s] # 0 /\ wrote < MaxOut
    /\ due' = due \cup {[of |-> s, to |-> h, ref |-> ref]}
    /\ wrote' = wrote + 1

\* The row an answer names: the last one of its destination, whether or not
\* the agent has seen it, else the first of the batch.
InReplyTo(s, h) ==
    LET rows == {i \in 1..Len(inbox[s]) : inbox[s][i].from = h}
    IN  IF rows = {} THEN turn[s] ELSE Last(rows)

\* sendToDestination, of a block of the result.
Replies(s, h) ==
    /\ h \in known[s] /\ Writes(s, h, InReplyTo(s, h))
    /\ UNCHANGED <<groups, unmade, owner, active, allowed, known, inbox, running, taken, turn, chats, faults>>

\* send_message and send_file run in a process that does not know the batch.
Sends(s, h) ==
    /\ h \in known[s] /\ Writes(s, h, 0)
    /\ UNCHANGED <<groups, unmade, owner, active, allowed, known, inbox, running, taken, turn, chats, faults>>

\* A query that fails answers the agent the batch came from, whoever it knows.
Fails(s) ==
    /\ turn[s] # 0 /\ inbox[s][turn[s]].from # None
    /\ Writes(s, inbox[s][turn[s]].from, 0)
    /\ turn' = [turn EXCEPT ![s] = 0]
    /\ UNCHANGED <<groups, unmade, owner, active, allowed, known, inbox, running, taken, chats, faults>>

------------------------------------------------------------------------------
(* routeAgentMessage.                                                      *)

Authorized(m) ==
    /\ m.to = owner[m.of] \/ <<owner[m.of], m.to>> \in allowed
    /\ m.to \in groups

\* Mutant: only the second and third way of resolveTargetSession.
Origin_Affinity(m) ==
    LET log == inbox[m.of] IN
    IF From(log, m.to) = {} THEN None ELSE log[Last(From(log, m.to))].src

\* Mutant: only the first way.
Origin_NamedOnly(m) == IF m.ref = 0 THEN None ELSE inbox[m.of][m.ref].src

\* The session to answer to: that of the row the message names, else that
\* of the last row of the target agent.
Origin(m) ==
    LET log == inbox[m.of] IN
    IF m.ref # 0 /\ log[m.ref].src # None THEN log[m.ref].src
    ELSE IF From(log, m.to) = {} THEN None ELSE log[Last(From(log, m.to))].src

\* A session that is gone, or of another agent, gives way to the newest one.
Target(m) ==
    IF Origin(m) \in Live(m.to) THEN Origin(m)
    ELSE IF Live(m.to) # {} THEN Last(Live(m.to)) ELSE Next_

RouteWrites(m) ==
    /\ m \in due /\ m.of \in active /\ Authorized(m)
    /\ Live(m.to) # {} \/ Unborn # {}
    /\ owner' = [owner EXCEPT ![Target(m)] = m.to]
    /\ active' = active \cup {Target(m)}
    /\ Append1(Target(m), Row(owner[m.of], m.of))
    /\ UNCHANGED <<groups, unmade, allowed, known, wrote, chats>>

Routes(m) ==
    /\ RouteWrites(m) /\ due' = due \ {m}
    /\ UNCHANGED <<running, taken, turn, faults>>

\* The host dies before it marks the row delivered; at its next start it
\* removes every container.
RoutesAndCrashes(m) ==
    /\ RouteWrites(m) /\ Fault
    /\ running' = {}
    /\ taken' \in {done \in [Sessions -> UNION {Undone(s) : s \in Sessions}] :
                     \A s \in Sessions : done[s] \in Undone(s)}
    /\ turn' = [s \in Sessions |-> 0]
    /\ UNCHANGED due

\* Three attempts that throw.
Refused(m) ==
    /\ m \in due /\ m.of \in active /\ ~Authorized(m)
    /\ due' = due \ {m}
    /\ UNCHANGED <<groups, unmade, owner, active, allowed, known, inbox, running, taken, turn, wrote, chats, faults>>

------------------------------------------------------------------------------
(* Permissions.                                                            *)

\* Mutant: only the sessions whose container does not run.
Projected_Stopped(g, targets) ==
    known' = [s \in Sessions |-> IF s \in Live(g) \ running THEN targets ELSE known[s]]

\* projectDestinationsToSessions: every session of the group.
Projected(g, targets) ==
    known' = [s \in Sessions |-> IF s \in Live(g) THEN targets ELSE known[s]]

\* ncl destinations add, remove; no agent is given a name for itself.
Allow(g, h) ==
    /\ g # h /\ {g, h} \subseteq groups /\ <<g, h>> \notin allowed
    /\ allowed' = allowed \cup {<<g, h>>} /\ Projected(g, Targets(g) \cup {h})
    /\ UNCHANGED <<groups, unmade, owner, active, inbox, running, taken, turn, due, wrote, chats, faults>>

Forbid(g, h) ==
    /\ <<g, h>> \in allowed /\ Fault
    /\ allowed' = allowed \ {<<g, h>>} /\ Projected(g, Targets(g) \ {h})
    /\ UNCHANGED <<groups, unmade, owner, active, inbox, running, taken, turn, due, wrote, chats>>

\* create_agent, asked for by the agent of s: the child and its creator may
\* write to each other; the copy of the session that asked is renewed.
CreatesAgent(s, c) ==
    /\ s \in active /\ taken[s] # 0 /\ c \in unmade
    /\ groups' = groups \cup {c} /\ unmade' = unmade \ {c}
    /\ allowed' = allowed \cup {<<owner[s], c>>, <<c, owner[s]>>}
    /\ known' = [known EXCEPT ![s] = Targets(owner[s]) \cup {c}]
    /\ Append1(s, Row(owner[s], None))
    /\ UNCHANGED <<owner, active, running, taken, turn, due, wrote, chats, faults>>

\* ncl groups delete: the group, its sessions, what it may do and what others
\* may do with it.  The copies of other sessions stay, and so do containers.
DeleteGroup(g) ==
    /\ g \in groups /\ Fault
    /\ groups' = groups \ {g} /\ active' = active \ Live(g)
    /\ allowed' = {p \in allowed : p[1] # g /\ p[2] # g}
    /\ UNCHANGED <<unmade, owner, known, inbox, running, taken, turn, due, wrote, chats>>

Next ==
    \/ \E s \in Sessions :
         \/ ChatWrites(s) \/ Wakes(s) \/ Takes(s) \/ Dies(s) \/ Fails(s)
         \/ \E g \in Groups : Replies(s, g) \/ Sends(s, g) \/ CreatesAgent(s, g)
    \/ \E g \in Groups :
         \/ ChatOpens(g) \/ DeleteGroup(g)
         \/ \E h \in Groups : Allow(g, h) \/ Forbid(g, h)
    \/ \E m \in due : Routes(m) \/ RoutesAndCrashes(m) \/ Refused(m)

Spec == Init /\ [][Next]_vars

------------------------------------------------------------------------------
(* Properties.                                                             *)

Rows == [from : Groups \cup {None}, src : Sessions \cup {None}]
Messages == [of : Sessions, to : Groups, ref : Nat]

\* Every variable keeps its type.
TypeOK ==
    /\ groups \subseteq Groups /\ unmade \subseteq Groups
    /\ owner \in [Sessions -> Groups \cup {None}] /\ active \subseteq Sessions
    /\ allowed \subseteq Groups \X Groups /\ known \in [Sessions -> SUBSET Groups]
    /\ inbox \in [Sessions -> Seq(Rows)] /\ running \subseteq Sessions
    /\ taken \in [Sessions -> Nat] /\ turn \in [Sessions -> Nat]
    /\ due \subseteq Messages
    /\ {wrote, chats, faults} \subseteq Nat

\* m is written to the inbox of s in this step.
Lands(m, s) == m \in due \ due' /\ inbox'[s] # inbox[s]
Named(m) == IF m.ref = 0 THEN None ELSE inbox[m.of][m.ref].src

\* An answer goes to the session it names.  Between the writing of an answer
\* and its routing other sessions of the same agent may write, the named one
\* may be deleted, and a crash may route the answer a second time: as long as
\* the session of the named row is there, the answer goes to it and nowhere else.
AnswersReturn ==
    [][\A m \in due : \A s \in Sessions :
         Lands(m, s) /\ Named(m) \in Live(m.to) => s = Named(m)]_vars

\* A message between agents that have a conversation stays in it: it goes to
\* a session that has written to this one, unless one of those was deleted.
StaysInConversation ==
    [][\A m \in due : \A s \in Sessions :
         LET partners == Partners(inbox[m.of], m.to) IN
           /\ Lands(m, s)
           /\ m.ref = 0 \/ inbox[m.of][m.ref].from \in {m.to, None}
           /\ partners # {} /\ partners \subseteq active
         => s \in partners]_vars

\* A name the agent of a running container can use, and the host would refuse,
\* is that of a deleted agent: a permission that is taken away is taken out of
\* every copy, whichever session was created or woken in between.
KnownIsAllowed ==
    \A s \in running \cap active : known[s] \cap groups \subseteq Targets(owner[s])
=============================================================================
