----------------------------- MODULE Admission -----------------------------
(***************************************************************************)
(* Who may talk to which agent: the inbound router with the hooks of the   *)
(* permissions module (src/router.ts, src/modules/permissions/).           *)
(*                                                                         *)
(* A message is routed to every agent wired to its channel, in priority    *)
(* order.  An unknown sender's message is dropped and a card asks the      *)
(* owner; a mention in a channel without agents is dropped and a card asks *)
(* the owner which agent should have the channel.  A click on a card       *)
(* changes memberships or wirings and routes the stored message again.     *)
(*                                                                         *)
(* The host is one thread: an action is a stretch of code between two      *)
(* awaits.  A channel is one conversation (one thread of a platform with   *)
(* threads), so "a session exists" is "the agent has a row of the channel".*)
(***************************************************************************)
EXTENDS Naturals, FiniteSets

CONSTANTS
    Channels, Agents, Users, Msgs,
    Chan, From,     \* the channel and the sender of a message
    Mentions,       \* the messages that address the bot (every message of a DM does)
    Owner, OwnerDm, \* the one approver, and the channel that is their DM with the bot
    Threaded,       \* channels whose adapter has threads (event.threadId is set)
    Policy,         \* messaging_groups.unknown_sender_policy
    Setup,          \* wirings made by the operator: <<channel, agent>> -> wiring
    Rank,           \* the order of getMessagingGroupAgents
    Groups0, Members0, \* agent groups and memberships at the start
    MaxFaults,      \* bound on failed sends, unreachable DMs and restarts
    None

Modes == {"pattern", "mention", "mention-sticky"}
Wiring == [mode : Modes, matches : SUBSET Msgs, accumulates : BOOLEAN, knownOnly : BOOLEAN]

ASSUME Routes ==
    /\ Chan \in [Msgs -> Channels] /\ From \in [Msgs -> Users]
    /\ Mentions \subseteq Msgs
    /\ Owner \in Users /\ OwnerDm \in Channels /\ Threaded \subseteq Channels
    /\ Policy \in [Channels -> {"strict", "request_approval", "public"}]
    /\ None \notin Msgs \cup Agents \cup Channels \cup (Msgs \X Agents)
ASSUME Wirings ==
    /\ DOMAIN Setup \subseteq Channels \X Groups0
    /\ \A x \in DOMAIN Setup : Setup[x] \in Wiring
    /\ Groups0 \subseteq Agents /\ Members0 \subseteq Users \X Groups0
    /\ Rank \in [Agents -> Nat]
    /\ \A a, b \in Agents : Rank[a] = Rank[b] => a = b
ASSUME Bound == MaxFaults \in Nat

VARIABLES
    arrived,    \* messages the adapters have handed over
    groups,     \* agent_groups
    wired,      \* messaging_group_agents
    denied,     \* channels with denied_at set
    members,    \* agent_group_members
    got,        \* rows of the agents' sessions: "no", "context" (trigger 0), "wake"
    cp,         \* pending_channel_approvals: channel -> original message
    sp,         \* pending_sender_approvals: <<channel, sender>> -> <<message, agent>>
    askC, askS, \* requests past their in-flight check, waiting for the owner's DM to open
    cardC, cardS, \* cards with live buttons in the owner's DM
    naming,     \* awaitingNameInput of the owner: the channel to be named for
    prompting,  \* name prompts on their way to the owner
    fan,        \* routings waiting in the loop over the agents
    faults,
    clean       \* history: replays for an agent, of a message no agent had yet

rows == <<got, fan, askC, askS>>
vars == <<arrived, groups, wired, denied, members, got, cp, sp, askC, askS, cardC, cardS,
          naming, prompting, fan, faults, clean>>

------------------------------------------------------------------------------
(* The gates *)

\* A wiring made by a channel card: sticky if the event has a thread, else every message.
Registered(c) == [mode |-> IF c \in Threaded THEN "mention-sticky" ELSE "pattern",
                  matches |-> Msgs, accumulates |-> TRUE, knownOnly |-> TRUE]
WiringOf(c, a) == IF <<c, a>> \in DOMAIN Setup THEN Setup[<<c, a>>] ELSE Registered(c)

HasSession(c, a) == \E n \in Msgs : Chan[n] = c /\ got[<<n, a>>] # "no"

evaluateEngage(m, a) ==
    LET w == WiringOf(Chan[m], a)
    IN  \/ w.mode = "pattern" /\ m \in w.matches
        \/ w.mode # "pattern" /\ m \in Mentions
        \/ w.mode = "mention-sticky" /\ HasSession(Chan[m], a)

canAccessAgentGroup(u, a, known) == u = Owner \/ <<u, a>> \in known

\* Mutant: a member of any agent group passes.
accessGate_Anywhere(m, a, known) ==
    \/ Policy[Chan[m]] = "public" \/ From[m] = Owner
    \/ \E b \in Agents : <<From[m], b>> \in known

accessGate(m, a, known) ==
    Policy[Chan[m]] = "public" \/ canAccessAgentGroup(From[m], a, known)
senderScopeGate(m, a, known) ==
    WiringOf(Chan[m], a).knownOnly => canAccessAgentGroup(From[m], a, known)

\* A click changes memberships and pending rows before it routes: the loop sees them primed.
Wakes(m, a) ==
    evaluateEngage(m, a) /\ accessGate(m, a, members') /\ senderScopeGate(m, a, members')
Keeps(m, a) == ~evaluateEngage(m, a) /\ WiringOf(Chan[m], a).accumulates
AsksFor(m, a) == /\ evaluateEngage(m, a) /\ ~accessGate(m, a, members')
                 /\ Policy[Chan[m]] = "request_approval"
                 /\ sp'[<<Chan[m], From[m]>>] = None

------------------------------------------------------------------------------
(* routeInbound *)

\* The loop over the agents, up to its next await: the first agent that takes a row.
\* A row of this message there already is a UNIQUE violation, which ends the loop.
FanOut(m, by, todo, others) ==
    LET takers == {a \in todo : Wakes(m, a) \/ Keeps(m, a)}
        next   == {a \in takers : \A b \in takers : Rank[a] <= Rank[b]}
        passed == {a \in todo : \A b \in takers : Rank[a] < Rank[b]}
        left   == {a \in todo : \E b \in next : Rank[b] < Rank[a]}
        throws == \E a \in next : got[<<m, a>>] # "no"
    IN  /\ askS' = askS \cup {<<m, a>> : a \in {b \in passed : AsksFor(m, b)}}
        /\ got' = [x \in Msgs \X Agents |->
                     IF x[1] = m /\ x[2] \in next /\ got[x] = "no"
                     THEN IF Wakes(m, x[2]) THEN "wake" ELSE "context"
                     ELSE got[x]]
        /\ fan' = others \cup
                    IF throws \/ left = {} THEN {} ELSE {[msg |-> m, by |-> by, todo |-> left]}

\* Mutant: the denied mark is not looked at.
Escalates_IgnoresDenial(m) == m \in Mentions /\ cp'[Chan[m]] = None

\* A channel without agents is shown to the owner: once, if mentioned, unless rejected.
Escalates(m) == m \in Mentions /\ Chan[m] \notin denied' /\ cp'[Chan[m]] = None

\* From the lookup of the channel on; "by" is the agent a click routes the message for.
Route(m, by) ==
    LET agents == {a \in Agents : <<Chan[m], a>> \in wired'}
    IN  /\ clean' = clean \cup
             (IF by = None \/ \E a \in Agents : got[<<m, a>>] # "no" THEN {} ELSE {<<m, by>>})
        /\ \/ /\ agents # {}
              /\ FanOut(m, by, agents, fan)
              /\ UNCHANGED askC
           \/ /\ agents = {}
              /\ askC' = IF Escalates(m) THEN askC \cup {m} ELSE askC
              /\ UNCHANGED <<got, askS, fan>>

\* The owner's next message in the DM is taken for the name of a new agent.
Intercepted(m) == naming # None /\ From[m] = Owner /\ Chan[m] = OwnerDm

\* routeInbound with the interceptor; w, mem and p are what the caller has written so far.
routeInbound(m, by, w, mem, p) ==
    \/ /\ ~Intercepted(m)
       /\ wired' = w /\ members' = mem /\ cp' = p
       /\ Route(m, by)
       /\ UNCHANGED <<naming, groups>>
    \/ /\ Intercepted(m)    \* the text is blank, or the row is gone
       /\ wired' = w /\ members' = mem /\ cp' = p
       /\ naming' = None
       /\ UNCHANGED <<groups, rows, clean>>
    \/ /\ Intercepted(m) /\ p[naming] # None
       /\ \E a \in Agents \ groups :
            /\ groups' = groups \cup {a}
            /\ wired' = w \cup {<<naming, a>>}
            /\ members' = mem \cup {<<From[p[naming]], a>>}
            /\ cp' = [p EXCEPT ![naming] = None]
            /\ naming' = None
            /\ Route(p[naming], a)

\* An adapter hands over a message.
Arrives(m) ==
    /\ m \notin arrived
    /\ arrived' = arrived \cup {m}
    /\ UNCHANGED <<denied, sp, cardC, cardS, prompting, faults>>
    /\ routeInbound(m, None, wired, members, cp)

\* The loop goes on after the wake of a container.
Resumes(r) ==
    /\ UNCHANGED <<arrived, groups, wired, denied, members, cp, sp, askC, cardC, cardS,
                   naming, prompting, faults, clean>>
    /\ FanOut(r.msg, r.by, r.todo, fan \ {r})

------------------------------------------------------------------------------
(* requestChannelApproval and requestSenderApproval, after the await *)

idle == <<arrived, groups, wired, denied, members, got, naming, prompting, fan, clean>>

Fault == faults < MaxFaults /\ faults' = faults + 1

\* The row is inserted, or refused because another request was faster; then the card is sent.
ChannelRow(m) ==
    /\ m \in askC /\ askC' = askC \ {m}
    /\ cp' = IF cp[Chan[m]] = None THEN [cp EXCEPT ![Chan[m]] = m] ELSE cp
    /\ \/ /\ cardC' = IF cp[Chan[m]] = None THEN [cardC EXCEPT ![Chan[m]] = @ + 1] ELSE cardC
          /\ UNCHANGED faults
       \/ cp[Chan[m]] = None /\ Fault /\ UNCHANGED cardC
    /\ UNCHANGED <<idle, sp, askS, cardS>>

\* Mutant: INSERT OR IGNORE, so the slower request sends its card as well.
SenderRow_OrIgnore(m, a) ==
    LET k == <<Chan[m], From[m]>>
    IN  /\ <<m, a>> \in askS /\ askS' = askS \ {<<m, a>>}
        /\ sp' = IF sp[k] = None THEN [sp EXCEPT ![k] = <<m, a>>] ELSE sp
        /\ cardS' = [cardS EXCEPT ![k] = @ + 1]
        /\ UNCHANGED <<idle, cp, askC, cardC, faults>>

SenderRow(m, a) ==
    LET k == <<Chan[m], From[m]>>
    IN  /\ <<m, a>> \in askS /\ askS' = askS \ {<<m, a>>}
        /\ sp' = IF sp[k] = None THEN [sp EXCEPT ![k] = <<m, a>>] ELSE sp
        /\ \/ /\ cardS' = IF sp[k] = None THEN [cardS EXCEPT ![k] = @ + 1] ELSE cardS
              /\ UNCHANGED faults
           \/ sp[k] = None /\ Fault /\ UNCHANGED cardS
        /\ UNCHANGED <<idle, cp, askC, cardC>>

\* No DM with the owner could be opened: no row.
OwnerUnreachable ==
    /\ Fault
    /\ \/ \E m \in askC : askC' = askC \ {m} /\ UNCHANGED askS
       \/ \E x \in askS : askS' = askS \ {x} /\ UNCHANGED askC
    /\ UNCHANGED <<idle, cp, sp, cardC, cardS>>

------------------------------------------------------------------------------
(* Clicks of the owner.  The bridge removes a card's buttons before it dispatches. *)

clickedS(k) == cardS[k] > 0 /\ sp[k] # None /\ cardS' = [cardS EXCEPT ![k] = @ - 1]
clickedC(c) == cardC[c] > 0 /\ cp[c] # None /\ cardC' = [cardC EXCEPT ![c] = @ - 1]

\* Mutant: the message is routed again before the sender is a member.
ApproveSender_RoutesFirst(k) ==
    /\ clickedS(k)
    /\ sp' = [sp EXCEPT ![k] = None]
    /\ UNCHANGED <<arrived, denied, cardC, prompting, faults>>
    /\ routeInbound(sp[k][1], sp[k][2], wired, members, cp)

ApproveSender(k) ==
    /\ clickedS(k)
    /\ sp' = [sp EXCEPT ![k] = None]
    /\ UNCHANGED <<arrived, denied, cardC, prompting, faults>>
    /\ routeInbound(sp[k][1], sp[k][2], wired, members \cup {<<k[2], sp[k][2]>>}, cp)

\* Mutant: a denial leaves the row.
DenySender_KeepsRow(k) ==
    /\ clickedS(k)
    /\ UNCHANGED <<idle, cp, sp, askC, askS, cardC, faults>>

DenySender(k) ==
    /\ clickedS(k)
    /\ sp' = [sp EXCEPT ![k] = None]
    /\ UNCHANGED <<idle, cp, askC, askS, cardC, faults>>

\* createMessagingGroupAgent throws for a pair that is wired: the row stays.
Connect(c, a) ==
    /\ clickedC(c)
    /\ a \in groups
    /\ UNCHANGED <<arrived, denied, sp, cardS, prompting, faults>>
    /\ \/ /\ <<c, a>> \notin wired
          /\ routeInbound(cp[c], a, wired \cup {<<c, a>>}, members \cup {<<From[cp[c]], a>>},
                          [cp EXCEPT ![c] = None])
       \/ /\ <<c, a>> \in wired
          /\ UNCHANGED <<groups, wired, members, cp, naming, rows, clean>>

\* "Choose existing agent": the list of agents replaces the card, unless it cannot be sent.
ListLost(c) ==
    /\ clickedC(c) /\ Fault
    /\ UNCHANGED <<idle, cp, sp, askC, askS, cardS>>

NewAgent(c) ==
    /\ clickedC(c)
    /\ naming' = c /\ prompting' = prompting \cup {c}
    /\ UNCHANGED <<arrived, groups, wired, denied, members, rows, cp, sp, cardS, faults, clean>>

\* The prompt was sent, or was not: then the owner's entry goes, whichever channel it is for.
PromptReturns(c) ==
    /\ c \in prompting /\ prompting' = prompting \ {c}
    /\ \/ UNCHANGED <<naming, faults>>
       \/ Fault /\ naming' = None
    /\ UNCHANGED <<arrived, groups, wired, denied, members, rows, cp, sp, cardC, cardS, clean>>

Reject(c) ==
    /\ clickedC(c)
    /\ denied' = denied \cup {c}
    /\ cp' = [cp EXCEPT ![c] = None]
    /\ UNCHANGED <<arrived, groups, wired, members, rows, sp, cardS, naming, prompting,
                   faults, clean>>

\* Rows and cards survive; routings, requests and the name prompt do not.
HostRestarts ==
    /\ Fault
    /\ fan' = {} /\ askC' = {} /\ askS' = {} /\ naming' = None /\ prompting' = {}
    /\ UNCHANGED <<arrived, groups, wired, denied, members, got, cp, sp, cardC, cardS, clean>>

------------------------------------------------------------------------------
Init ==
    /\ arrived = {} /\ groups = Groups0 /\ wired = DOMAIN Setup /\ denied = {}
    /\ members = Members0
    /\ got = [x \in Msgs \X Agents |-> "no"]
    /\ cp = [c \in Channels |-> None]
    /\ sp = [k \in Channels \X Users |-> None]
    /\ cardC = [c \in Channels |-> 0] /\ cardS = [k \in Channels \X Users |-> 0]
    /\ askC = {} /\ askS = {} /\ fan = {}
    /\ naming = None /\ prompting = {} /\ faults = 0
    /\ clean = {}

Requests ==
    \/ \E m \in Msgs : ChannelRow(m)
    \/ \E m \in Msgs, a \in Agents : SenderRow(m, a)
    \/ OwnerUnreachable

ChannelClick(c) ==
    \/ \E a \in Agents : Connect(c, a)
    \/ ListLost(c)
    \/ NewAgent(c)
    \/ PromptReturns(c)
    \/ Reject(c)

SenderClick(k) == ApproveSender(k) \/ DenySender(k)

Next ==
    \/ \E m \in Msgs : Arrives(m)
    \/ \E r \in fan : Resumes(r)
    \/ Requests
    \/ \E c \in Channels : ChannelClick(c)
    \/ \E k \in Channels \X Users : SenderClick(k)
    \/ HostRestarts

Spec == Init /\ [][Next]_vars

------------------------------------------------------------------------------
(* Properties *)

\* Every table and every piece of memory holds what its schema or type says.
TypeOK ==
    /\ arrived \subseteq Msgs /\ groups \subseteq Agents /\ denied \subseteq Channels
    /\ wired \subseteq Channels \X Agents /\ members \subseteq Users \X Agents
    /\ got \in [Msgs \X Agents -> {"no", "context", "wake"}]
    /\ cp \in [Channels -> Msgs \cup {None}]
    /\ sp \in [Channels \X Users -> (Msgs \X Agents) \cup {None}]
    /\ askC \subseteq Msgs /\ askS \subseteq Msgs \X Agents
    /\ cardC \in [Channels -> Nat] /\ cardS \in [Channels \X Users -> Nat]
    /\ naming \in Channels \cup {None} /\ prompting \subseteq Channels
    /\ fan \subseteq [msg : Msgs, by : Agents \cup {None}, todo : SUBSET Agents]
    /\ faults \in 0..MaxFaults
    /\ clean \subseteq Msgs \X Agents

\* A message has woken an agent only if its sender may use that agent, whatever routed it:
\* the adapter, a click for this agent, or a click for another agent of the channel
\* (router.ts:283-286 with the gates of permissions/index.ts:173-210).
WokenIsAllowed ==
    \A m \in Msgs, a \in Agents :
        got[<<m, a>>] = "wake" =>
            \/ canAccessAgentGroup(From[m], a, members)
            \/ Policy[Chan[m]] = "public" /\ ~WiringOf(Chan[m], a).knownOnly

\* Requests that race past the in-flight check still leave one card, and no card
\* outlives its row: a click is never void (the keys of the two pending tables).
OneLiveCard ==
    /\ \A c \in Channels : cardC[c] <= IF cp[c] = None THEN 0 ELSE 1
    /\ \A k \in Channels \X Users : cardS[k] <= IF sp[k] = None THEN 0 ELSE 1

\* As long as no send fails, a sender's pending row can be clicked: it never mutes
\* the sender for good through the in-flight check (sender-approval.ts:57-65).
SenderRowHasCard ==
    faults = 0 => \A k \in Channels \X Users : sp[k] # None => cardS[k] = 1

Underway(m, a) == \E r \in fan : r.msg = m /\ a \in r.todo

\* A message nobody had yet reaches the agent it was approved, connected or named for.
CleanReplayArrives ==
    faults = 0 => \A x \in clean : got[x] = "wake" \/ Underway(x[1], x[2])

\* A rejected channel raises no card again, unless a request was past its checks when the
\* owner clicked (channel-approval.ts:33-36); wirings made later do not take the mark away.
Quiet(c) == /\ c \in denied /\ cp[c] = None
            /\ \A m \in askC : Chan[m] # c
DeniedStaysQuiet == [][\A c \in Channels : Quiet(c) => Quiet(c)']_vars
==============================================================================
