-------------------------- MODULE AdmissionProofs --------------------------
(***************************************************************************)
(* Proofs about Admission: an agent is woken only by senders it accepts,   *)
(* and every live card has its row.  The second needs to know that a       *)
(* channel waiting for a name keeps its row and has no card.               *)
(***************************************************************************)
EXTENDS Admission, TLAPS, WellFoundedInduction

\* A name is awaited only for a channel whose row exists and whose card is spent, so the
\* reply that deletes the row leaves no card (awaitingNameInput, permissions/index.ts:402).
NamingHasRow == naming # None => cp[naming] # None /\ cardC[naming] = 0

IInv == TypeOK /\ WokenIsAllowed /\ OneLiveCard /\ NamingHasRow

\* A set of numbers has a least one.
LEMMA LeastNatural ==
    ASSUME NEW T \in SUBSET Nat, T # {}
    PROVE  \E n \in T : \A k \in T : n <= k
<1> DEFINE Less == {ss \in Nat \X Nat : ss[1] < ss[2]}
<1>1. IsWellFoundedOn(Less, Nat)
  BY NatLessThanWellFounded DEF OpToRel
<1>2. PICK n \in T : \A k \in T : <<k, n>> \notin Less
  BY <1>1, WFMin
<1>3. ASSUME NEW k \in T, ~(n <= k) PROVE FALSE
  <2>1. n \in Nat /\ k \in Nat /\ k < n
    BY <1>3
  <2> QED
    BY <1>2, <2>1
<1> QED
  BY <1>3

USE Routes, Wirings, Bound

LEMMA InitInv == Init => IInv
<1> SUFFICES ASSUME Init PROVE IInv
  OBVIOUS
<1>1. wired \subseteq Channels \X Agents /\ members \subseteq Users \X Agents
  BY DEF Init
<1>2. TypeOK
  BY <1>1 DEF Init, TypeOK
<1> QED
  BY <1>2 DEF Init, IInv, WokenIsAllowed, OneLiveCard, NamingHasRow

\* One pass of the loop: types, and no agent woken for a sender it does not accept.
LEMMA FanOutKeeps ==
    ASSUME TypeOK, WokenIsAllowed,
           NEW m \in Msgs, NEW by \in Agents \cup {None}, NEW todo \in SUBSET Agents,
           NEW others \in SUBSET [msg : Msgs, by : Agents \cup {None}, todo : SUBSET Agents],
           members \subseteq members', FanOut(m, by, todo, others)
    PROVE  /\ got' \in [Msgs \X Agents -> {"no", "context", "wake"}]
           /\ askS' \subseteq Msgs \X Agents
           /\ fan' \subseteq [msg : Msgs, by : Agents \cup {None}, todo : SUBSET Agents]
           /\ WokenIsAllowed'
<1>1. got' \in [Msgs \X Agents -> {"no", "context", "wake"}]
  BY DEF FanOut, TypeOK
<1>2. askS' \subseteq Msgs \X Agents
  BY DEF FanOut, TypeOK
<1>3. fan' \subseteq [msg : Msgs, by : Agents \cup {None}, todo : SUBSET Agents]
  BY DEF FanOut
<1>4. ASSUME NEW n \in Msgs, NEW a \in Agents, got'[<<n, a>>] = "wake"
      PROVE  got[<<n, a>>] = "wake" \/ (n = m /\ Wakes(m, a))
  BY <1>4 DEF FanOut, TypeOK
<1>5. ASSUME NEW n \in Msgs, NEW a \in Agents, got'[<<n, a>>] = "wake"
      PROVE  \/ canAccessAgentGroup(From[n], a, members')
             \/ Policy[Chan[n]] = "public" /\ ~WiringOf(Chan[n], a).knownOnly
  BY <1>4, <1>5 DEF WokenIsAllowed, Wakes, accessGate, senderScopeGate, canAccessAgentGroup
<1>6. WokenIsAllowed'
  BY <1>5 DEF WokenIsAllowed
<1> QED
  BY <1>1, <1>2, <1>3, <1>6

\* Nothing is stored: accepted senders stay accepted.
LEMMA StillAllowed ==
    ASSUME WokenIsAllowed, members \subseteq members', got' = got
    PROVE  WokenIsAllowed'
  BY DEF WokenIsAllowed, canAccessAgentGroup

RouteTypes ==
    /\ got \in [Msgs \X Agents -> {"no", "context", "wake"}]
    /\ askC \subseteq Msgs /\ askS \subseteq Msgs \X Agents
    /\ fan \subseteq [msg : Msgs, by : Agents \cup {None}, todo : SUBSET Agents]
    /\ clean \subseteq Msgs \X Agents

LEMMA RouteKeeps ==
    ASSUME TypeOK, WokenIsAllowed, NEW m \in Msgs, NEW by \in Agents \cup {None},
           members \subseteq members', Route(m, by)
    PROVE  RouteTypes' /\ WokenIsAllowed'
<1> DEFINE agents == {a \in Agents : <<Chan[m], a>> \in wired'}
<1>1. clean' \subseteq Msgs \X Agents
  BY DEF Route, TypeOK
<1>2. CASE FanOut(m, by, agents, fan) /\ UNCHANGED askC
  <2>1. fan \in SUBSET [msg : Msgs, by : Agents \cup {None}, todo : SUBSET Agents]
        /\ agents \in SUBSET Agents
    BY DEF TypeOK
  <2>2. /\ got' \in [Msgs \X Agents -> {"no", "context", "wake"}]
        /\ askS' \subseteq Msgs \X Agents
        /\ fan' \subseteq [msg : Msgs, by : Agents \cup {None}, todo : SUBSET Agents]
        /\ WokenIsAllowed'
    BY <1>2, <2>1, FanOutKeeps
  <2> QED
    BY <1>1, <1>2, <2>2 DEF RouteTypes, TypeOK
<1>3. CASE askC' \in {askC, askC \cup {m}} /\ UNCHANGED <<got, askS, fan>>
  BY <1>1, <1>3, StillAllowed DEF RouteTypes, TypeOK
<1> QED
  BY <1>2, <1>3 DEF Route

\* routeInbound, for callers that have written w, mem and p so far.
LEMMA InboundKeeps ==
    ASSUME TypeOK, WokenIsAllowed, NEW m \in Msgs, NEW by \in Agents \cup {None},
           NEW w \in SUBSET (Channels \X Agents), NEW mem \in SUBSET (Users \X Agents),
           NEW p \in [Channels -> Msgs \cup {None}], members \subseteq mem,
           routeInbound(m, by, w, mem, p)
    PROVE  /\ RouteTypes' /\ WokenIsAllowed'
           /\ wired' \subseteq Channels \X Agents /\ members' \subseteq Users \X Agents
           /\ groups' \subseteq Agents
           /\ cp' \in [Channels -> Msgs \cup {None}]
           /\ \/ naming' = naming /\ cp' = p
              \/ naming' = None /\ naming # None
                 /\ \A c \in Channels : c # naming => cp'[c] = p[c]
<1>1. CASE ~Intercepted(m) /\ Route(m, by) /\ wired' = w /\ members' = mem /\ cp' = p
           /\ UNCHANGED <<naming, groups>>
  <2>1. RouteTypes' /\ WokenIsAllowed'
    BY <1>1, RouteKeeps
  <2> QED
    BY <1>1, <2>1 DEF TypeOK
<1>2. CASE Intercepted(m) /\ wired' = w /\ members' = mem /\ cp' = p /\ naming' = None
           /\ UNCHANGED <<groups, rows, clean>>
  <2>1. RouteTypes' /\ WokenIsAllowed'
    BY <1>2, StillAllowed DEF rows, RouteTypes, TypeOK
  <2> QED
    BY <1>2, <2>1 DEF TypeOK, Intercepted
<1>3. ASSUME NEW a \in Agents, Intercepted(m), p[naming] # None,
             groups' = groups \cup {a}, wired' = w \cup {<<naming, a>>},
             members' = mem \cup {<<From[p[naming]], a>>},
             cp' = [p EXCEPT ![naming] = None], naming' = None, Route(p[naming], a)
      PROVE  /\ RouteTypes' /\ WokenIsAllowed'
             /\ wired' \subseteq Channels \X Agents /\ members' \subseteq Users \X Agents
             /\ groups' \subseteq Agents
             /\ cp' \in [Channels -> Msgs \cup {None}]
             /\ naming' = None /\ naming # None
             /\ \A c \in Channels : c # naming => cp'[c] = p[c]
  <2>1. naming \in Channels /\ p[naming] \in Msgs
    BY <1>3 DEF TypeOK, Intercepted
  <2>2. RouteTypes' /\ WokenIsAllowed'
    BY <1>3, <2>1, RouteKeeps
  <2> QED
    BY <1>3, <2>1, <2>2 DEF TypeOK
<1> QED
  BY <1>1, <1>2, <1>3 DEF routeInbound

LEMMA ArrivesInv == ASSUME IInv, NEW m \in Msgs, Arrives(m) PROVE IInv'
<1> USE DEF IInv
<1>1. routeInbound(m, None, wired, members, cp)
  BY DEF Arrives
<1>2. /\ RouteTypes' /\ WokenIsAllowed'
      /\ wired' \subseteq Channels \X Agents /\ members' \subseteq Users \X Agents
      /\ groups' \subseteq Agents
      /\ cp' \in [Channels -> Msgs \cup {None}]
      /\ \/ naming' = naming /\ cp' = cp
         \/ naming' = None /\ naming # None
            /\ \A c \in Channels : c # naming => cp'[c] = cp[c]
  BY <1>1, InboundKeeps DEF TypeOK
<1>3. TypeOK'
  BY <1>2 DEF Arrives, TypeOK, RouteTypes
<1>4. OneLiveCard' /\ NamingHasRow'
  BY <1>2 DEF Arrives, TypeOK, OneLiveCard, NamingHasRow
<1> QED
  BY <1>2, <1>3, <1>4

LEMMA ResumesInv == ASSUME IInv, NEW r \in fan, Resumes(r) PROVE IInv'
<1> USE DEF IInv
<1>1. r \in [msg : Msgs, by : Agents \cup {None}, todo : SUBSET Agents]
  BY DEF TypeOK
<1>2. /\ got' \in [Msgs \X Agents -> {"no", "context", "wake"}]
      /\ askS' \subseteq Msgs \X Agents
      /\ fan' \subseteq [msg : Msgs, by : Agents \cup {None}, todo : SUBSET Agents]
      /\ WokenIsAllowed'
  <2>1. fan \ {r} \in SUBSET [msg : Msgs, by : Agents \cup {None}, todo : SUBSET Agents]
    BY DEF TypeOK
  <2>2. members \subseteq members' /\ FanOut(r.msg, r.by, r.todo, fan \ {r})
    BY DEF Resumes
  <2> QED
    BY <1>1, <2>1, <2>2, FanOutKeeps
<1>3. TypeOK'
  BY <1>2 DEF Resumes, TypeOK
<1> QED
  BY <1>2, <1>3 DEF Resumes, OneLiveCard, NamingHasRow

LEMMA RequestsInv == ASSUME IInv, Requests PROVE IInv'
<1> USE DEF IInv
<1>1. WokenIsAllowed'
  <2>1. UNCHANGED <<got, members>>
    BY DEF Requests, ChannelRow, SenderRow, OwnerUnreachable, idle
  <2> QED
    BY <2>1, StillAllowed
<1>2. ASSUME NEW m \in Msgs, ChannelRow(m) PROVE IInv'
  <2>a. Chan[m] \in Channels /\ askC' \subseteq Msgs /\ faults' \in 0..MaxFaults
    BY <1>2 DEF ChannelRow, TypeOK, Fault
  <2>c. /\ cp' = IF cp[Chan[m]] = None THEN [cp EXCEPT ![Chan[m]] = m] ELSE cp
        /\ cardC' \in {cardC, [cardC EXCEPT ![Chan[m]] = @ + 1]}
    BY <1>2 DEF ChannelRow
  <2>b. cp' \in [Channels -> Msgs \cup {None}] /\ cardC' \in [Channels -> Nat]
    BY <2>a, <2>c DEF TypeOK
  <2>1. TypeOK'
    BY <1>2, <2>a, <2>b DEF ChannelRow, TypeOK, idle
  <2>2. OneLiveCard'
    BY <1>2 DEF ChannelRow, TypeOK, OneLiveCard, idle
  <2>3. NamingHasRow'
    BY <1>2 DEF ChannelRow, TypeOK, NamingHasRow, idle
  <2> QED
    BY <1>1, <2>1, <2>2, <2>3
<1>3. ASSUME NEW m \in Msgs, NEW a \in Agents, SenderRow(m, a) PROVE IInv'
  <2> DEFINE k == <<Chan[m], From[m]>>
  <2>a. k \in Channels \X Users /\ <<m, a>> \in Msgs \X Agents
    OBVIOUS
  <2>b. askS' \subseteq Msgs \X Agents /\ faults' \in 0..MaxFaults
    BY <1>3 DEF SenderRow, TypeOK, Fault
  <2>c. /\ sp' = IF sp[k] = None THEN [sp EXCEPT ![k] = <<m, a>>] ELSE sp
        /\ cardS' \in {cardS, [cardS EXCEPT ![k] = @ + 1]}
        /\ sp[k] # None => cardS' = cardS
    BY <1>3 DEF SenderRow
  <2> HIDE DEF k
  <2>d. /\ sp' \in [Channels \X Users -> (Msgs \X Agents) \cup {None}]
        /\ cardS' \in [Channels \X Users -> Nat]
    BY <2>a, <2>c DEF TypeOK
  <2>1. TypeOK'
    BY <1>3, <2>b, <2>d DEF SenderRow, TypeOK, idle
  <2>2. OneLiveCard'
    <3>1. ASSUME NEW j \in Channels \X Users
          PROVE  cardS'[j] <= IF sp'[j] = None THEN 0 ELSE 1
      <4>1. <<m, a>> # None
        BY <2>a
      <4>2. CASE j = k /\ sp[k] = None
        BY <2>a, <2>c, <4>1, <4>2 DEF TypeOK, OneLiveCard
      <4>3. CASE j # k \/ sp[k] # None
        BY <2>a, <2>c, <4>3 DEF TypeOK, OneLiveCard
      <4> QED
        BY <4>2, <4>3
    <3> QED
      BY <1>3, <3>1 DEF SenderRow, OneLiveCard, idle
  <2>3. NamingHasRow'
    BY <1>3 DEF SenderRow, NamingHasRow, idle
  <2> QED
    BY <1>1, <2>1, <2>2, <2>3
<1>4. CASE OwnerUnreachable
  <2>1. TypeOK'
    BY <1>4 DEF OwnerUnreachable, TypeOK, idle, Fault
  <2> QED
    BY <1>1, <1>4, <2>1 DEF OwnerUnreachable, OneLiveCard, NamingHasRow, idle
<1> QED
  BY <1>2, <1>3, <1>4 DEF Requests

LEMMA ConnectInv == ASSUME IInv, NEW c \in Channels, NEW a \in Agents, Connect(c, a) PROVE IInv'
<1> USE DEF IInv
<1>1. cp[c] \in Msgs /\ cardC[c] = 1 /\ naming # c
      /\ cardC' \in [Channels -> Nat] /\ cardC' = [cardC EXCEPT ![c] = 0]
  <2>1. cardC[c] > 0 /\ cp[c] # None /\ cardC' = [cardC EXCEPT ![c] = @ - 1]
    BY DEF Connect, clickedC
  <2>2. cp[c] \in Msgs /\ cardC \in [Channels -> Nat]
    BY <2>1 DEF TypeOK
  <2>3. cardC[c] = 1
    BY <2>1, <2>2 DEF OneLiveCard
  <2>4. naming # c
    BY <2>1, <2>3 DEF NamingHasRow
  <2> QED
    BY <2>1, <2>2, <2>3, <2>4
<1>2. CASE <<c, a>> \in wired
  <2>1. WokenIsAllowed'
    BY <1>2, StillAllowed DEF Connect, rows
  <2>2. TypeOK'
    BY <1>1, <1>2 DEF Connect, TypeOK, rows
  <2>3. OneLiveCard' /\ NamingHasRow'
    BY <1>1, <1>2 DEF Connect, TypeOK, OneLiveCard, NamingHasRow
  <2> QED
    BY <2>1, <2>2, <2>3
<1>3. CASE <<c, a>> \notin wired
  <2> DEFINE p == [cp EXCEPT ![c] = None]
             w == wired \cup {<<c, a>>}
             mem == members \cup {<<From[cp[c]], a>>}
  <2>1. routeInbound(cp[c], a, w, mem, p)
    BY <1>3 DEF Connect
  <2>2. /\ w \in SUBSET (Channels \X Agents) /\ mem \in SUBSET (Users \X Agents)
        /\ p \in [Channels -> Msgs \cup {None}] /\ members \subseteq mem
    BY <1>1 DEF TypeOK
  <2>3. p[c] = None /\ \A d \in Channels : d # c => p[d] = cp[d]
    BY DEF TypeOK
  <2> HIDE DEF p, w, mem
  <2>4. /\ RouteTypes' /\ WokenIsAllowed'
        /\ wired' \subseteq Channels \X Agents /\ members' \subseteq Users \X Agents
        /\ groups' \subseteq Agents
        /\ cp' \in [Channels -> Msgs \cup {None}]
        /\ \/ naming' = naming /\ cp' = p
           \/ naming' = None /\ naming # None
              /\ \A d \in Channels : d # naming => cp'[d] = p[d]
    <3>1. PICK m \in Msgs : m = cp[c]
      BY <1>1
    <3>2. routeInbound(m, a, w, mem, p)
      BY <2>1, <3>1
    <3>3. a \in Agents \cup {None} /\ TypeOK /\ WokenIsAllowed
      OBVIOUS
    <3> QED
      BY ONLY <2>2, <3>2, <3>3, InboundKeeps
  <2>5. TypeOK'
    BY <1>1, <2>4 DEF Connect, TypeOK, RouteTypes
  <2>6. \A d \in Channels : cardC'[d] <= IF cp'[d] = None THEN 0 ELSE 1
    <3>1. cardC'[c] = 0 /\ \A d \in Channels : d # c => cardC'[d] = cardC[d]
      BY <1>1 DEF TypeOK
    <3>2. naming # None => cardC[naming] = 0 /\ naming \in Channels
      BY DEF NamingHasRow, TypeOK
    <3> SUFFICES ASSUME NEW d \in Channels
                 PROVE  cardC'[d] <= IF cp'[d] = None THEN 0 ELSE 1
      OBVIOUS
    <3>3. cardC[d] <= IF cp[d] = None THEN 0 ELSE 1
      BY DEF OneLiveCard
    <3>4. CASE d = c
      BY <3>1, <3>4
    <3>5. CASE d # c /\ cp' = p
      BY <2>3, <3>1, <3>3, <3>5
    <3>6. CASE d # c /\ naming # None /\ \A e \in Channels : e # naming => cp'[e] = p[e]
      BY <2>3, <3>1, <3>2, <3>3, <3>6
    <3> QED
      BY <2>4, <3>4, <3>5, <3>6
  <2>7. OneLiveCard'
    BY <2>6 DEF Connect, OneLiveCard
  <2>8. NamingHasRow'
    <3> SUFFICES ASSUME naming' # None PROVE cp'[naming'] # None /\ cardC'[naming'] = 0
      BY DEF NamingHasRow
    <3>1. naming' = naming /\ cp' = p
      BY <2>4
    <3>2. naming \in Channels /\ naming # c /\ cp[naming] # None /\ cardC[naming] = 0
      BY <1>1, <3>1 DEF TypeOK, NamingHasRow
    <3> QED
      BY <1>1, <2>3, <3>1, <3>2 DEF TypeOK
  <2> QED
    BY <2>4, <2>5, <2>7, <2>8
<1> QED
  BY <1>2, <1>3

LEMMA ChannelClickInv == ASSUME IInv, NEW c \in Channels, ChannelClick(c) PROVE IInv'
<1> USE DEF IInv
<1>1. ASSUME NEW a \in Agents, Connect(c, a) PROVE IInv'
  BY <1>1, ConnectInv
<1>2. CASE ListLost(c)
  <2>1. WokenIsAllowed'
    BY <1>2, StillAllowed DEF ListLost, idle
  <2>2. TypeOK'
    BY <1>2 DEF ListLost, clickedC, TypeOK, OneLiveCard, idle, Fault
  <2> QED
    BY <1>2, <2>1, <2>2 DEF ListLost, clickedC, TypeOK, OneLiveCard, NamingHasRow, idle
<1>3. CASE NewAgent(c)
  <2>1. WokenIsAllowed'
    BY <1>3, StillAllowed DEF NewAgent, rows
  <2>2. TypeOK'
    BY <1>3 DEF NewAgent, clickedC, TypeOK, OneLiveCard, rows
  <2> QED
    BY <1>3, <2>1, <2>2 DEF NewAgent, clickedC, TypeOK, OneLiveCard, NamingHasRow
<1>4. CASE PromptReturns(c)
  <2>1. WokenIsAllowed'
    BY <1>4, StillAllowed DEF PromptReturns, rows
  <2>2. TypeOK'
    BY <1>4 DEF PromptReturns, TypeOK, rows, Fault
  <2> QED
    BY <1>4, <2>1, <2>2 DEF PromptReturns, OneLiveCard, NamingHasRow
<1>5. CASE Reject(c)
  <2>1. WokenIsAllowed'
    BY <1>5, StillAllowed DEF Reject, rows
  <2>2. TypeOK'
    BY <1>5 DEF Reject, clickedC, TypeOK, OneLiveCard, rows
  <2> QED
    BY <1>5, <2>1, <2>2 DEF Reject, clickedC, TypeOK, OneLiveCard, NamingHasRow
<1> QED
  BY <1>1, <1>2, <1>3, <1>4, <1>5 DEF ChannelClick

LEMMA SenderClickInv ==
    ASSUME IInv, NEW k \in Channels \X Users, SenderClick(k) PROVE IInv'
<1> USE DEF IInv
<1>1. /\ sp[k] \in Msgs \X Agents
      /\ cardS' = [cardS EXCEPT ![k] = 0] /\ cardS' \in [Channels \X Users -> Nat]
  <2>1. cardS[k] > 0 /\ sp[k] # None /\ cardS' = [cardS EXCEPT ![k] = @ - 1]
    BY DEF SenderClick, ApproveSender, DenySender, clickedS
  <2>2. sp[k] \in Msgs \X Agents /\ cardS \in [Channels \X Users -> Nat]
    BY <2>1 DEF TypeOK
  <2>3. cardS[k] = 1
    BY <2>1, <2>2 DEF OneLiveCard
  <2> QED
    BY <2>1, <2>2, <2>3
<1>2. /\ sp' = [sp EXCEPT ![k] = None]
      /\ sp' \in [Channels \X Users -> (Msgs \X Agents) \cup {None}]
  BY DEF SenderClick, ApproveSender, DenySender, TypeOK
<1>3. \A j \in Channels \X Users : cardS'[j] <= IF sp'[j] = None THEN 0 ELSE 1
  BY <1>1, <1>2 DEF TypeOK, OneLiveCard
<1>4. CASE ApproveSender(k)
  <2> DEFINE mem == members \cup {<<k[2], sp[k][2]>>}
  <2>1. routeInbound(sp[k][1], sp[k][2], wired, mem, cp)
    BY <1>4 DEF ApproveSender
  <2>2. mem \in SUBSET (Users \X Agents) /\ members \subseteq mem
        /\ sp[k][1] \in Msgs /\ sp[k][2] \in Agents
    BY <1>1 DEF TypeOK
  <2> HIDE DEF mem
  <2>3. /\ RouteTypes' /\ WokenIsAllowed'
        /\ wired' \subseteq Channels \X Agents /\ members' \subseteq Users \X Agents
        /\ groups' \subseteq Agents
        /\ cp' \in [Channels -> Msgs \cup {None}]
        /\ \/ naming' = naming /\ cp' = cp
           \/ naming' = None /\ naming # None
              /\ \A c \in Channels : c # naming => cp'[c] = cp[c]
    BY <2>1, <2>2, InboundKeeps DEF TypeOK
  <2>4. TypeOK'
    BY <1>1, <1>2, <1>4, <2>3 DEF ApproveSender, TypeOK, RouteTypes
  <2>5. OneLiveCard' /\ NamingHasRow'
    BY <1>3, <1>4, <2>3 DEF ApproveSender, TypeOK, OneLiveCard, NamingHasRow
  <2> QED
    BY <2>3, <2>4, <2>5
<1>5. CASE DenySender(k)
  <2>1. WokenIsAllowed'
    BY <1>5, StillAllowed DEF DenySender, idle
  <2>2. TypeOK'
    BY <1>1, <1>2, <1>5 DEF DenySender, TypeOK, idle
  <2> QED
    BY <1>3, <1>5, <2>1, <2>2 DEF DenySender, OneLiveCard, NamingHasRow, idle
<1> QED
  BY <1>4, <1>5 DEF SenderClick

LEMMA StepInv == IInv /\ [Next]_vars => IInv'
<1> SUFFICES ASSUME IInv, [Next]_vars PROVE IInv'
  OBVIOUS
<1>1. CASE UNCHANGED vars
  BY <1>1 DEF vars, IInv, TypeOK, WokenIsAllowed, OneLiveCard, NamingHasRow, canAccessAgentGroup
<1>2. CASE HostRestarts
  <2>1. WokenIsAllowed'
    BY <1>2, StillAllowed DEF HostRestarts, IInv
  <2> QED
    BY <1>2, <2>1 DEF HostRestarts, IInv, TypeOK, OneLiveCard, NamingHasRow, Fault
<1> QED
  BY <1>1, <1>2, ArrivesInv, ResumesInv, RequestsInv, ChannelClickInv, SenderClickInv DEF Next

\* Whatever clicks, replays, restarts and requests interleave, an agent is only ever woken
\* for a sender it accepts (permissions/index.ts:173-210, router.ts:283-286).
THEOREM Admitted == Spec => [](TypeOK /\ WokenIsAllowed)
<1>1. IInv => TypeOK /\ WokenIsAllowed
  BY DEF IInv
<1> QED
  BY <1>1, InitInv, StepInv, PTL DEF Spec

\* Whatever requests race, a pending row has at most one live card and a card a row.
THEOREM ClickIsNeverVoid == Spec => []OneLiveCard
<1>1. IInv => OneLiveCard
  BY DEF IInv
<1> QED
  BY <1>1, InitInv, StepInv, PTL DEF Spec

------------------------------------------------------------------------------
(* A replay comes through.  A click on a sender's card, a connection or a  *)
(* name routes a stored message again; if no agent has it yet, the agent   *)
(* the click was for gets it, whatever routes the same message meanwhile.  *)

\* The gates that an approval does not clear are clear, now and later.
Engages(m, a) == <<Chan[m], a>> \in wired /\ evaluateEngage(m, a)
Admits(m, a) == Engages(m, a) /\ <<From[m], a>> \in members

\* What is stored for a replay passed the check it was stored for, and is of its key.
StoredIsDue ==
    /\ DOMAIN Setup \subseteq wired /\ Groups0 \subseteq groups /\ askC \subseteq Mentions
    /\ \A c \in Channels : cp[c] # None => cp[c] \in Mentions /\ Chan[cp[c]] = c
    /\ \A x \in askS : Engages(x[1], x[2])
    /\ \A k \in Channels \X Users, m \in Msgs, a \in Agents :
          sp[k] = <<m, a>> => k = <<Chan[m], From[m]>> /\ Engages(m, a)

\* A routing that waits in its loop has given the message to some agent.
LoopsAreUnderway ==
    \A r \in fan : /\ \A a \in r.todo : <<Chan[r.msg], a>> \in wired
                   /\ \E a \in Agents : got[<<r.msg, a>>] # "no"

\* Every agent that has the message comes before every agent the routing has left.
Ahead(r) == \A b \in Agents, a \in r.todo : got[<<r.msg, b>>] # "no" => Rank[b] < Rank[a]

\* One routing is ahead of all others of its message, so it meets no row of it; and none passes
\* the agent by, since that agent takes the message whenever its turn comes.
Leads(m, a) == \E r \in fan : r.msg = m /\ a \in r.todo /\ Ahead(r)
Misses(m, a) == \E r \in fan : r.msg = m /\ a \notin r.todo
Replayed(x) ==
    /\ Admits(x[1], x[2]) /\ got[x] # "context"
    /\ got[x] = "wake" \/ ~Misses(x[1], x[2])
    /\ faults = 0 => got[x] = "wake" \/ Leads(x[1], x[2])
ReplaysComeThrough == \A x \in clean : Replayed(x)

ReplayInv == StoredIsDue /\ LoopsAreUnderway /\ ReplaysComeThrough

\* The order of the agents has a first in every set of them.
LEMMA FirstAgent ==
    ASSUME NEW S \in SUBSET Agents, S # {}
    PROVE  \E b \in S : \A a \in S : Rank[b] <= Rank[a]
<1> DEFINE R == {Rank[a] : a \in S}
<1>1. R \in SUBSET Nat /\ R # {}
  OBVIOUS
<1>2. PICK n \in R : \A k \in R : n <= k
  BY ONLY <1>1, LeastNatural
<1> QED
  BY <1>2

\* Rows stay.
LEMMA FanOutStores ==
    ASSUME TypeOK, NEW m \in Msgs, NEW by, NEW todo \in SUBSET Agents, NEW others,
           FanOut(m, by, todo, others)
    PROVE  /\ \A x \in Msgs \X Agents : got[x] # "no" => got'[x] = got[x]
           /\ \A x \in Msgs \X Agents : x[1] # m => got'[x] = got[x]
  BY DEF FanOut, TypeOK

\* A session stays too, so an agent that was addressed remains so.
LEMMA EngageStays ==
    ASSUME \A x \in Msgs \X Agents : got[x] # "no" => got'[x] = got[x],
           NEW m \in Msgs, NEW a \in Agents, evaluateEngage(m, a)
    PROVE  evaluateEngage(m, a)'
<1>1. HasSession(Chan[m], a) => HasSession(Chan[m], a)'
  BY DEF HasSession
<1> QED
  BY <1>1 DEF evaluateEngage

\* If some agent takes the message, a first one does, and the others after it are left; unless
\* that one has the message already.
LEMMA FanOutTakes ==
    ASSUME TypeOK, NEW m \in Msgs, NEW by, NEW todo \in SUBSET Agents, NEW others,
           FanOut(m, by, todo, others), NEW x \in todo, Wakes(m, x)
    PROVE  \E b \in todo :
             /\ Rank[b] <= Rank[x] /\ (b = x \/ Rank[b] < Rank[x])
             /\ \A a \in Agents : a # b => got'[<<m, a>>] = got[<<m, a>>]
             /\ got[<<m, b>>] = "no" => got'[<<m, b>>] \in {"wake", "context"}
             /\ b = x /\ got[<<m, b>>] = "no" => got'[<<m, b>>] = "wake"
             /\ b # x /\ got[<<m, b>>] = "no" =>
                  [msg |-> m, by |-> by, todo |-> {a \in todo : Rank[b] < Rank[a]}] \in fan'
<1> DEFINE takers == {a \in todo : Wakes(m, a) \/ Keeps(m, a)}
           next   == {a \in takers : \A b \in takers : Rank[a] <= Rank[b]}
           left   == {a \in todo : \E b \in next : Rank[b] < Rank[a]}
<1>1. PICK b \in takers : \A a \in takers : Rank[b] <= Rank[a]
  <2>1. takers \in SUBSET Agents /\ takers # {}
    OBVIOUS
  <2> QED BY ONLY <2>1, FirstAgent
<1>2. next = {b}
  BY <1>1
<1>3. left = {a \in todo : Rank[b] < Rank[a]}
  BY <1>2
<1>4. \A y \in Msgs \X Agents :
         got'[y] = IF y[1] = m /\ y[2] \in next /\ got[y] = "no"
                   THEN IF Wakes(m, y[2]) THEN "wake" ELSE "context"
                   ELSE got[y]
  BY DEF FanOut
<1>5. fan' = others \cup IF (\E a \in next : got[<<m, a>>] # "no") \/ left = {}
                         THEN {} ELSE {[msg |-> m, by |-> by, todo |-> left]}
  BY DEF FanOut
<1> HIDE DEF takers, next, left
<1>6. Rank[b] <= Rank[x] /\ (b = x \/ Rank[b] < Rank[x]) /\ b \in todo
  BY <1>1 DEF takers
<1>7. /\ \A a \in Agents : a # b => got'[<<m, a>>] = got[<<m, a>>]
      /\ got[<<m, b>>] = "no" => got'[<<m, b>>] = IF Wakes(m, b) THEN "wake" ELSE "context"
  BY <1>2, <1>4, <1>6
<1>8. ASSUME b # x, got[<<m, b>>] = "no"
      PROVE  [msg |-> m, by |-> by, todo |-> {a \in todo : Rank[b] < Rank[a]}] \in fan'
  BY <1>2, <1>3, <1>5, <1>6, <1>8
<1> QED
  BY <1>6, <1>7, <1>8

\* An agent that is woken gets no row without trigger.
LEMMA FanOutWakes ==
    ASSUME TypeOK, NEW m \in Msgs, NEW by, NEW todo \in SUBSET Agents, NEW others,
           FanOut(m, by, todo, others), NEW x \in todo, Wakes(m, x), got[<<m, x>>] = "no"
    PROVE  got'[<<m, x>>] \in {"no", "wake"}
  BY DEF FanOut

\* A routing in the loop is an earlier one, or this one behind an agent that has the message.
LEMMA FanOutLeaves ==
    ASSUME TypeOK, NEW m \in Msgs, NEW by, NEW todo \in SUBSET Agents, NEW others,
           FanOut(m, by, todo, others), NEW r \in fan', r \notin others
    PROVE  /\ r.msg = m /\ r.todo \subseteq todo
           /\ \E b \in Agents : got'[<<m, b>>] # "no"
           /\ \A x \in todo : Wakes(m, x) => x \in r.todo \/ got'[<<m, x>>] = "wake"
<1> DEFINE takers == {a \in todo : Wakes(m, a) \/ Keeps(m, a)}
           next   == {a \in takers : \A b \in takers : Rank[a] <= Rank[b]}
           left   == {a \in todo : \E b \in next : Rank[b] < Rank[a]}
<1>1. /\ r = [msg |-> m, by |-> by, todo |-> left]
      /\ left # {} /\ \A a \in next : got[<<m, a>>] = "no"
      /\ \A y \in Msgs \X Agents :
            got'[y] = IF y[1] = m /\ y[2] \in next /\ got[y] = "no"
                      THEN IF Wakes(m, y[2]) THEN "wake" ELSE "context"
                      ELSE got[y]
  BY DEF FanOut
<1>2. PICK b \in next : TRUE
  BY <1>1
<1>3. got'[<<m, b>>] # "no"
  BY <1>1, <1>2
<1>4. ASSUME NEW x \in todo, Wakes(m, x) PROVE x \in left \/ got'[<<m, x>>] = "wake"
  <2>1. x \in takers /\ b \in takers /\ Rank[b] <= Rank[x]
    BY <1>2, <1>4
  <2>2. CASE b = x
    BY <1>1, <1>2, <1>4, <2>2
  <2>3. CASE b # x
    BY <1>2, <1>4, <2>1, <2>3
  <2> QED BY <2>2, <2>3
<1> QED
  BY <1>1, <1>2, <1>3, <1>4

\* Whoever is asked about was addressed.
LEMMA FanOutAsks ==
    ASSUME NEW m \in Msgs, NEW by, NEW todo \in SUBSET Agents, NEW others,
           FanOut(m, by, todo, others), NEW y \in askS', y \notin askS
    PROVE  \E a \in todo : y = <<m, a>> /\ evaluateEngage(m, a)
  BY DEF FanOut, AsksFor

\* An agent that is due and in the loop gets the message, or stays in the routing that leads.
LEMMA LeadStays ==
    ASSUME TypeOK, NEW m \in Msgs, NEW by, NEW todo \in SUBSET Agents, NEW others \in SUBSET fan,
           FanOut(m, by, todo, others), others \subseteq fan',
           NEW x \in todo, Wakes(m, x), got[<<m, x>>] = "no",
           \/ \A a \in Agents : got[<<m, a>>] = "no"
           \/ \E r \in fan : /\ r.msg = m /\ x \in r.todo /\ Ahead(r)
                             /\ r \in others \/ r.todo = todo
    PROVE  got'[<<m, x>>] = "wake" \/ Leads(m, x)'
<1>1. PICK b \in todo :
        /\ Rank[b] <= Rank[x] /\ (b = x \/ Rank[b] < Rank[x])
        /\ \A a \in Agents : a # b => got'[<<m, a>>] = got[<<m, a>>]
        /\ got[<<m, b>>] = "no" => got'[<<m, b>>] \in {"wake", "context"}
        /\ b = x /\ got[<<m, b>>] = "no" => got'[<<m, b>>] = "wake"
        /\ b # x /\ got[<<m, b>>] = "no" =>
             [msg |-> m, by |-> by, todo |-> {a \in todo : Rank[b] < Rank[a]}] \in fan'
  BY FanOutTakes
<1> DEFINE q == [msg |-> m, by |-> by, todo |-> {a \in todo : Rank[b] < Rank[a]}]
<1>2. \A a \in Agents : Rank[a] \in Nat
  OBVIOUS
<1>3. CASE b = x
  BY <1>1, <1>3
<1>4. ASSUME b # x, got[<<m, b>>] = "no",
             \A a \in Agents, c \in todo : got[<<m, a>>] # "no" /\ Rank[b] < Rank[c] => Rank[a] < Rank[c]
      PROVE  Leads(m, x)'
  <2>1. q \in fan' /\ q.msg = m /\ x \in q.todo
    BY <1>1, <1>4
  <2>2. ASSUME NEW a \in Agents, NEW c \in q.todo, got'[<<m, a>>] # "no" PROVE Rank[a] < Rank[c]
    <3>1. CASE a = b
      BY <2>2, <3>1
    <3>2. CASE a # b
      BY <1>1, <1>4, <2>2, <3>2
    <3> QED BY <3>1, <3>2
  <2>3. Ahead(q)'
    BY <2>2 DEF Ahead
  <2> QED BY <2>1, <2>3 DEF Leads
<1>5. CASE b # x /\ \A a \in Agents : got[<<m, a>>] = "no"
  BY <1>4, <1>5
<1>6. ASSUME b # x, NEW r \in fan, r.msg = m, x \in r.todo, Ahead(r), r \in others \/ r.todo = todo
      PROVE  Leads(m, x)'
  <2>0. r.todo \subseteq Agents
    BY DEF TypeOK
  <2>1. \A a \in Agents, c \in r.todo : got[<<m, a>>] # "no" => Rank[a] < Rank[c]
    BY <1>6 DEF Ahead
  <2>2. CASE r.todo = todo
    <3>1. got[<<m, b>>] = "no"
      BY <1>2, <2>1, <2>2
    <3> QED BY <1>4, <1>6, <2>1, <2>2, <3>1
  <2>3. CASE r \in others /\ \A c \in r.todo : Rank[b] < Rank[c]
    <3>1. \A a \in Agents, c \in r.todo : got'[<<m, a>>] # "no" => Rank[a] < Rank[c]
      BY <1>1, <2>1, <2>3
    <3>2. Ahead(r)'
      BY <1>6, <3>1 DEF Ahead
    <3> QED BY <1>6, <2>3, <3>2 DEF Leads
  <2>4. ASSUME NEW d \in r.todo, ~(Rank[b] < Rank[d]) PROVE Leads(m, x)'
    <3>1. Rank[d] <= Rank[b]
      BY <1>2, <2>0, <2>4
    <3>2. got[<<m, b>>] = "no"
      BY <1>2, <2>0, <2>1, <2>4
    <3>3. ASSUME NEW a \in Agents, NEW c \in todo, got[<<m, a>>] # "no", Rank[b] < Rank[c]
          PROVE  Rank[a] < Rank[c]
      <4>1. Rank[a] < Rank[d] /\ d \in Agents
        BY <2>0, <2>1, <3>3
      <4> QED BY <1>2, <3>1, <3>3, <4>1
    <3> QED BY <1>4, <1>6, <3>2, <3>3
  <2> QED BY <1>6, <2>2, <2>3, <2>4
<1> QED
  BY <1>3, <1>5, <1>6

\* A turn of the loop that keeps all other routings disturbs no replay.
LEMMA LoopReplays ==
    ASSUME TypeOK, LoopsAreUnderway, ReplaysComeThrough,
           NEW m \in Msgs, NEW by, NEW todo \in SUBSET Agents, NEW others \in SUBSET fan,
           FanOut(m, by, todo, others),
           \A r \in fan : r \in others \/ (r.msg = m /\ r.todo = todo),
           wired \subseteq wired', members \subseteq members', faults' = faults,
           \A a \in todo : <<Chan[m], a>> \in wired',
           \A x \in clean : x[1] = m => x[2] \in todo \/ got[x] = "wake"
    PROVE  /\ LoopsAreUnderway'
           /\ \A x \in clean : Replayed(x)'
<1>1. /\ \A x \in Msgs \X Agents : got[x] # "no" => got'[x] = got[x]
      /\ \A x \in Msgs \X Agents : x[1] # m => got'[x] = got[x]
  BY FanOutStores
<1>2. others \subseteq fan'
  BY DEF FanOut
<1>3. \A r \in fan : r \in [msg : Msgs, by : Agents \cup {None}, todo : SUBSET Agents]
  BY DEF TypeOK
<1>4. ASSUME NEW r \in fan', r \notin others
      PROVE  /\ r.msg = m /\ r.todo \subseteq todo
             /\ \E b \in Agents : got'[<<m, b>>] # "no"
             /\ \A x \in todo : Wakes(m, x) => x \in r.todo \/ got'[<<m, x>>] = "wake"
  <2>1. r.msg = m /\ r.todo \subseteq todo
    BY <1>4, FanOutLeaves
  <2>2. \E b \in Agents : got'[<<m, b>>] # "no"
    BY <1>4, FanOutLeaves
  <2>3. \A x \in todo : Wakes(m, x) => x \in r.todo \/ got'[<<m, x>>] = "wake"
    BY <1>4, FanOutLeaves
  <2> QED BY <2>1, <2>2, <2>3
<1>5. LoopsAreUnderway'
  <2> SUFFICES ASSUME NEW r \in fan'
               PROVE  /\ \A a \in r.todo : <<Chan[r.msg], a>> \in wired'
                      /\ \E a \in Agents : got'[<<r.msg, a>>] # "no"
    BY DEF LoopsAreUnderway
  <2>1. CASE r \in others
    <3>1. PICK a \in Agents : got[<<r.msg, a>>] # "no"
      BY <2>1 DEF LoopsAreUnderway
    <3>2. <<r.msg, a>> \in Msgs \X Agents
      BY <1>3, <2>1
    <3>3. got'[<<r.msg, a>>] # "no"
      BY <1>1, <3>1, <3>2
    <3> QED BY <2>1, <3>3 DEF LoopsAreUnderway
  <2>2. CASE r \notin others
    BY <1>4, <2>2
  <2> QED BY <2>1, <2>2
<1>6. ASSUME NEW x \in clean PROVE Replayed(x)'
  <2>1. /\ x \in Msgs \X Agents /\ x[1] \in Msgs /\ x[2] \in Agents /\ x = <<x[1], x[2]>>
        /\ got[x] \in {"no", "context", "wake"}
    BY DEF TypeOK
  <2>2. /\ Admits(x[1], x[2]) /\ got[x] # "context" /\ (got[x] = "wake" \/ ~Misses(x[1], x[2]))
        /\ faults = 0 => got[x] = "wake" \/ Leads(x[1], x[2])
    BY DEF ReplaysComeThrough, Replayed
  <2>3. Admits(x[1], x[2])'
    BY <1>1, <2>1, <2>2, EngageStays DEF Admits, Engages
  <2>4. CASE got[x] = "wake"
    <3>1. got'[x] = "wake"
      BY <1>1, <2>1, <2>4
    <3> QED BY <2>3, <3>1 DEF Replayed
  <2>5. CASE got[x] = "no" /\ x[1] # m
    <3>1. got'[x] = "no"
      BY <1>1, <2>1, <2>5
    <3>2. ~Misses(x[1], x[2])'
      <4> SUFFICES ASSUME NEW r \in fan', r.msg = x[1] PROVE x[2] \in r.todo
        BY DEF Misses
      <4>1. r \in others
        BY <1>4, <2>5
      <4> QED BY <2>2, <2>5, <4>1 DEF Misses
    <3>3. ASSUME faults = 0 PROVE Leads(x[1], x[2])'
      <4>1. PICK r \in fan : r.msg = x[1] /\ x[2] \in r.todo /\ Ahead(r)
        BY <2>2, <2>5, <3>3 DEF Leads
      <4>2. r \in fan' /\ r.todo \subseteq Agents
        BY <1>2, <1>3, <2>5, <4>1
      <4>3. \A a \in Agents : got'[<<r.msg, a>>] = got[<<r.msg, a>>]
        BY <1>1, <2>1, <2>5, <4>1
      <4>4. Ahead(r)'
        BY <4>1, <4>3 DEF Ahead
      <4> QED BY <4>1, <4>2, <4>4 DEF Leads
    <3> QED BY <2>3, <3>1, <3>2, <3>3 DEF Replayed
  <2>6. CASE got[x] = "no" /\ x[1] = m
    <3>1. x[2] \in todo /\ got[<<m, x[2]>>] = "no" /\ x = <<m, x[2]>>
      BY <2>1, <2>6
    <3>2. Wakes(m, x[2])
      BY <2>1, <2>2, <2>6
      DEF Admits, Engages, Wakes, accessGate, senderScopeGate, canAccessAgentGroup
    <3>3. \A r \in fan' : r.msg = m => x[2] \in r.todo \/ got'[x] = "wake"
      <4> TAKE r \in fan'
      <4>1. CASE r \in others
        BY <2>2, <2>6, <4>1 DEF Misses
      <4>2. CASE r \notin others
        BY <1>4, <3>1, <3>2, <4>2
      <4> QED BY <4>1, <4>2
    <3>4. faults = 0 => got'[x] = "wake" \/ Leads(m, x[2])'
      <4> SUFFICES ASSUME faults = 0 PROVE got'[x] = "wake" \/ Leads(m, x[2])'
        OBVIOUS
      <4>1. PICK r \in fan : r.msg = m /\ x[2] \in r.todo /\ Ahead(r)
        BY <2>2, <2>6 DEF Leads
      <4>2. r \in others \/ r.todo = todo
        OBVIOUS
      <4> QED BY <1>2, <3>1, <3>2, <4>1, <4>2, LeadStays
    <3>5. got'[x] # "context"
      BY <2>1, <3>1, <3>2, FanOutWakes
    <3> QED BY <2>3, <2>6, <3>3, <3>4, <3>5 DEF Replayed, Misses
  <2> QED BY <2>1, <2>2, <2>4, <2>5, <2>6
<1> QED
  BY <1>5, <1>6

\* A sender is only asked about for an agent that the message engages.
LEMMA LoopAsks ==
    ASSUME TypeOK, NEW m \in Msgs, NEW by, NEW todo \in SUBSET Agents, NEW others,
           FanOut(m, by, todo, others), \A a \in todo : <<Chan[m], a>> \in wired',
           NEW y \in askS', y \notin askS
    PROVE  Engages(y[1], y[2])'
<1>1. PICK a \in todo : y = <<m, a>> /\ evaluateEngage(m, a)
  BY FanOutAsks
<1>2. evaluateEngage(m, a)'
  BY <1>1, FanOutStores, EngageStays
<1> QED
  BY <1>1, <1>2 DEF Engages

\* The routing of a stored message starts a replay nothing disturbs, and disturbs none.
LEMMA RouteReplays ==
    ASSUME TypeOK, LoopsAreUnderway, ReplaysComeThrough, askC \subseteq Mentions,
           NEW m \in Msgs, NEW by \in Agents \cup {None}, Route(m, by),
           wired \subseteq wired', members \subseteq members', faults' = faults,
           by # None => /\ <<Chan[m], by>> \in wired' /\ <<From[m], by>> \in members'
                        /\ evaluateEngage(m, by)
    PROVE  /\ LoopsAreUnderway' /\ ReplaysComeThrough' /\ askC' \subseteq Mentions
           /\ \A y \in askS' : y \in askS \/ Engages(y[1], y[2])'
           /\ \A x \in Msgs \X Agents : got[x] # "no" => got'[x] = got[x]
<1> DEFINE agents == {a \in Agents : <<Chan[m], a>> \in wired'}
<1>1. clean' = clean \/ (by # None /\ clean' = clean \cup {<<m, by>>}
                           /\ \A a \in Agents : got[<<m, a>>] = "no")
  BY DEF Route
<1>2. CASE FanOut(m, by, agents, fan) /\ UNCHANGED askC
  <2>0. fan \in SUBSET fan /\ agents \in SUBSET Agents /\ \A a \in agents : <<Chan[m], a>> \in wired'
    OBVIOUS
  <2>1. \A x \in clean : x[1] = m => x[2] \in agents
    BY DEF ReplaysComeThrough, Replayed, Admits, Engages, TypeOK
  <2> HIDE DEF agents
  <2>2. LoopsAreUnderway'
    BY <1>2, <2>0, <2>1, LoopReplays
  <2>3. \A x \in clean : Replayed(x)'
    BY <1>2, <2>0, <2>1, LoopReplays
  <2>4. ASSUME NEW y \in askS', y \notin askS PROVE Engages(y[1], y[2])'
    BY <1>2, <2>0, <2>4, LoopAsks
  <2>5. \A x \in Msgs \X Agents : got[x] # "no" => got'[x] = got[x]
    BY <1>2, <2>0, FanOutStores
  <2>6. ASSUME by # None, \A a \in Agents : got[<<m, a>>] = "no"
        PROVE  Replayed(<<m, by>>)'
    <3>1. by \in agents /\ by \in Agents
      BY <2>6 DEF agents
    <3>2. Wakes(m, by)
      BY <2>6 DEF Wakes, accessGate, senderScopeGate, canAccessAgentGroup
    <3>3. Admits(m, by)'
      BY <2>5, <2>6, <3>1, EngageStays DEF Admits, Engages
    <3>4. got'[<<m, by>>] # "context"
      BY <1>2, <2>0, <2>6, <3>1, <3>2, FanOutWakes
    <3>5. ASSUME NEW r \in fan', r.msg = m PROVE by \in r.todo \/ got'[<<m, by>>] = "wake"
      <4>1. r \notin fan
        BY <2>6, <3>5 DEF LoopsAreUnderway
      <4>2. \A x \in agents : Wakes(m, x) => x \in r.todo \/ got'[<<m, x>>] = "wake"
        BY <1>2, <2>0, <4>1, FanOutLeaves
      <4> QED BY <3>1, <3>2, <4>2
    <3>6. fan \subseteq fan'
      BY <1>2 DEF FanOut
    <3>7. got'[<<m, by>>] = "wake" \/ Leads(m, by)'
      BY <1>2, <2>0, <2>6, <3>1, <3>2, <3>6, LeadStays
    <3> QED BY <3>3, <3>4, <3>5, <3>7 DEF Replayed, Misses
  <2> QED
    BY <1>1, <1>2, <2>2, <2>3, <2>4, <2>5, <2>6 DEF ReplaysComeThrough
<1>3. CASE agents = {} /\ askC' \in {askC, askC \cup {m}} /\ (askC' # askC => m \in Mentions)
           /\ UNCHANGED <<got, askS, fan>>
  <2>1. clean' = clean
    BY <1>1, <1>3
  <2>2. LoopsAreUnderway'
    BY <1>3 DEF LoopsAreUnderway
  <2>3. ASSUME NEW x \in clean PROVE Replayed(x)'
    <3>1. Replayed(x)
      BY DEF ReplaysComeThrough
    <3>2. x[1] \in Msgs /\ x[2] \in Agents
      BY DEF TypeOK
    <3>3. Admits(x[1], x[2])'
      BY <1>3, <3>1, <3>2, EngageStays DEF Admits, Engages, Replayed
    <3>4. Misses(x[1], x[2])' = Misses(x[1], x[2]) /\ Leads(x[1], x[2])' = Leads(x[1], x[2])
      BY <1>3 DEF Misses, Leads, Ahead
    <3> QED BY <1>3, <3>1, <3>3, <3>4 DEF Replayed
  <2> QED
    BY <1>3, <2>1, <2>2, <2>3 DEF ReplaysComeThrough
<1> QED
  BY <1>2, <1>3 DEF Route, Escalates

\* A channel that was registered through a card takes every message it escalated.
LEMMA RegisteredEngages ==
    ASSUME NEW m \in Mentions, NEW a \in Agents, <<Chan[m], a>> \notin DOMAIN Setup
    PROVE  evaluateEngage(m, a)
  BY DEF evaluateEngage, WiringOf, Registered

\* routeInbound for its callers: what a click has written clears the gates for its agent.
LEMMA InboundReplays ==
    ASSUME TypeOK, StoredIsDue, LoopsAreUnderway, ReplaysComeThrough,
           NEW m \in Msgs, NEW by \in Agents \cup {None}, NEW w, NEW mem, NEW p,
           routeInbound(m, by, w, mem, p),
           wired \subseteq w, members \subseteq mem, faults' = faults,
           p \in [Channels -> Msgs \cup {None}], \A c \in Channels : p[c] \in {cp[c], None},
           by # None => <<Chan[m], by>> \in w /\ <<From[m], by>> \in mem /\ evaluateEngage(m, by)
    PROVE  /\ LoopsAreUnderway' /\ ReplaysComeThrough' /\ askC' \subseteq Mentions
           /\ \A y \in askS' : y \in askS \/ Engages(y[1], y[2])'
           /\ \A x \in Msgs \X Agents : got[x] # "no" => got'[x] = got[x]
           /\ wired \subseteq wired' /\ groups \subseteq groups'
           /\ \A c \in Channels : cp'[c] \in {cp[c], None}
<1>0. askC \subseteq Mentions
  BY DEF StoredIsDue
<1>1. CASE Route(m, by) /\ wired' = w /\ members' = mem /\ cp' = p /\ UNCHANGED groups
  <2>1. LoopsAreUnderway' /\ ReplaysComeThrough' /\ askC' \subseteq Mentions
    BY <1>0, <1>1, RouteReplays
  <2>2. \A y \in askS' : y \in askS \/ Engages(y[1], y[2])'
    BY <1>0, <1>1, RouteReplays
  <2>3. \A x \in Msgs \X Agents : got[x] # "no" => got'[x] = got[x]
    BY <1>0, <1>1, RouteReplays
  <2> QED BY <1>1, <2>1, <2>2, <2>3
<1>2. CASE wired' = w /\ members' = mem /\ cp' = p /\ UNCHANGED <<groups, rows, clean>>
  <2>1. LoopsAreUnderway'
    BY <1>2 DEF LoopsAreUnderway, rows
  <2>2. ASSUME NEW x \in clean PROVE Replayed(x)'
    <3>1. Replayed(x) /\ x[1] \in Msgs /\ x[2] \in Agents /\ got' = got
      BY <1>2 DEF ReplaysComeThrough, TypeOK, rows
    <3>2. Admits(x[1], x[2])'
      BY <1>2, <3>1, EngageStays DEF Admits, Engages, Replayed
    <3>3. Misses(x[1], x[2])' = Misses(x[1], x[2]) /\ Leads(x[1], x[2])' = Leads(x[1], x[2])
      BY <1>2 DEF Misses, Leads, Ahead, rows
    <3> QED BY <3>1, <3>2, <3>3 DEF Replayed
  <2> QED BY <1>0, <1>2, <2>1, <2>2 DEF ReplaysComeThrough, rows
<1>3. ASSUME NEW a \in Agents \ groups, naming # None, p[naming] # None,
             groups' = groups \cup {a}, wired' = w \cup {<<naming, a>>},
             members' = mem \cup {<<From[p[naming]], a>>},
             cp' = [p EXCEPT ![naming] = None], Route(p[naming], a)
      PROVE  /\ LoopsAreUnderway' /\ ReplaysComeThrough' /\ askC' \subseteq Mentions
             /\ \A y \in askS' : y \in askS \/ Engages(y[1], y[2])'
             /\ \A x \in Msgs \X Agents : got[x] # "no" => got'[x] = got[x]
             /\ wired \subseteq wired' /\ groups \subseteq groups'
             /\ \A c \in Channels : cp'[c] \in {cp[c], None}
  <2>1. naming \in Channels
    BY <1>3 DEF TypeOK
  <2>2. p[naming] = cp[naming] /\ p[naming] \in Msgs
    BY <1>3, <2>1
  <2>3. PICK n \in Msgs : n = p[naming]
    BY <2>2
  <2>4. n \in Mentions /\ Chan[n] = naming
    BY <1>3, <2>1, <2>2, <2>3 DEF StoredIsDue
  <2>5. <<naming, a>> \notin DOMAIN Setup
    BY <1>3 DEF StoredIsDue
  <2>6. evaluateEngage(n, a)
    BY <1>3, <2>4, <2>5, RegisteredEngages
  <2>7. /\ Route(n, a) /\ a \in Agents \cup {None} /\ wired \subseteq wired' /\ members \subseteq members'
        /\ <<Chan[n], a>> \in wired' /\ <<From[n], a>> \in members'
    BY <1>3, <2>3, <2>4
  <2>8. LoopsAreUnderway' /\ ReplaysComeThrough' /\ askC' \subseteq Mentions
    BY <1>0, <2>6, <2>7, RouteReplays
  <2>9. \A y \in askS' : y \in askS \/ Engages(y[1], y[2])'
    BY <1>0, <2>6, <2>7, RouteReplays
  <2>10. \A x \in Msgs \X Agents : got[x] # "no" => got'[x] = got[x]
    BY <1>0, <2>6, <2>7, RouteReplays
  <2> QED BY <1>3, <2>1, <2>7, <2>8, <2>9, <2>10
<1> QED
  BY <1>1, <1>2, <1>3 DEF routeInbound, Intercepted

\* What is stored stays due: rows and cards go, wirings and sessions come.
LEMMA StoredStays ==
    ASSUME TypeOK, StoredIsDue, wired \subseteq wired', groups \subseteq groups',
           \A x \in Msgs \X Agents : got[x] # "no" => got'[x] = got[x],
           askC' \subseteq Mentions,
           askS' \subseteq Msgs \X Agents, \A y \in askS' : y \in askS \/ Engages(y[1], y[2])',
           \A c \in Channels : cp'[c] \in {cp[c], None},
           \A k \in Channels \X Users : sp'[k] \in {sp[k], None}
    PROVE  StoredIsDue'
<1>1. ASSUME NEW m \in Msgs, NEW a \in Agents, Engages(m, a) PROVE Engages(m, a)'
  BY <1>1, EngageStays DEF Engages
<1>2. \A y \in askS' : Engages(y[1], y[2])'
  <2> SUFFICES ASSUME NEW y \in askS', y \in askS PROVE Engages(y[1], y[2])'
    OBVIOUS
  <2> QED BY <1>1 DEF StoredIsDue
<1>3. ASSUME NEW k \in Channels \X Users, NEW m \in Msgs, NEW a \in Agents, sp'[k] = <<m, a>>
      PROVE  k = <<Chan[m], From[m]>> /\ Engages(m, a)'
  <2>1. sp[k] = <<m, a>>
    BY <1>3
  <2> QED BY <1>1, <2>1 DEF StoredIsDue
<1> QED
  BY <1>2, <1>3 DEF StoredIsDue

\* Steps that route nothing: rows, wirings and members stay, faults do not go away.
LEMMA RestReplays ==
    ASSUME TypeOK, LoopsAreUnderway, ReplaysComeThrough,
           UNCHANGED <<got, fan, clean, wired, members>>, faults' = 0 => faults = 0
    PROVE  LoopsAreUnderway' /\ ReplaysComeThrough'
<1>1. LoopsAreUnderway'
  BY DEF LoopsAreUnderway
<1>2. ASSUME NEW x \in clean PROVE Replayed(x)'
  <2>1. Replayed(x) /\ x[1] \in Msgs /\ x[2] \in Agents
    BY DEF ReplaysComeThrough, TypeOK
  <2>2. Admits(x[1], x[2])'
    BY <2>1, EngageStays DEF Admits, Engages, Replayed
  <2>3. Misses(x[1], x[2])' = Misses(x[1], x[2]) /\ Leads(x[1], x[2])' = Leads(x[1], x[2])
    BY DEF Misses, Leads, Ahead
  <2> QED BY <2>1, <2>2, <2>3 DEF Replayed
<1> QED
  BY <1>1, <1>2 DEF ReplaysComeThrough

LEMMA ReplayInit == Init => ReplayInv
  BY DEF Init, ReplayInv, StoredIsDue, LoopsAreUnderway, ReplaysComeThrough

LEMMA ArrivesReplays ==
    ASSUME TypeOK, TypeOK', ReplayInv, NEW m \in Msgs, Arrives(m) PROVE ReplayInv'
<1> USE DEF ReplayInv
<1>1. /\ routeInbound(m, None, wired, members, cp) /\ faults' = faults /\ sp' = sp
      /\ cp \in [Channels -> Msgs \cup {None}] /\ None \in Agents \cup {None}
  BY DEF Arrives, TypeOK
<1>2. /\ LoopsAreUnderway' /\ ReplaysComeThrough' /\ askC' \subseteq Mentions
      /\ \A y \in askS' : y \in askS \/ Engages(y[1], y[2])'
      /\ \A x \in Msgs \X Agents : got[x] # "no" => got'[x] = got[x]
      /\ wired \subseteq wired' /\ groups \subseteq groups'
      /\ \A c \in Channels : cp'[c] \in {cp[c], None}
  BY <1>1, InboundReplays
<1>3. StoredIsDue'
  BY <1>1, <1>2, StoredStays DEF TypeOK
<1> QED
  BY <1>2, <1>3

LEMMA ResumesReplays ==
    ASSUME TypeOK, TypeOK', ReplayInv, NEW r \in fan, Resumes(r) PROVE ReplayInv'
<1> USE DEF ReplayInv
<1>1. PICK m \in Msgs, by \in Agents \cup {None}, todo \in SUBSET Agents :
        r.msg = m /\ r.by = by /\ r.todo = todo
  BY DEF TypeOK
<1>2. PICK others \in SUBSET fan : others = fan \ {r}
  OBVIOUS
<1>3. /\ FanOut(m, by, todo, others)
      /\ UNCHANGED <<groups, wired, members, cp, sp, askC, faults, clean>>
  BY <1>1, <1>2 DEF Resumes
<1>4. /\ \A q \in fan : q \in others \/ (q.msg = m /\ q.todo = todo)
      /\ \A a \in todo : <<Chan[m], a>> \in wired'
  BY <1>1, <1>2, <1>3 DEF LoopsAreUnderway
<1>5. \A x \in clean : x[1] = m => x[2] \in todo \/ got[x] = "wake"
  BY <1>1 DEF ReplaysComeThrough, Replayed, Misses
<1>6. LoopsAreUnderway' /\ \A x \in clean : Replayed(x)'
  BY <1>3, <1>4, <1>5, LoopReplays
<1>7. ReplaysComeThrough'
  BY <1>3, <1>6 DEF ReplaysComeThrough
<1>8. \A x \in Msgs \X Agents : got[x] # "no" => got'[x] = got[x]
  BY <1>3, FanOutStores
<1>9. ASSUME NEW y \in askS', y \notin askS PROVE Engages(y[1], y[2])'
  BY <1>3, <1>4, <1>9, LoopAsks
<1>10. StoredIsDue'
  <2>1. askC' \subseteq Mentions
    BY <1>3 DEF StoredIsDue
  <2> QED BY <1>3, <1>8, <1>9, <2>1, StoredStays DEF TypeOK
<1> QED
  BY <1>6, <1>7, <1>10

LEMMA RequestsReplays ==
    ASSUME TypeOK, TypeOK', ReplayInv, Requests PROVE ReplayInv'
<1> USE DEF ReplayInv
<1>1. UNCHANGED <<got, fan, clean, wired, members, groups>> /\ askC' \subseteq askC /\ askS' \subseteq askS
  BY DEF Requests, ChannelRow, SenderRow, OwnerUnreachable, idle
<1>2. faults' = 0 => faults = 0
  <2>1. faults \in Nat /\ (faults' = faults \/ faults' = faults + 1)
    <3>1. faults' = faults \/ Fault
      BY DEF Requests, ChannelRow, SenderRow, OwnerUnreachable
    <3> QED BY <3>1, Bound DEF Fault, TypeOK
  <2> QED BY <2>1
<1>3. LoopsAreUnderway' /\ ReplaysComeThrough'
  BY <1>1, <1>2, RestReplays
<1>4. \A m \in Msgs, a \in Agents : Engages(m, a)' = Engages(m, a)
  BY <1>1 DEF Engages, evaluateEngage, HasSession
<1>5. ASSUME NEW c \in Channels, cp'[c] # None PROVE cp'[c] \in Mentions /\ Chan[cp'[c]] = c
  <2>1. cp' = cp \/ \E m \in askC : cp' = [cp EXCEPT ![Chan[m]] = m]
    BY DEF Requests, ChannelRow, SenderRow, OwnerUnreachable
  <2>2. cp'[c] = cp[c] \/ (cp'[c] \in askC /\ Chan[cp'[c]] = c)
    BY <2>1 DEF TypeOK
  <2> QED BY <1>5, <2>2 DEF StoredIsDue
<1>6. ASSUME NEW k \in Channels \X Users, NEW m \in Msgs, NEW a \in Agents, sp'[k] = <<m, a>>
      PROVE  k = <<Chan[m], From[m]>> /\ Engages(m, a)'
  <2>1. sp'[k] = sp[k] \/ \E n \in Msgs, b \in Agents :
                            <<n, b>> \in askS /\ k = <<Chan[n], From[n]>> /\ sp'[k] = <<n, b>>
    <3>1. sp' = sp \/ \E n \in Msgs, b \in Agents :
                        <<n, b>> \in askS /\ sp' = [sp EXCEPT ![<<Chan[n], From[n]>>] = <<n, b>>]
      BY DEF Requests, ChannelRow, SenderRow, OwnerUnreachable
    <3>2. CASE sp' = sp
      BY <3>2
    <3>3. CASE \E n \in Msgs, b \in Agents :
                 <<n, b>> \in askS /\ sp' = [sp EXCEPT ![<<Chan[n], From[n]>>] = <<n, b>>]
      <4>1. PICK n \in Msgs, b \in Agents :
                   <<n, b>> \in askS /\ sp' = [sp EXCEPT ![<<Chan[n], From[n]>>] = <<n, b>>]
        BY <3>3
      <4> DEFINE j == <<Chan[n], From[n]>>
      <4>2. sp' = [sp EXCEPT ![j] = <<n, b>>] /\ sp \in [Channels \X Users -> (Msgs \X Agents) \cup {None}]
        BY <4>1 DEF TypeOK
      <4> HIDE DEF j
      <4>3. sp'[k] = IF k = j THEN <<n, b>> ELSE sp[k]
        BY <4>2
      <4>4. sp'[k] = sp[k] \/ (<<n, b>> \in askS /\ k = <<Chan[n], From[n]>> /\ sp'[k] = <<n, b>>)
        BY <4>1, <4>3 DEF j
      <4> QED BY <4>4
    <3> QED BY <3>1, <3>2, <3>3
  <2>2. CASE sp'[k] = sp[k]
    BY <1>4, <1>6, <2>2 DEF StoredIsDue
  <2>3. CASE \E n \in Msgs, b \in Agents :
               <<n, b>> \in askS /\ k = <<Chan[n], From[n]>> /\ sp'[k] = <<n, b>>
    <3>1. <<m, a>> \in askS /\ k = <<Chan[m], From[m]>>
      BY <1>6, <2>3
    <3>2. Engages(m, a)
      BY <3>1 DEF StoredIsDue
    <3> QED BY <1>4, <3>1, <3>2
  <2> QED BY <2>1, <2>2, <2>3
<1>7. ASSUME NEW y \in askS' PROVE Engages(y[1], y[2])'
  BY <1>1, <1>4, <1>7 DEF StoredIsDue, TypeOK
<1>8. StoredIsDue'
  BY <1>1, <1>5, <1>6, <1>7 DEF StoredIsDue
<1> QED
  BY <1>3, <1>8

LEMMA ConnectReplays ==
    ASSUME TypeOK, TypeOK', ReplayInv, NEW c \in Channels, NEW a \in Agents, Connect(c, a)
    PROVE  ReplayInv'
<1> USE DEF ReplayInv
<1>1. PICK m \in Msgs : m = cp[c]
  BY DEF Connect, clickedC, TypeOK
<1>2. m \in Mentions /\ Chan[m] = c /\ faults' = faults /\ sp' = sp
  BY <1>1 DEF Connect, StoredIsDue
<1>3. CASE <<c, a>> \in wired
  <2>1. UNCHANGED <<got, fan, clean, wired, members, faults, askC, askS, groups, cp>>
    BY <1>3 DEF Connect, rows
  <2>2. LoopsAreUnderway' /\ ReplaysComeThrough'
    BY <2>1, RestReplays
  <2>3. askC' \subseteq Mentions
    BY <2>1 DEF StoredIsDue
  <2> QED BY <1>2, <2>1, <2>2, <2>3, StoredStays DEF TypeOK
<1>4. CASE <<c, a>> \notin wired
  <2> DEFINE w == wired \cup {<<c, a>>}
             mem == members \cup {<<From[m], a>>}
             p == [cp EXCEPT ![c] = None]
  <2>1. routeInbound(m, a, w, mem, p)
    BY <1>1, <1>4 DEF Connect
  <2>2. /\ p \in [Channels -> Msgs \cup {None}] /\ \A d \in Channels : p[d] \in {cp[d], None}
        /\ wired \subseteq w /\ members \subseteq mem /\ a \in Agents \cup {None}
        /\ <<Chan[m], a>> \in w /\ <<From[m], a>> \in mem
    BY <1>2 DEF TypeOK
  <2>3. evaluateEngage(m, a)
    <3>1. <<Chan[m], a>> \notin DOMAIN Setup
      BY <1>2, <1>4 DEF StoredIsDue
    <3> QED BY <1>2, <3>1, RegisteredEngages
  <2> HIDE DEF w, mem, p
  <2>4. /\ LoopsAreUnderway' /\ ReplaysComeThrough' /\ askC' \subseteq Mentions
        /\ \A y \in askS' : y \in askS \/ Engages(y[1], y[2])'
        /\ \A x \in Msgs \X Agents : got[x] # "no" => got'[x] = got[x]
        /\ wired \subseteq wired' /\ groups \subseteq groups'
        /\ \A d \in Channels : cp'[d] \in {cp[d], None}
    BY <1>2, <2>1, <2>2, <2>3, InboundReplays
  <2>5. StoredIsDue'
    BY <1>2, <2>4, StoredStays DEF TypeOK
  <2> QED BY <2>4, <2>5
<1> QED
  BY <1>3, <1>4

LEMMA ChannelClickReplays ==
    ASSUME TypeOK, TypeOK', ReplayInv, NEW c \in Channels, ChannelClick(c)
    PROVE  ReplayInv'
<1> USE DEF ReplayInv
<1>1. CASE \E a \in Agents : Connect(c, a)
  BY <1>1, ConnectReplays
<1>2. CASE ListLost(c) \/ NewAgent(c) \/ PromptReturns(c) \/ Reject(c)
  <2>1. /\ UNCHANGED <<got, fan, clean, wired, members, askC, askS, groups, sp>>
        /\ \A d \in Channels : cp'[d] \in {cp[d], None}
        /\ faults' = 0 => faults = 0
    BY <1>2 DEF ListLost, NewAgent, PromptReturns, Reject, idle, rows, Fault, TypeOK
  <2>2. LoopsAreUnderway' /\ ReplaysComeThrough'
    BY <2>1, RestReplays
  <2>3. askC' \subseteq Mentions
    BY <2>1 DEF StoredIsDue
  <2> QED BY <2>1, <2>2, <2>3, StoredStays DEF TypeOK
<1> QED
  BY <1>1, <1>2 DEF ChannelClick

LEMMA SenderClickReplays ==
    ASSUME TypeOK, TypeOK', ReplayInv, NEW k \in Channels \X Users, SenderClick(k)
    PROVE  ReplayInv'
<1> USE DEF ReplayInv
<1>1. PICK m \in Msgs, a \in Agents : sp[k] = <<m, a>>
  BY DEF SenderClick, ApproveSender, DenySender, clickedS, TypeOK
<1>2. k = <<Chan[m], From[m]>> /\ Engages(m, a) /\ faults' = faults
      /\ \A j \in Channels \X Users : sp'[j] \in {sp[j], None}
  BY <1>1 DEF StoredIsDue, SenderClick, ApproveSender, DenySender, TypeOK
<1>3. CASE ApproveSender(k)
  <2> DEFINE mem == members \cup {<<From[m], a>>}
  <2>1. routeInbound(m, a, wired, mem, cp)
    BY <1>1, <1>2, <1>3 DEF ApproveSender
  <2>2. /\ cp \in [Channels -> Msgs \cup {None}] /\ members \subseteq mem /\ a \in Agents \cup {None}
        /\ <<Chan[m], a>> \in wired /\ <<From[m], a>> \in mem /\ evaluateEngage(m, a)
    BY <1>2 DEF TypeOK, Engages
  <2> HIDE DEF mem
  <2>3. /\ LoopsAreUnderway' /\ ReplaysComeThrough' /\ askC' \subseteq Mentions
        /\ \A y \in askS' : y \in askS \/ Engages(y[1], y[2])'
        /\ \A x \in Msgs \X Agents : got[x] # "no" => got'[x] = got[x]
        /\ wired \subseteq wired' /\ groups \subseteq groups'
        /\ \A d \in Channels : cp'[d] \in {cp[d], None}
    BY <1>2, <2>1, <2>2, InboundReplays
  <2>4. StoredIsDue'
    BY <1>2, <2>3, StoredStays DEF TypeOK
  <2> QED BY <2>3, <2>4
<1>4. CASE DenySender(k)
  <2>1. UNCHANGED <<got, fan, clean, wired, members, faults, askC, askS, groups, cp>>
    BY <1>4 DEF DenySender, idle
  <2>2. LoopsAreUnderway' /\ ReplaysComeThrough'
    BY <2>1, RestReplays
  <2>3. askC' \subseteq Mentions
    BY <2>1 DEF StoredIsDue
  <2> QED BY <1>2, <2>1, <2>2, <2>3, StoredStays DEF TypeOK
<1> QED
  BY <1>3, <1>4 DEF SenderClick

LEMMA ReplayStep == IInv /\ IInv' /\ ReplayInv /\ [Next]_vars => ReplayInv'
<1> SUFFICES ASSUME TypeOK, TypeOK', ReplayInv, [Next]_vars PROVE ReplayInv'
  BY DEF IInv
<1>1. CASE HostRestarts
  <2>1. LoopsAreUnderway' /\ faults' # 0 /\ clean' = clean /\ got' = got
    BY <1>1 DEF HostRestarts, Fault, LoopsAreUnderway, TypeOK
  <2>2. ASSUME NEW x \in clean PROVE Replayed(x)'
    <3>1. Replayed(x) /\ x[1] \in Msgs /\ x[2] \in Agents
      BY DEF ReplayInv, ReplaysComeThrough, TypeOK
    <3>2. Admits(x[1], x[2])' /\ ~Misses(x[1], x[2])'
      BY <1>1, <2>1, <3>1, EngageStays DEF HostRestarts, Admits, Engages, Misses, Replayed
    <3> QED BY <2>1, <3>1, <3>2 DEF Replayed
  <2>3. StoredIsDue'
    <3>1. askC' \subseteq Mentions
      BY <1>1 DEF HostRestarts
    <3> QED BY <1>1, <2>1, <3>1, StoredStays DEF HostRestarts, ReplayInv, TypeOK
  <2> QED BY <2>1, <2>2, <2>3 DEF ReplayInv, ReplaysComeThrough
<1>2. CASE UNCHANGED vars
  <2>1. LoopsAreUnderway' /\ ReplaysComeThrough'
    BY <1>2, RestReplays DEF vars, ReplayInv
  <2>2. askC' \subseteq Mentions
    BY <1>2 DEF vars, ReplayInv, StoredIsDue
  <2> QED BY <1>2, <2>1, <2>2, StoredStays DEF vars, ReplayInv, TypeOK
<1> QED
  BY <1>1, <1>2, ArrivesReplays, ResumesReplays, RequestsReplays, ChannelClickReplays,
     SenderClickReplays DEF Next

\* A message no agent had reaches the agent it was approved, connected or named for, as long as
\* no send fails and the host stays up (router.ts:283-450): the loop over the agents is never
\* ended by a row of the message before that agent has its own.
THEOREM ReplaysArrive == Spec => []CleanReplayArrives
<1>1. TypeOK /\ ReplayInv => CleanReplayArrives
  <2> SUFFICES ASSUME TypeOK, ReplayInv, faults = 0, NEW x \in clean
               PROVE  got[x] = "wake" \/ Underway(x[1], x[2])
    BY DEF CleanReplayArrives
  <2>1. got[x] = "wake" \/ Leads(x[1], x[2])
    BY DEF ReplayInv, ReplaysComeThrough, Replayed
  <2> QED BY <2>1 DEF Leads, Underway
<1>2. IInv => TypeOK
  BY DEF IInv
<1> QED
  BY <1>1, <1>2, InitInv, StepInv, ReplayInit, ReplayStep, PTL DEF Spec

\* As long as no send fails, a pending sender can be decided (sender-approval.ts:57-65).
THEOREM SendersCanBeDecided == Spec => []SenderRowHasCard
<1>1. Init => SenderRowHasCard
  BY DEF Init, SenderRowHasCard
<1>2. IInv /\ SenderRowHasCard /\ [Next]_vars => SenderRowHasCard'
  <2> SUFFICES ASSUME TypeOK, OneLiveCard, SenderRowHasCard, [Next]_vars, faults' = 0,
                      NEW k \in Channels \X Users, sp'[k] # None
               PROVE  cardS'[k] = 1
    BY DEF IInv, SenderRowHasCard
  <2>0. faults = 0 /\ ~Fault
    <3>1. faults \in Nat /\ (Fault => faults' = faults + 1)
      BY Bound DEF Fault, TypeOK
    <3>2. faults' = faults \/ Fault
      BY DEF TypeOK, Next, Arrives, Resumes, Requests, ChannelRow, SenderRow, OwnerUnreachable,
           ChannelClick, Connect, ListLost, NewAgent, PromptReturns, Reject,
           SenderClick, ApproveSender, DenySender, HostRestarts, vars, idle
    <3> QED BY <3>1, <3>2
  <2>1. ASSUME NEW m \in Msgs, NEW a \in Agents, SenderRow(m, a) PROVE cardS'[k] = 1
    <3> DEFINE j == <<Chan[m], From[m]>>
    <3>1. cardS' = IF sp[j] = None THEN [cardS EXCEPT ![j] = @ + 1] ELSE cardS
      BY <2>0, <2>1 DEF SenderRow
    <3>2. sp' = IF sp[j] = None THEN [sp EXCEPT ![j] = <<m, a>>] ELSE sp
      BY <2>1 DEF SenderRow
    <3>3. j \in Channels \X Users
      OBVIOUS
    <3> HIDE DEF j
    <3>4. CASE k = j /\ sp[j] = None
      BY <3>1, <3>3, <3>4 DEF OneLiveCard, TypeOK
    <3>5. CASE k # j \/ sp[j] # None
      BY <2>0, <3>1, <3>2, <3>5 DEF SenderRowHasCard, TypeOK
    <3> QED BY <3>4, <3>5
  <2>2. ASSUME NEW j \in Channels \X Users, SenderClick(j) PROVE cardS'[k] = 1
    BY <2>0, <2>2 DEF SenderClick, ApproveSender, DenySender, clickedS, SenderRowHasCard, TypeOK
  <2>3. CASE UNCHANGED <<sp, cardS>>
    BY <2>0, <2>3 DEF SenderRowHasCard
  <2>4. CASE \/ \E m \in Msgs : Arrives(m) \/ ChannelRow(m)
             \/ \E r \in fan : Resumes(r)
             \/ OwnerUnreachable \/ HostRestarts \/ UNCHANGED vars
             \/ \E c \in Channels : ChannelClick(c)
    BY <2>3, <2>4 DEF Arrives, ChannelRow, Resumes, OwnerUnreachable, HostRestarts, vars, ChannelClick,
                      Connect, ListLost, NewAgent, PromptReturns, Reject
  <2> QED BY <2>1, <2>2, <2>4 DEF Next, Requests
<1> QED
  BY <1>1, <1>2, InitInv, StepInv, PTL DEF Spec

\* A rejected channel raises no card again (channel-approval.ts:33-36, router.ts:212): whoever
\* escalates has looked at the mark after the last await, and the mark never goes away.
THEOREM DenialIsFinal == Spec => DeniedStaysQuiet
<1>1. ASSUME NEW m, NEW by, Route(m, by) PROVE \A n \in askC' : n \in askC \/ Chan[n] \notin denied'
  BY <1>1 DEF Route, Escalates
<1>2. ASSUME NEW m, NEW by, NEW w, NEW mem, NEW p, routeInbound(m, by, w, mem, p)
      PROVE  \A n \in askC' : n \in askC \/ Chan[n] \notin denied'
  BY <1>1, <1>2 DEF routeInbound, rows
<1>3. TypeOK /\ [Next]_vars => [\A c \in Channels : Quiet(c) => Quiet(c)']_vars
  <2> SUFFICES ASSUME TypeOK, Next, NEW c \in Channels, Quiet(c) PROVE Quiet(c)'
    BY DEF vars
  <2>1. denied \subseteq denied'
    BY DEF Next, Arrives, Resumes, Requests, ChannelRow, SenderRow, OwnerUnreachable, idle,
           ChannelClick, Connect, ListLost, NewAgent, PromptReturns, Reject,
           SenderClick, ApproveSender, DenySender, HostRestarts
  <2>2. \A n \in askC' : n \in askC \/ Chan[n] \notin denied'
    BY <1>2 DEF Next, Arrives, Resumes, Requests, ChannelRow, SenderRow, OwnerUnreachable, idle,
           ChannelClick, Connect, ListLost, NewAgent, PromptReturns, Reject, rows,
           SenderClick, ApproveSender, DenySender, HostRestarts
  <2>3. cp'[c] = None
    <3>1. ASSUME NEW m, NEW by, NEW w, NEW mem, NEW p, routeInbound(m, by, w, mem, p),
                 p[c] = None, p \in [Channels -> Msgs \cup {None}]
          PROVE  cp'[c] = None
      BY <3>1 DEF routeInbound
    <3>0. cp[c] = None /\ cp \in [Channels -> Msgs \cup {None}]
      BY DEF Quiet, TypeOK
    <3>2. ASSUME NEW m \in Msgs, Arrives(m) PROVE cp'[c] = None
      BY <3>0, <3>1, <3>2 DEF Arrives
    <3>3. ASSUME NEW k \in Channels \X Users, SenderClick(k) PROVE cp'[c] = None
      BY <3>0, <3>1, <3>3 DEF SenderClick, ApproveSender, DenySender
    <3>4. ASSUME NEW d \in Channels, ChannelClick(d) PROVE cp'[c] = None
      <4>1. ASSUME NEW a \in Agents, Connect(d, a) PROVE cp'[c] = None
        <5> DEFINE p == [cp EXCEPT ![d] = None]
        <5>1. p[c] = None /\ p \in [Channels -> Msgs \cup {None}]
          BY <3>0
        <5>2. cp' = cp \/ routeInbound(cp[d], a, wired \cup {<<d, a>>},
                                      members \cup {<<From[cp[d]], a>>}, p)
          BY <4>1 DEF Connect
        <5> HIDE DEF p
        <5> QED BY <3>0, <3>1, <5>1, <5>2
      <4> QED BY <3>4, <4>1 DEF ChannelClick, ListLost, NewAgent, PromptReturns, Reject, idle, Quiet, TypeOK
    <3>5. ASSUME NEW m \in Msgs, ChannelRow(m) PROVE cp'[c] = None
      BY <3>0, <3>5 DEF ChannelRow, Quiet
    <3>6. ASSUME NEW m \in Msgs, NEW a \in Agents, SenderRow(m, a) PROVE cp'[c] = None
      BY <3>6 DEF SenderRow, Quiet
    <3>7. CASE OwnerUnreachable \/ HostRestarts \/ \E r \in fan : Resumes(r)
      BY <3>7 DEF OwnerUnreachable, HostRestarts, Resumes, Quiet
    <3> QED BY <3>2, <3>3, <3>4, <3>5, <3>6, <3>7 DEF Next, Requests
  <2> QED BY <2>1, <2>2, <2>3 DEF Quiet
<1>4. IInv => TypeOK
  BY DEF IInv
<1> QED
  BY <1>3, <1>4, InitInv, StepInv, PTL DEF Spec, DeniedStaysQuiet

=============================================================================
