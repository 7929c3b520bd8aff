------------------------- MODULE AgentRoutesProofs -------------------------
(***************************************************************************)
(* Where answers go, and what a session's copy of the permissions may      *)
(* hold, for any set of agents and any number of sessions and rows.        *)
(***************************************************************************)
EXTENDS AgentRoutes, TLAPS, WellFoundedInduction

USE Bounds, KnownGroups, NoneIsNew

LEMMA LeastNumber ==
  ASSUME NEW T \in SUBSET Nat, T # {}
  PROVE  \E x \in T : \A y \in T : x <= y
<1> DEFINE R == {ss \in Nat \X Nat : ss[1] < ss[2]}
<1>1. IsWellFoundedOn(R, Nat)
  BY NatLessThanWellFounded DEF OpToRel
<1>2. PICK x \in T : \A y \in T : ~(<<y, x>> \in R)
  BY <1>1, WFMin
<1>3. \A y \in T : x <= y
  <2> SUFFICES ASSUME NEW y \in T, ~(x <= y)
      PROVE  FALSE
    OBVIOUS
  <2>1. x \in Nat /\ y \in Nat /\ y < x
    OBVIOUS
  <2> QED
    BY <2>1, <1>2
<1> QED
  BY <1>3

\* Last is the greatest of a bounded set of numbers.
LEMMA LastIsGreatest ==
  ASSUME NEW n \in Nat, NEW S \in SUBSET (1..n), S # {}
  PROVE  Last(S) \in S /\ \A j \in S : j <= Last(S)
<1> DEFINE T == {u \in Nat : \A j \in S : j <= u}
<1>1. T \in SUBSET Nat /\ n \in T
  OBVIOUS
<1>2. PICK u \in T : \A v \in T : u <= v
  BY <1>1, LeastNumber
<1>3. u \in S
  <2> SUFFICES ASSUME u \notin S
      PROVE  FALSE
    OBVIOUS
  <2>1. PICK j \in S : TRUE
    OBVIOUS
  <2>2. j \in 1..n /\ j <= u /\ j # u /\ u \in Nat
    BY <1>2
  <2>3. u - 1 \in Nat
    BY <2>2
  <2>4. \A i \in S : i <= u - 1
    <3> TAKE i \in S
    <3>1. i \in 1..n /\ i <= u /\ i # u
      BY <1>2
    <3> QED
      BY <3>1, <2>2
  <2>5. u <= u - 1
    BY <2>3, <2>4, <1>2
  <2> QED
    BY <2>5, <2>2
<1>4. \E i \in S : \A j \in S : j <= i
  BY <1>2, <1>3
<1> QED
  BY <1>4 DEF Last

\* A new session is one that does not exist yet.
LEMMA NextIsUnborn ==
  ASSUME Unborn # {}
  PROVE  Next_ \in Unborn
<1>1. Unborn \in SUBSET Nat
  BY DEF Unborn, Sessions
<1>2. \E s \in Unborn : \A r \in Unborn : s <= r
  BY <1>1, LeastNumber
<1> QED
  BY <1>2 DEF Next_

------------------------------------------------------------------------------
(* The invariant.                                                          *)

\* A session that does not exist knows nobody, and a group that was not made
\* yet is in nobody's permissions.
Unused ==
    /\ \A s \in active : owner[s] # None
    /\ \A s \in Sessions : owner[s] = None => known[s] = {}
    /\ groups \cap unmade = {}
    /\ \A p \in allowed : p[2] \notin unmade
    /\ \A s \in Sessions : known[s] \cap unmade = {} /\ owner[s] \notin unmade

\* KnownIsAllowed, with or without a container.
CopiesFollow == \A s \in active : known[s] \cap groups \subseteq Targets(owner[s])

\* A row says which session it came from, and that session is its sender's.
Signed(row) == row.src # None => row.from # None /\ owner[row.src] = row.from
RowsAreSigned == \A s \in Sessions : \A i \in 1..Len(inbox[s]) : Signed(inbox[s][i])

\* The rows batches and answers point at exist.
RefsExist ==
    /\ \A s \in Sessions : turn[s] <= Len(inbox[s])
    /\ \A m \in due : m.ref <= Len(inbox[m.of])

IInv == TypeOK /\ Unused /\ CopiesFollow /\ RowsAreSigned /\ RefsExist

perms == <<groups, unmade, owner, active, allowed, known>>
rows == <<inbox, turn, taken, due>>
bounds == <<wrote, chats, faults>>

LEMMA InitInv == Init => IInv
<1> SUFFICES ASSUME Init
    PROVE  IInv
  OBVIOUS
<1>1. TypeOK
  BY DEF Init, TypeOK, Rows, Messages
<1>2. Unused /\ CopiesFollow
  BY DEF Init, Unused, CopiesFollow, Targets
<1>3. RowsAreSigned /\ RefsExist
  BY DEF Init, RowsAreSigned, RefsExist, Signed
<1> QED
  BY <1>1, <1>2, <1>3 DEF IInv

------------------------------------------------------------------------------
(* Rows: what appending one to a session does.                             *)

\* One more row for s, signed, while owners stay; nothing else of the rows moves.
LEMMA OneMoreRow ==
  ASSUME IInv, NEW s \in Sessions, NEW row \in Rows, Append1(s, row),
         \A r \in Sessions : owner[r] # None => owner'[r] = owner[r],
         Signed(row)'
  PROVE  /\ inbox' \in [Sessions -> Seq(Rows)]
         /\ RowsAreSigned'
         /\ \A r \in Sessions : Len(inbox[r]) <= Len(inbox'[r])
<1>1. inbox \in [Sessions -> Seq(Rows)]
  BY DEF IInv, TypeOK
<1>2. inbox' \in [Sessions -> Seq(Rows)]
  BY <1>1 DEF Append1
<1>3. \A r \in Sessions : r # s => inbox'[r] = inbox[r]
  BY <1>1 DEF Append1
<1>4. inbox'[s] = Append(inbox[s], row)
  BY <1>1 DEF Append1
<1>5. Len(inbox'[s]) = Len(inbox[s]) + 1 /\ Len(inbox[s]) \in Nat
  BY <1>1, <1>4
<1>6. \A r \in Sessions : Len(inbox[r]) <= Len(inbox'[r])
  BY <1>1, <1>3, <1>5
<1>7. RowsAreSigned'
  <2> SUFFICES ASSUME NEW r \in Sessions, NEW i \in 1..Len(inbox'[r])
      PROVE  Signed(inbox[r][i])'
    BY DEF RowsAreSigned
  <2>1. CASE r = s /\ i = Len(inbox[s]) + 1
    <3>1. inbox'[r][i] = row
      BY <2>1, <1>4, <1>1
    <3> QED
      BY <3>1 DEF Signed
  <2>2. CASE ~(r = s /\ i = Len(inbox[s]) + 1)
    <3>1. i \in 1..Len(inbox[r])
      BY <2>2, <1>3, <1>5
    <3>2. inbox'[r][i] = inbox[r][i]
      BY <3>1, <1>1, <1>3, <1>4
    <3>3. inbox[r][i] \in Rows
      BY <1>1, <3>1
    <3>4. Signed(inbox[r][i])
      BY <3>1 DEF IInv, RowsAreSigned
    <3>5. inbox[r][i].src # None => inbox[r][i].src \in Sessions
      BY <3>3 DEF Rows
    <3> QED
      BY <3>2, <3>4, <3>5 DEF Signed
  <2> QED
    BY <2>1, <2>2
<1> QED
  BY <1>2, <1>6, <1>7

\* Batches and answers still point at rows when logs only grow.
LEMMA RefsStay ==
  ASSUME IInv, inbox' \in [Sessions -> Seq(Rows)],
         \A r \in Sessions : Len(inbox[r]) <= Len(inbox'[r]),
         \A r \in Sessions : turn'[r] = turn[r] \/ turn'[r] = 0, due' \subseteq due
  PROVE  RefsExist'
<1>1. inbox \in [Sessions -> Seq(Rows)] /\ turn \in [Sessions -> Nat]
  BY DEF IInv, TypeOK
<1>2. \A r \in Sessions : turn'[r] <= Len(inbox'[r])
  <2> TAKE r \in Sessions
  <2>1. turn[r] <= Len(inbox[r]) /\ Len(inbox[r]) <= Len(inbox'[r])
    BY DEF IInv, RefsExist
  <2>2. Len(inbox[r]) \in Nat /\ Len(inbox'[r]) \in Nat /\ turn[r] \in Nat
    BY <1>1
  <2>3. turn'[r] = turn[r] \/ turn'[r] = 0
    OBVIOUS
  <2> QED
    BY <2>1, <2>2, <2>3
<1>3. \A m \in due' : m.ref <= Len(inbox'[m.of])
  <2> TAKE m \in due'
  <2>1. m \in due /\ m.of \in Sessions /\ m.ref \in Nat
    BY DEF IInv, TypeOK, Messages
  <2>2. m.ref <= Len(inbox[m.of]) /\ Len(inbox[m.of]) <= Len(inbox'[m.of])
    BY <2>1 DEF IInv, RefsExist
  <2>3. Len(inbox[m.of]) \in Nat /\ Len(inbox'[m.of]) \in Nat
    BY <2>1, <1>1
  <2> QED
    BY <2>1, <2>2, <2>3
<1> QED
  BY <1>2, <1>3 DEF RefsExist

\* Owners and rows stay.
LEMMA SameRows ==
  ASSUME IInv, UNCHANGED <<owner, inbox>>
  PROVE  RowsAreSigned'
<1> SUFFICES ASSUME NEW r \in Sessions, NEW i \in 1..Len(inbox'[r])
    PROVE  Signed(inbox[r][i])'
  BY DEF RowsAreSigned
<1>1. Signed(inbox[r][i])
  BY DEF IInv, RowsAreSigned
<1> QED
  BY <1>1 DEF Signed

------------------------------------------------------------------------------
(* Chats and containers.                                                   *)

LEMMA ChatKeeps ==
  ASSUME IInv, NEW s \in Sessions, ChatWrites(s)
  PROVE  IInv'
<1> USE DEF ChatWrites
<1>1. Row(None, None) \in Rows /\ Signed(Row(None, None))'
  BY DEF Row, Rows, Signed
<1>2. inbox' \in [Sessions -> Seq(Rows)] /\ RowsAreSigned' /\ \A r \in Sessions : Len(inbox[r]) <= Len(inbox'[r])
  BY <1>1, OneMoreRow
<1>3. RefsExist'
  BY <1>2, RefsStay
<1>6. {wrote, chats, faults}' \subseteq Nat
  BY DEF IInv, TypeOK
<1>4. TypeOK'
  BY <1>2, <1>6 DEF IInv, TypeOK
<1>5. Unused' /\ CopiesFollow'
  BY DEF IInv, Unused, CopiesFollow, Targets
<1> QED
  BY <1>2, <1>3, <1>4, <1>5 DEF IInv

\* A session that is created knows nobody, and nobody's session changes hands.
LEMMA NewSession ==
  ASSUME IInv, NEW g \in Groups, g \notin unmade, Unborn # {},
         owner' = [owner EXCEPT ![Next_] = g], active' = active \cup {Next_},
         UNCHANGED <<groups, unmade, allowed, known>>
  PROVE  /\ Next_ \in Sessions /\ owner' \in [Sessions -> Groups \cup {None}] /\ active' \subseteq Sessions
         /\ \A r \in Sessions : owner[r] # None => owner'[r] = owner[r]
         /\ Unused' /\ CopiesFollow'
<1>1. Next_ \in Sessions /\ owner[Next_] = None
  BY NextIsUnborn DEF Unborn
<1>2. owner \in [Sessions -> Groups \cup {None}] /\ active \subseteq Sessions
  BY DEF IInv, TypeOK
<1>3. \A r \in Sessions : r # Next_ => owner'[r] = owner[r]
  BY <1>2
<1>4. owner'[Next_] = g
  BY <1>1, <1>2
<1>5. known[Next_] = {}
  BY <1>1 DEF IInv, Unused
<1>6. Unused'
  BY <1>1, <1>2, <1>3, <1>4, <1>5 DEF IInv, Unused
<1>7. CopiesFollow'
  <2> SUFFICES ASSUME NEW r \in active'
      PROVE  known'[r] \cap groups' \subseteq Targets(owner[r])'
    BY DEF CopiesFollow
  <2>1. CASE r = Next_
    BY <2>1, <1>5
  <2>2. CASE r # Next_
    <3>1. r \in active /\ owner'[r] = owner[r]
      BY <2>2, <1>2, <1>3
    <3> QED
      BY <3>1 DEF IInv, CopiesFollow, Targets
  <2> QED
    BY <2>1, <2>2
<1> QED
  BY <1>1, <1>2, <1>3, <1>6, <1>7

LEMMA OpensKeeps ==
  ASSUME IInv, NEW g \in Groups, ChatOpens(g)
  PROVE  IInv'
<1> USE DEF ChatOpens
<1>1. /\ Next_ \in Sessions /\ owner' \in [Sessions -> Groups \cup {None}] /\ active' \subseteq Sessions
      /\ \A r \in Sessions : owner[r] # None => owner'[r] = owner[r]
      /\ Unused' /\ CopiesFollow'
  <2>1. g \notin unmade
    BY DEF IInv, Unused
  <2> QED
    BY <2>1, NewSession
<1>2. Row(None, None) \in Rows /\ Signed(Row(None, None))'
  BY DEF Row, Rows, Signed
<1>3. inbox' \in [Sessions -> Seq(Rows)] /\ RowsAreSigned' /\ \A r \in Sessions : Len(inbox[r]) <= Len(inbox'[r])
  BY <1>1, <1>2, OneMoreRow
<1>4. RefsExist'
  BY <1>3, RefsStay
<1>6. {wrote, chats, faults}' \subseteq Nat
  BY DEF IInv, TypeOK
<1>5. TypeOK'
  BY <1>1, <1>3, <1>6 DEF IInv, TypeOK
<1> QED
  BY <1>1, <1>3, <1>4, <1>5 DEF IInv

LEMMA WakesKeeps ==
  ASSUME IInv, NEW s \in Sessions, Wakes(s)
  PROVE  IInv'
<1> USE DEF Wakes
<1>1. owner[s] \in Groups /\ Targets(owner[s]) \subseteq Groups
  BY DEF IInv, TypeOK, Unused, Targets
<1>2. TypeOK'
  BY <1>1 DEF IInv, TypeOK, Messages
<1>3. known \in [Sessions -> SUBSET Groups]
  BY DEF IInv, TypeOK
<1>4. Unused'
  BY <1>1, <1>3 DEF IInv, Unused, Targets
<1>5. CopiesFollow'
  BY <1>3 DEF IInv, CopiesFollow, Targets, TypeOK
<1>6. RowsAreSigned'
  BY SameRows
<1>7. RefsExist'
  BY DEF IInv, RefsExist
<1> QED
  BY <1>2, <1>4, <1>5, <1>6, <1>7 DEF IInv

\* What the containers do leaves the permissions alone.
LEMMA SamePerms ==
  ASSUME IInv, UNCHANGED perms
  PROVE  Unused' /\ CopiesFollow'
  BY DEF IInv, Unused, CopiesFollow, Targets, perms

LEMMA TakesKeeps ==
  ASSUME IInv, NEW s \in Sessions, Takes(s)
  PROVE  IInv'
<1> USE DEF Takes
<1>1. Unused' /\ CopiesFollow' /\ RowsAreSigned'
  BY SamePerms, SameRows DEF perms
<1>2. /\ inbox \in [Sessions -> Seq(Rows)] /\ turn \in [Sessions -> Nat] /\ taken \in [Sessions -> Nat]
      /\ Len(inbox[s]) \in Nat
  BY DEF IInv, TypeOK
<1>3. PICK first \in {turn[s], taken[s] + 1} \ {0} : turn' = [turn EXCEPT ![s] = first]
  OBVIOUS
<1>4. first \in Nat /\ first <= Len(inbox[s])
  BY <1>2 DEF IInv, RefsExist
<1>5. turn' \in [Sessions -> Nat] /\ taken' \in [Sessions -> Nat]
  BY <1>2, <1>3, <1>4
<1>6. TypeOK'
  BY <1>5 DEF IInv, TypeOK, Messages
<1>7. RefsExist'
  BY <1>2, <1>3, <1>4 DEF IInv, RefsExist
<1> QED
  BY <1>1, <1>6, <1>7 DEF IInv

LEMMA UndoneIsNumber ==
  ASSUME IInv, NEW s \in Sessions
  PROVE  Undone(s) \subseteq Nat
<1>1. turn[s] \in Nat /\ taken[s] \in Nat
  BY DEF IInv, TypeOK
<1> QED
  BY <1>1 DEF Undone

LEMMA DiesKeeps ==
  ASSUME IInv, NEW s \in Sessions, Dies(s)
  PROVE  IInv'
<1> USE DEF Dies, Fault
<1>1. Unused' /\ CopiesFollow' /\ RowsAreSigned'
  BY SamePerms, SameRows DEF perms
<1>2. inbox \in [Sessions -> Seq(Rows)] /\ turn \in [Sessions -> Nat] /\ taken \in [Sessions -> Nat] /\ faults \in Nat
  BY DEF IInv, TypeOK
<1>3. turn' \in [Sessions -> Nat] /\ taken' \in [Sessions -> Nat] /\ faults' \in Nat
  BY <1>2, UndoneIsNumber
<1>7. running' \subseteq Sessions /\ {wrote, chats, faults}' \subseteq Nat
  BY <1>3 DEF IInv, TypeOK
<1>4. TypeOK'
  BY <1>3, <1>7 DEF IInv, TypeOK
<1>5. \A r \in Sessions : turn'[r] = turn[r] \/ turn'[r] = 0
  BY <1>2
<1>6. RefsExist'
  BY <1>2, <1>5, RefsStay
<1> QED
  BY <1>1, <1>4, <1>6 DEF IInv

------------------------------------------------------------------------------
(* What an agent writes.                                                   *)

LEMMA RefExists ==
  ASSUME IInv, NEW s \in Sessions, NEW h \in Groups
  PROVE  InReplyTo(s, h) \in Nat /\ InReplyTo(s, h) <= Len(inbox[s])
<1>1. Len(inbox[s]) \in Nat /\ turn[s] \in Nat /\ turn[s] <= Len(inbox[s])
  BY DEF IInv, TypeOK, RefsExist
<1> DEFINE S == {i \in 1..Len(inbox[s]) : inbox[s][i].from = h}
<1>2. CASE S = {}
  BY <1>1, <1>2 DEF InReplyTo
<1>3. CASE S # {}
  <2>1. Last(S) \in S
    BY <1>1, <1>3, LastIsGreatest
  <2> QED
    BY <2>1, <1>1, <1>3 DEF InReplyTo
<1> QED
  BY <1>2, <1>3

LEMMA WritingKeeps ==
  ASSUME IInv, NEW s \in Sessions, NEW h \in Groups, NEW ref \in Nat, ref <= Len(inbox[s]),
         Writes(s, h, ref), turn' = turn \/ turn' = [turn EXCEPT ![s] = 0],
         UNCHANGED <<groups, unmade, owner, active, allowed, known, inbox, running, taken, chats, faults>>
  PROVE  IInv'
<1> DEFINE m == [of |-> s, to |-> h, ref |-> ref]
<1>1. Unused' /\ CopiesFollow' /\ RowsAreSigned'
  BY SamePerms, SameRows DEF perms
<1>2. m \in Messages
  BY DEF Messages
<1>3. due' = due \cup {m} /\ wrote' = wrote + 1
  BY DEF Writes
<1>4. turn \in [Sessions -> Nat] /\ due \subseteq Messages /\ wrote \in Nat
  BY DEF IInv, TypeOK
<1>5. turn' \in [Sessions -> Nat] /\ due' \subseteq Messages /\ wrote' \in Nat
  BY <1>2, <1>3, <1>4
<1>6. TypeOK'
  BY <1>5 DEF IInv, TypeOK
<1>7. \A r \in Sessions : turn'[r] <= Len(inbox'[r])
  <2> TAKE r \in Sessions
  <2>1. turn[r] <= Len(inbox[r]) /\ Len(inbox[r]) \in Nat
    BY DEF IInv, RefsExist, TypeOK
  <2>2. turn'[r] = turn[r] \/ turn'[r] = 0
    BY <1>4
  <2> QED
    BY <2>1, <2>2
<1>8. \A x \in due' : x.ref <= Len(inbox'[x.of])
  BY <1>3 DEF IInv, RefsExist
<1> QED
  BY <1>1, <1>6, <1>7, <1>8 DEF IInv, RefsExist

LEMMA AgentKeeps ==
  ASSUME IInv, NEW s \in Sessions, NEW h \in Groups, Replies(s, h) \/ Sends(s, h)
  PROVE  IInv'
<1>1. CASE Replies(s, h)
  <2>1. InReplyTo(s, h) \in Nat /\ InReplyTo(s, h) <= Len(inbox[s])
    BY RefExists
  <2> QED
    BY <1>1, <2>1, WritingKeeps DEF Replies
<1>2. CASE Sends(s, h)
  <2>1. 0 <= Len(inbox[s])
    BY DEF IInv, TypeOK
  <2> QED
    BY <1>2, <2>1, WritingKeeps DEF Sends
<1> QED
  BY <1>1, <1>2

LEMMA FailsKeeps ==
  ASSUME IInv, NEW s \in Sessions, Fails(s)
  PROVE  IInv'
<1>1. turn[s] \in 1..Len(inbox[s]) /\ inbox[s] \in Seq(Rows) /\ 0 <= Len(inbox[s])
  BY DEF Fails, IInv, TypeOK, RefsExist
<1>2. inbox[s][turn[s]] \in Rows
  BY <1>1
<1>3. inbox[s][turn[s]].from \in Groups
  BY <1>2 DEF Fails, Rows
<1> QED
  BY <1>1, <1>3, WritingKeeps DEF Fails

------------------------------------------------------------------------------
(* Routing and permissions.                                                *)

\* Where a message goes is a session of its target agent, or a new one.
LEMMA TargetIsThere ==
  ASSUME IInv, NEW m \in due, Live(m.to) # {} \/ Unborn # {}
  PROVE  \/ Target(m) \in Live(m.to)
         \/ Live(m.to) = {} /\ Target(m) = Next_ /\ Next_ \in Unborn
<1>1. active \subseteq Sessions
  BY DEF IInv, TypeOK
<1>2. Live(m.to) \in SUBSET (1..MaxSessions) /\ MaxSessions \in Nat
  BY <1>1 DEF Live, Sessions
<1>3. Live(m.to) # {} => Last(Live(m.to)) \in Live(m.to)
  BY <1>2, LastIsGreatest
<1>4. Unborn # {} => Next_ \in Unborn
  BY NextIsUnborn
<1> QED
  BY <1>3, <1>4 DEF Target

LEMMA RouteWritesKeeps ==
  ASSUME IInv, NEW m \in due, RouteWrites(m)
  PROVE  /\ owner' \in [Sessions -> Groups \cup {None}] /\ active' \subseteq Sessions
         /\ inbox' \in [Sessions -> Seq(Rows)] /\ Unused' /\ CopiesFollow' /\ RowsAreSigned'
         /\ \A r \in Sessions : Len(inbox[r]) <= Len(inbox'[r])
<1> USE DEF RouteWrites
<1>1. m.of \in Sessions /\ m.to \in Groups
  BY DEF IInv, TypeOK, Messages
<1>2. owner \in [Sessions -> Groups \cup {None}] /\ active \subseteq Sessions
  BY DEF IInv, TypeOK
<1>3. owner[m.of] \in Groups
  BY <1>1, <1>2 DEF IInv, Unused
<1>4. /\ Target(m) \in Sessions
      /\ owner' \in [Sessions -> Groups \cup {None}] /\ active' \subseteq Sessions /\ Unused' /\ CopiesFollow'
      /\ \A r \in Sessions : owner[r] # None => owner'[r] = owner[r]
  <2>1. CASE Target(m) \in Live(m.to)
    <3>1. Target(m) \in active /\ owner[Target(m)] = m.to
      BY <2>1 DEF Live
    <3>2. owner' = owner /\ active' = active
      BY <3>1, <1>2
    <3>3. Unused' /\ CopiesFollow'
      BY <3>2, SamePerms DEF perms
    <3> QED
      BY <3>1, <3>2, <3>3, <1>2
  <2>2. CASE Target(m) = Next_ /\ Next_ \in Unborn
    <3>1. m.to \notin unmade
      BY DEF Authorized, IInv, Unused
    <3> QED
      BY <2>2, <3>1, <1>1, NewSession
  <2> QED
    BY <2>1, <2>2, TargetIsThere
<1>5. Row(owner[m.of], m.of) \in Rows
  BY <1>1, <1>3 DEF Row, Rows
<1>6. owner'[m.of] = owner[m.of]
  BY <1>1, <1>3, <1>4
<1>7. ASSUME NEW row \in Rows, row = Row(owner[m.of], m.of)
      PROVE  Signed(row)'
  BY <1>3, <1>6, <1>7 DEF Signed, Row
<1>8. PICK row \in Rows : row = Row(owner[m.of], m.of)
  BY <1>5
<1>9. Append1(Target(m), row)
  BY <1>8
<1> QED
  BY <1>4, <1>7, <1>8, <1>9, OneMoreRow

LEMMA RoutesKeeps ==
  ASSUME IInv, NEW m \in due, Routes(m)
  PROVE  IInv'
<1> USE DEF Routes
<1>1. /\ owner' \in [Sessions -> Groups \cup {None}] /\ active' \subseteq Sessions
      /\ inbox' \in [Sessions -> Seq(Rows)] /\ Unused' /\ CopiesFollow' /\ RowsAreSigned'
      /\ \A r \in Sessions : Len(inbox[r]) <= Len(inbox'[r])
  BY RouteWritesKeeps
<1>2. RefsExist'
  BY <1>1, RefsStay
<1>3. due' \subseteq Messages /\ {wrote, chats, faults}' \subseteq Nat
  BY DEF IInv, TypeOK, RouteWrites
<1>4. TypeOK'
  BY <1>1, <1>3 DEF IInv, TypeOK, RouteWrites
<1> QED
  BY <1>1, <1>2, <1>4 DEF IInv

LEMMA CrashKeeps ==
  ASSUME IInv, NEW m \in due, RoutesAndCrashes(m)
  PROVE  IInv'
<1> USE DEF RoutesAndCrashes, Fault
<1>1. /\ owner' \in [Sessions -> Groups \cup {None}] /\ active' \subseteq Sessions
      /\ inbox' \in [Sessions -> Seq(Rows)] /\ Unused' /\ CopiesFollow' /\ RowsAreSigned'
      /\ \A r \in Sessions : Len(inbox[r]) <= Len(inbox'[r])
  BY RouteWritesKeeps
<1>2. RefsExist'
  BY <1>1, RefsStay
<1>3. taken' \in [Sessions -> Nat] /\ turn' \in [Sessions -> Nat]
  <2>1. UNION {Undone(s) : s \in Sessions} \subseteq Nat
    BY UndoneIsNumber
  <2> QED
    BY <2>1
<1>4. due' \subseteq Messages /\ running' \subseteq Sessions
  BY DEF IInv, TypeOK
<1>6. wrote' = wrote /\ chats' = chats /\ faults' = faults + 1
  BY DEF RouteWrites
<1>7. {wrote, chats, faults}' \subseteq Nat
  BY <1>6 DEF IInv, TypeOK
<1>5. TypeOK'
  BY <1>1, <1>3, <1>4, <1>7 DEF IInv, TypeOK, RouteWrites
<1> QED
  BY <1>1, <1>2, <1>5 DEF IInv

LEMMA RefusedKeeps ==
  ASSUME IInv, NEW m \in due, Refused(m)
  PROVE  IInv'
<1> USE DEF Refused
<1>1. Unused' /\ CopiesFollow' /\ RowsAreSigned'
  BY SamePerms, SameRows DEF perms
<1>2. RefsExist'
  BY DEF IInv, RefsExist
<1>3. TypeOK'
  BY DEF IInv, TypeOK, Messages
<1> QED
  BY <1>1, <1>2, <1>3 DEF IInv

\* Every session of g has a copy of the permissions that were just written.
LEMMA ProjectingKeeps ==
  ASSUME IInv, NEW g \in Groups, NEW T \in SUBSET Groups, Projected(g, T), T \cap unmade = {},
         allowed' \subseteq Groups \X Groups, \A p \in allowed' : p[2] \notin unmade,
         \A h \in Groups : h # g => Targets(h)' = Targets(h), Targets(g)' = T,
         UNCHANGED <<groups, unmade, owner, active, inbox, running, taken, turn, due, wrote, chats>>,
         faults' \in Nat
  PROVE  IInv'
<1>1. /\ known \in [Sessions -> SUBSET Groups] /\ owner \in [Sessions -> Groups \cup {None}]
      /\ active \subseteq Sessions
  BY DEF IInv, TypeOK
<1>2. known' \in [Sessions -> SUBSET Groups]
  BY <1>1 DEF Projected
<1>3. TypeOK'
  BY <1>2 DEF IInv, TypeOK, Messages
<1>4. Unused'
  <2>1. \A s \in Sessions : owner[s] = None => known'[s] = {}
    BY <1>1 DEF IInv, Unused, Projected, Live
  <2>2. \A s \in Sessions : known'[s] \cap unmade = {} /\ owner[s] \notin unmade
    BY DEF IInv, Unused, Projected
  <2> QED
    BY <2>1, <2>2 DEF IInv, Unused
<1>5. CopiesFollow'
  <2> SUFFICES ASSUME NEW s \in active
      PROVE  (known[s] \cap groups)' \subseteq Targets(owner[s])'
    BY DEF CopiesFollow
  <2>1. owner[s] \in Groups /\ s \in Sessions
    BY <1>1 DEF IInv, Unused
  <2>2. CASE owner[s] = g
    <3>1. known'[s] = T
      BY <2>1, <2>2 DEF Projected, Live
    <3> QED
      BY <3>1, <2>2 DEF Targets
  <2>3. CASE owner[s] # g
    <3>1. known'[s] = known[s]
      BY <2>1, <2>3 DEF Projected, Live
    <3>2. Targets(owner[s])' = Targets(owner[s])
      BY <2>1, <2>3 DEF Targets
    <3> QED
      BY <3>1, <3>2 DEF IInv, CopiesFollow
  <2> QED
    BY <2>2, <2>3
<1>6. RowsAreSigned' /\ RefsExist'
  BY SameRows DEF IInv, RefsExist
<1> QED
  BY <1>3, <1>4, <1>5, <1>6 DEF IInv

LEMMA AllowKeeps ==
  ASSUME IInv, NEW g \in Groups, NEW h \in Groups, Allow(g, h) \/ Forbid(g, h)
  PROVE  IInv'
<1>1. allowed \subseteq Groups \X Groups /\ groups \cap unmade = {} /\ faults \in Nat /\ groups \subseteq Groups
      /\ \A p \in allowed : p[2] \notin unmade
  BY DEF IInv, TypeOK, Unused
<1>2. \A x \in Groups : Targets(x) \subseteq Groups /\ Targets(x) \cap unmade = {}
  BY <1>1 DEF Targets
<1>3. CASE Allow(g, h)
  <2> USE DEF Allow
  <2>1. g \in groups /\ h \notin unmade /\ allowed' = allowed \cup {<<g, h>>}
    BY <1>3, <1>1
  <2>2. (Targets(g) \cup {h}) \cap unmade = {} /\ (Targets(g) \cup {h}) \in SUBSET Groups
    BY <1>2, <2>1
  <2>3. allowed' \subseteq Groups \X Groups /\ \A p \in allowed' : p[2] \notin unmade
    BY <1>1, <2>1
  <2>4. \A x \in Groups : x # g => Targets(x)' = Targets(x)
    BY <2>1 DEF Targets
  <2>5. Targets(g)' = Targets(g) \cup {h}
    BY <2>1 DEF Targets
  <2> QED
    BY <1>1, <1>3, <2>1, <2>2, <2>3, <2>4, <2>5, ProjectingKeeps
<1>4. CASE Forbid(g, h)
  <2> USE DEF Forbid, Fault
  <2>1. allowed' = allowed \ {<<g, h>>} /\ faults' \in Nat
    BY <1>4, <1>1
  <2>2. (Targets(g) \ {h}) \cap unmade = {} /\ (Targets(g) \ {h}) \in SUBSET Groups
    BY <1>2
  <2>3. allowed' \subseteq Groups \X Groups /\ \A p \in allowed' : p[2] \notin unmade
    BY <1>1, <2>1
  <2>4. \A x \in Groups : x # g => Targets(x)' = Targets(x)
    BY <2>1 DEF Targets
  <2>5. Targets(g)' = Targets(g) \ {h}
    BY <2>1 DEF Targets
  <2> QED
    BY <1>1, <1>4, <2>1, <2>2, <2>3, <2>4, <2>5, ProjectingKeeps
<1> QED
  BY <1>3, <1>4

\* The child is new, so no copy but the one that is renewed names it.
LEMMA CreatesKeeps ==
  ASSUME IInv, NEW s \in Sessions, NEW c \in Groups, CreatesAgent(s, c)
  PROVE  IInv'
<1> USE DEF CreatesAgent
<1>1. /\ known \in [Sessions -> SUBSET Groups] /\ owner \in [Sessions -> Groups \cup {None}]
      /\ groups \subseteq Groups /\ unmade \subseteq Groups /\ allowed \subseteq Groups \X Groups
      /\ {wrote, chats, faults} \subseteq Nat
  BY DEF IInv, TypeOK
<1>2. owner[s] \in Groups /\ s \in active /\ c \in unmade
  BY <1>1 DEF IInv, Unused
<1>3. Targets(owner[s]) \subseteq Groups /\ Targets(owner[s]) \cap unmade = {}
  BY <1>1 DEF IInv, Unused, Targets
<1>4. known' \in [Sessions -> SUBSET Groups]
  BY <1>1, <1>2, <1>3
<1>5. Row(owner[s], None) \in Rows /\ Signed(Row(owner[s], None))'
  BY <1>2 DEF Row, Rows, Signed
<1>6. inbox' \in [Sessions -> Seq(Rows)] /\ RowsAreSigned' /\ \A r \in Sessions : Len(inbox[r]) <= Len(inbox'[r])
  BY <1>5, OneMoreRow
<1>7. RefsExist'
  BY <1>6, RefsStay
<1>8. TypeOK'
  <2>1. groups' \subseteq Groups /\ unmade' \subseteq Groups /\ allowed' \subseteq Groups \X Groups
    BY <1>1, <1>2
  <2> QED
    BY <2>1, <1>1, <1>4, <1>6 DEF IInv, TypeOK, Messages
<1>9. Unused'
  <2>1. groups' \cap unmade' = {} /\ \A p \in allowed' : p[2] \notin unmade'
    <3>1. groups \cap unmade = {} /\ owner[s] \notin unmade /\ \A p \in allowed : p[2] \notin unmade
      BY DEF IInv, Unused
    <3>2. groups' = groups \cup {c} /\ unmade' = unmade \ {c}
          /\ allowed' = allowed \cup {<<owner[s], c>>, <<c, owner[s]>>}
      OBVIOUS
    <3> QED
      BY <3>1, <3>2
  <2>2. \A r \in Sessions : owner[r] = None => known'[r] = {}
    BY <1>1, <1>2 DEF IInv, Unused
  <2>3. \A r \in Sessions : known'[r] \cap unmade' = {} /\ owner'[r] \notin unmade'
    BY <1>1, <1>3 DEF IInv, Unused
  <2> QED
    BY <2>1, <2>2, <2>3 DEF IInv, Unused
<1>10. CopiesFollow'
  <2> SUFFICES ASSUME NEW r \in active
      PROVE  (known[r] \cap groups)' \subseteq Targets(owner[r])'
    BY DEF CopiesFollow
  <2>1. r \in Sessions
    BY DEF IInv, TypeOK
  <2>2. CASE r = s
    BY <2>2, <1>1, <1>2 DEF Targets
  <2>3. CASE r # s
    <3>1. known'[r] = known[r] /\ c \notin known[r]
      BY <2>1, <2>3, <1>1, <1>2 DEF IInv, Unused
    <3>2. Targets(owner[r]) \subseteq Targets(owner[r])'
      BY DEF Targets
    <3> QED
      BY <3>1, <3>2 DEF IInv, CopiesFollow
  <2> QED
    BY <2>2, <2>3
<1> QED
  BY <1>6, <1>7, <1>8, <1>9, <1>10 DEF IInv

LEMMA DeleteKeeps ==
  ASSUME IInv, NEW g \in Groups, DeleteGroup(g)
  PROVE  IInv'
<1> USE DEF DeleteGroup, Fault
<1>1. TypeOK'
  <2>1. groups' \subseteq Groups /\ active' \subseteq Sessions /\ allowed' \subseteq Groups \X Groups /\ faults' \in Nat
    BY DEF IInv, TypeOK
  <2> QED
    BY <2>1 DEF IInv, TypeOK, Messages
<1>2. Unused'
  BY DEF IInv, Unused
<1>3. CopiesFollow'
  <2> SUFFICES ASSUME NEW r \in active', NEW h \in (known[r] \cap groups)'
      PROVE  h \in Targets(owner[r])'
    BY DEF CopiesFollow
  <2>1. r \in active /\ owner[r] # g /\ h \in known[r] /\ h \in groups /\ h # g
    BY DEF Live
  <2>2. h \in Targets(owner[r])
    BY <2>1 DEF IInv, CopiesFollow
  <2> QED
    BY <2>1, <2>2 DEF Targets
<1>4. RowsAreSigned' /\ RefsExist'
  BY SameRows DEF IInv, RefsExist
<1> QED
  BY <1>1, <1>2, <1>3, <1>4 DEF IInv

LEMMA NextInv == IInv /\ [Next]_vars => IInv'
<1> SUFFICES ASSUME IInv, [Next]_vars
    PROVE  IInv'
  OBVIOUS
<1>1. ASSUME NEW s \in Sessions, ChatWrites(s) \/ Wakes(s) \/ Takes(s) \/ Dies(s) \/ Fails(s)
      PROVE  IInv'
  BY <1>1, ChatKeeps, WakesKeeps, TakesKeeps, DiesKeeps, FailsKeeps
<1>2. ASSUME NEW s \in Sessions, NEW g \in Groups, Replies(s, g) \/ Sends(s, g) \/ CreatesAgent(s, g)
      PROVE  IInv'
  BY <1>2, AgentKeeps, CreatesKeeps
<1>3. ASSUME NEW g \in Groups, ChatOpens(g) \/ DeleteGroup(g)
      PROVE  IInv'
  BY <1>3, OpensKeeps, DeleteKeeps
<1>4. ASSUME NEW g \in Groups, NEW h \in Groups, Allow(g, h) \/ Forbid(g, h)
      PROVE  IInv'
  BY <1>4, AllowKeeps
<1>5. ASSUME NEW m \in due, Routes(m) \/ RoutesAndCrashes(m) \/ Refused(m)
      PROVE  IInv'
  BY <1>5, RoutesKeeps, CrashKeeps, RefusedKeeps
<1>6. CASE UNCHANGED vars
  <2> USE <1>6 DEF vars
  <2>1. TypeOK' /\ Unused' /\ CopiesFollow'
    BY SamePerms DEF IInv, TypeOK, perms, Messages
  <2>2. RowsAreSigned' /\ RefsExist'
    BY SameRows DEF IInv, RefsExist
  <2> QED
    BY <2>1, <2>2 DEF IInv
<1> QED
  BY <1>1, <1>2, <1>3, <1>4, <1>5, <1>6 DEF Next

\* The inductive invariant holds in every reachable state; the theorems below read it off.
THEOREM Invariance == Spec => []IInv
  BY InitInv, NextInv, PTL DEF Spec

\* Every variable keeps its type.
THEOREM AgentRouteTypes == Spec => []TypeOK
  BY Invariance, PTL DEF IInv

\* A usable name in a running container's copy is one the central permissions hold.
THEOREM CopiesHoldNoMore == Spec => []KnownIsAllowed
<1>1. IInv => KnownIsAllowed
  BY DEF IInv, CopiesFollow, KnownIsAllowed
<1> QED
  BY <1>1, Invariance, PTL

------------------------------------------------------------------------------
(* Where a message lands.                                                  *)

\* Only routing takes a message out of due and writes a row.
LEMMA LandingIsRouting ==
  ASSUME IInv, [Next]_vars, NEW m \in due, NEW s \in Sessions, Lands(m, s)
  PROVE  m.of \in active /\ s = Target(m) /\ (Live(m.to) # {} \/ Unborn # {})
<1>1. m \notin due' /\ inbox'[s] # inbox[s]
  BY DEF Lands
<1>2. ASSUME NEW x \in due, Routes(x)
      PROVE  m = x
  BY <1>1, <1>2 DEF Routes
<1>3. Routes(m)
  <2>1. CASE UNCHANGED vars
    BY <2>1, <1>1 DEF vars
  <2>2. CASE Next
    <3>1. ASSUME NEW r \in Sessions, ChatWrites(r) \/ Wakes(r) \/ Takes(r) \/ Dies(r) \/ Fails(r)
          PROVE  FALSE
      BY <3>1, <1>1 DEF ChatWrites, Wakes, Takes, Dies, Fails, Writes
    <3>2. ASSUME NEW r \in Sessions, NEW g \in Groups, Replies(r, g) \/ Sends(r, g) \/ CreatesAgent(r, g)
          PROVE  FALSE
      BY <3>2, <1>1 DEF Replies, Sends, CreatesAgent, Writes
    <3>3. ASSUME NEW g \in Groups, ChatOpens(g) \/ DeleteGroup(g)
          PROVE  FALSE
      BY <3>3, <1>1 DEF ChatOpens, DeleteGroup
    <3>4. ASSUME NEW g \in Groups, NEW h \in Groups, Allow(g, h) \/ Forbid(g, h)
          PROVE  FALSE
      BY <3>4, <1>1 DEF Allow, Forbid
    <3>5. ASSUME NEW x \in due, Routes(x) \/ RoutesAndCrashes(x) \/ Refused(x)
          PROVE  Routes(m)
      BY <3>5, <1>1, <1>2 DEF RoutesAndCrashes, Refused
    <3> QED
      BY <2>2, <3>1, <3>2, <3>3, <3>4, <3>5 DEF Next
  <2> QED
    BY <2>1, <2>2
<1>4. inbox \in [Sessions -> Seq(Rows)]
  BY DEF IInv, TypeOK
<1>5. s = Target(m)
  BY <1>1, <1>3, <1>4 DEF Routes, RouteWrites, Append1
<1> QED
  BY <1>3, <1>5 DEF Routes, RouteWrites

\* An answer whose named session is there lands in it.
LEMMA NamedIsOrigin ==
  ASSUME NEW m \in due, Named(m) \in Live(m.to), active \subseteq Sessions
  PROVE  Target(m) = Named(m)
<1>1. Named(m) # None
  BY DEF Live
<1>2. Origin(m) = Named(m)
  BY <1>1 DEF Origin, Named
<1> QED
  BY <1>2 DEF Target

\* An answer returns to the session of the row it names, as long as that is there.
THEOREM AnswersGoBack == Spec => AnswersReturn
<1>1. IInv /\ [Next]_vars =>
        [\A m \in due : \A s \in Sessions :
           Lands(m, s) /\ Named(m) \in Live(m.to) => s = Named(m)]_vars
  <2> SUFFICES ASSUME IInv, [Next]_vars, NEW m \in due, NEW s \in Sessions,
                      Lands(m, s), Named(m) \in Live(m.to)
      PROVE  s = Named(m)
    OBVIOUS
  <2>1. s = Target(m)
    BY LandingIsRouting
  <2>2. active \subseteq Sessions
    BY DEF IInv, TypeOK
  <2> QED
    BY <2>1, <2>2, NamedIsOrigin
<1> QED
  BY <1>1, Invariance, PTL DEF Spec, AnswersReturn

\* The origin of a message is a partner, where there is one.
LEMMA OriginIsPartner ==
  ASSUME IInv, NEW m \in due, Partners(inbox[m.of], m.to) # {},
         m.ref = 0 \/ inbox[m.of][m.ref].from \in {m.to, None}
  PROVE  Origin(m) \in Partners(inbox[m.of], m.to)
<1> DEFINE log == inbox[m.of]
<1>1. m.of \in Sessions /\ m.ref \in Nat /\ log \in Seq(Rows) /\ Len(log) \in Nat /\ m.ref <= Len(log)
  BY DEF IInv, TypeOK, Messages, RefsExist
<1>2. From(log, m.to) \in SUBSET (1..Len(log)) /\ From(log, m.to) # {}
  BY DEF From, Partners
<1>3. Last(From(log, m.to)) \in From(log, m.to)
  BY <1>1, <1>2, LastIsGreatest
<1>4. CASE m.ref # 0 /\ log[m.ref].src # None
  <2>1. m.ref \in 1..Len(log) /\ Origin(m) = log[m.ref].src
    BY <1>1, <1>4 DEF Origin
  <2>2. Signed(log[m.ref])
    BY <1>1, <2>1 DEF IInv, RowsAreSigned
  <2>3. log[m.ref].from = m.to
    BY <1>4, <2>2 DEF Signed
  <2>4. m.ref \in From(log, m.to)
    BY <1>4, <2>1, <2>3 DEF From
  <2> QED
    BY <2>1, <2>4 DEF Partners
<1>5. CASE ~(m.ref # 0 /\ log[m.ref].src # None)
  <2>1. Origin(m) = log[Last(From(log, m.to))].src
    BY <1>2, <1>5 DEF Origin
  <2> QED
    BY <2>1, <1>3 DEF Partners
<1> QED
  BY <1>4, <1>5

\* A partner is a session of the agent it wrote for.
LEMMA PartnersAreOwned ==
  ASSUME IInv, NEW m \in due, NEW s \in Partners(inbox[m.of], m.to)
  PROVE  owner[s] = m.to
<1>1. PICK i \in From(inbox[m.of], m.to) : s = inbox[m.of][i].src
  BY DEF Partners
<1>2. m.of \in Sessions /\ i \in 1..Len(inbox[m.of]) /\ s # None /\ inbox[m.of][i].from = m.to
  BY <1>1 DEF From, IInv, TypeOK, Messages
<1>3. Signed(inbox[m.of][i])
  BY <1>2 DEF IInv, RowsAreSigned
<1> QED
  BY <1>1, <1>2, <1>3 DEF Signed

\* A message between agents with a conversation lands in a session that is part of it.
THEOREM ConversationsHold == Spec => StaysInConversation
<1>1. IInv /\ [Next]_vars =>
        [\A m \in due : \A s \in Sessions :
           LET partners == Partners(inbox[m.of], m.to) IN
             /\ Lands(m, s)
             /\ m.ref = 0 \/ inbox[m.of][m.ref].from \in {m.to, None}
             /\ partners # {} /\ partners \subseteq active
           => s \in partners]_vars
  <2> SUFFICES ASSUME IInv, [Next]_vars, NEW m \in due, NEW s \in Sessions, Lands(m, s),
                      m.ref = 0 \/ inbox[m.of][m.ref].from \in {m.to, None},
                      Partners(inbox[m.of], m.to) # {}, Partners(inbox[m.of], m.to) \subseteq active
      PROVE  s \in Partners(inbox[m.of], m.to)
    OBVIOUS
  <2>1. s = Target(m)
    BY LandingIsRouting
  <2>2. Origin(m) \in Partners(inbox[m.of], m.to)
    BY OriginIsPartner
  <2>3. Origin(m) \in Live(m.to)
    BY <2>2, PartnersAreOwned DEF Live
  <2> QED
    BY <2>1, <2>2, <2>3 DEF Target
<1> QED
  BY <1>1, Invariance, PTL DEF Spec, StaysInConversation
=============================================================================
