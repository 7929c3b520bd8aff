-------------------------- MODULE ContainersProofs --------------------------
(***************************************************************************)
(* What the host's two maps and its tokens guarantee, for any number of    *)
(* sessions, slots, commands and faults.  The invariant ties the three     *)
(* views of a container together: the entry of its session, the process    *)
(* that still owes an event, and the container itself.                     *)
(***************************************************************************)
EXTENDS Containers, TLAPS

Open == {"up", "failing", "gone"}

\* A slot is empty when it has neither process nor container.
Shape == \A p \in Procs : run[p] = None <=> cli[p] = "free" /\ box[p] = "none"

\* A process that owes an event holds the entry of its session.
Held == \A p \in Procs :
    cli[p] \in Open => run[p].of \in crossed \/ active[run[p].of] = p

\* Nothing is woken that has an entry.
WakeExcludes == \A s \in Sessions : wake[s] # None => active[s] = None

\* The process of a container that did not outlive a stop or the host is up.
LiveIsUp == \A p \in Live \ strays : cli[p] = "up"

DownIsFree == host \/ \A p \in Procs : cli[p] = "free"

\* Each version is a command's.
Counted == config <= commands /\ provider <= commands

IInv ==
    /\ TypeOK /\ Counted /\ Shape /\ Held /\ WakeExcludes /\ LiveIsUp /\ DownIsFree
    /\ EntriesEnd /\ TokensAreRevoked /\ ConfigReaches

USE NoneIsNew, Bounds

LEMMA InitInv == Init => IInv
  BY DEF Init, IInv, TypeOK, Counted, Shape, Held, WakeExcludes, LiveIsUp, DownIsFree, EntriesEnd, TokensAreRevoked,
         ConfigReaches, Versions, Start, Live, Running, Open

\* Steps of the two maps alone: calls of wakeContainer, the sweep's list, a spawn that throws.
LEMMA WakingKeeps ==
  ASSUME IInv,
         (\E s \in Sessions : Deliver(s) \/ SweepSession(s) \/ SpawnThrows(s)) \/ SweepLists
  PROVE  IInv'
<1>1. UNCHANGED <<active, settings, slots, token, comeback, host, commands, hist>>
  BY DEF Deliver, SweepSession, SpawnThrows, SweepLists, maps, rows, bounds, Fault
<1>2. /\ wake' \in [Sessions -> Versions \cup {None}]
      /\ \A s \in Sessions : wake'[s] # None => active[s] = None
  BY DEF Deliver, SweepSession, SpawnThrows, SweepLists, wakeContainer, IInv, TypeOK, WakeExcludes, Versions
<1>3. /\ listed' \in [Sessions -> Versions \cup {None}]
      /\ due' \subseteq Sessions /\ unread' \subseteq Sessions
      /\ faults' \in 0..MaxFaults
  BY DEF Deliver, SweepSession, SpawnThrows, SweepLists, IInv, TypeOK, Versions, Fault, rows, bounds
<1> QED
  BY <1>1, <1>2, <1>3 DEF IInv, TypeOK, Counted, Shape, Held, WakeExcludes, LiveIsUp, DownIsFree, EntriesEnd,
     TokensAreRevoked, ConfigReaches, Live, Running, settings, slots, hist

\* A spawn takes an empty slot and gives its session, which had none, an entry.
LEMMA SpawnKeeps ==
  ASSUME IInv, NEW s \in Sessions, NEW p \in Procs, SpawnStarts(s, p) \/ SpawnErrs(s, p)
  PROVE  IInv'
<1> USE DEF IInv
<1>1. PICK state \in {"up", "failing"} :
        /\ Spawned(s, p, state)
        /\ state = "up" => box' = [box EXCEPT ![p] = "asked"]
        /\ state = "failing" => box' = box
  BY DEF SpawnStarts, SpawnErrs
<1>2. cli[p] = "free" /\ box[p] = "none" /\ active[s] = None /\ wake[s] \in Versions /\ host
  BY <1>1 DEF Spawned, Shape, WakeExcludes, TypeOK
<1>3. TypeOK'
  <2>1. run' \in [Procs -> Start \cup {None}] /\ cli' \in [Procs -> {"free", "up", "failing", "errored", "gone"}]
    BY <1>1, <1>2 DEF Spawned, TypeOK, Start, settings
  <2>2. box' \in [Procs -> {"none", "asked", "running"}]
    BY <1>1 DEF TypeOK
  <2>3. /\ wake' \in [Sessions -> Versions \cup {None}] /\ active' \in [Sessions -> Procs \cup {None}]
        /\ token' \subseteq Procs
    BY <1>1 DEF Spawned, TypeOK
  <2>4. fresh' \subseteq Procs /\ faults' \in 0..MaxFaults
    <3>1. CASE SpawnStarts(s, p)
      BY <3>1 DEF SpawnStarts, TypeOK
    <3>2. CASE SpawnErrs(s, p)
      BY <3>2 DEF SpawnErrs, Fault, TypeOK
    <3> QED
      BY <3>1, <3>2
  <2> QED
    BY <2>1, <2>2, <2>3, <2>4, <1>1 DEF Spawned, TypeOK, settings, rows, hist
<1>4. /\ cli' = [cli EXCEPT ![p] = state] /\ active' = [active EXCEPT ![s] = p]
      /\ wake' = [wake EXCEPT ![s] = None] /\ token' = token \cup {p}
      /\ run' = [run EXCEPT ![p] = [of |-> s, conf |-> config, prov |-> wake[s]]]
      /\ UNCHANGED <<config, strays, crossed, host>>
  BY <1>1 DEF Spawned, settings, hist
<1>5. Shape'
  <2>1. [of |-> s, conf |-> config, prov |-> wake[s]] # None
    BY <1>2 DEF TypeOK, Start
  <2>2. run'[p] # None /\ cli'[p] # "free"
    BY <2>1, <1>4 DEF TypeOK
  <2>3. \A q \in Procs \ {p} : run'[q] = run[q] /\ cli'[q] = cli[q] /\ box'[q] = box[q]
    BY <1>1, <1>4 DEF TypeOK
  <2> QED
    BY <2>2, <2>3 DEF Shape
<1>6. Held'
  <2> SUFFICES ASSUME NEW q \in Procs, cli'[q] \in Open, run'[q].of \notin crossed
      PROVE  active'[run'[q].of] = q
    BY <1>4 DEF Held
  <2>1. CASE q = p
    BY <2>1, <1>4 DEF TypeOK
  <2>2. CASE q # p
    <3>1. cli[q] \in Open /\ run'[q] = run[q]
      BY <2>2, <1>4 DEF TypeOK
    <3>2. active[run[q].of] = q /\ run[q].of \in Sessions
      BY <3>1 DEF Held, Shape, TypeOK, Start, Open
    <3>3. run[q].of # s
      BY <3>2, <1>2
    <3> QED
      BY <3>1, <3>2, <3>3, <1>4 DEF TypeOK
  <2> QED
    BY <2>1, <2>2
<1>7. WakeExcludes'
  BY <1>4 DEF WakeExcludes, TypeOK
<1>8. LiveIsUp' /\ DownIsFree'
  BY <1>1, <1>2, <1>4 DEF LiveIsUp, DownIsFree, Live, TypeOK
<1>9. EntriesEnd'
  <2> SUFFICES ASSUME NEW t \in Sessions, active'[t] # None
      PROVE  cli'[active'[t]] \in Open /\ run'[active'[t]].of = t
    BY DEF EntriesEnd, Running, Open
  <2>1. CASE t = s
    BY <2>1, <1>4 DEF TypeOK, Open
  <2>2. CASE t # s
    <3>1. active'[t] = active[t] /\ cli[active[t]] \in Open /\ run[active[t]].of = t /\ active[t] \in Procs
      BY <2>2, <1>4 DEF EntriesEnd, Running, TypeOK, Open
    <3>2. active[t] # p
      BY <3>1, <1>2 DEF Open
    <3> QED
      BY <3>1, <3>2, <1>4 DEF TypeOK
  <2> QED
    BY <2>1, <2>2
<1>10. TokensAreRevoked'
  BY <1>4 DEF TokensAreRevoked, TypeOK
<1>11. ConfigReaches' /\ Counted'
  BY <1>1, <1>4 DEF Spawned, ConfigReaches, Counted, TypeOK, settings
<1> QED
  BY <1>3, <1>5, <1>6, <1>7, <1>8, <1>9, <1>10, <1>11

\* A container starts, a runner polls: nothing the host holds changes.
LEMMA ContainerKeeps ==
  ASSUME IInv, NEW p \in Procs, Container(p)
  PROVE  IInv'
<1>1. UNCHANGED <<maps, settings, run, cli, token, comeback, host, bounds, hist>>
  BY DEF Container, ContainerStarts, Poll
<1>2. /\ box' \in [Procs -> {"none", "asked", "running"}]
      /\ \A q \in Procs : box'[q] = "none" <=> box[q] = "none"
  BY DEF Container, ContainerStarts, Poll, IInv, TypeOK
<1>3. due' \subseteq Sessions /\ unread' \subseteq Sessions /\ fresh' \subseteq Procs
  BY DEF Container, ContainerStarts, Poll, IInv, TypeOK, rows
<1> QED
  BY <1>1, <1>2, <1>3 DEF IInv, TypeOK, Counted, Shape, Held, WakeExcludes, LiveIsUp, DownIsFree, EntriesEnd,
     TokensAreRevoked, ConfigReaches, Live, Running, maps, settings, bounds, hist

\* The container of p ends by itself: its process, if up, will close.
LEMMA DeathKeeps ==
  ASSUME IInv, NEW p \in Procs, ContainerDies(p)
  PROVE  IInv'
<1> USE DEF IInv
<1>1. /\ box' = [box EXCEPT ![p] = "none"] /\ run' = Emptied(cli', box')
      /\ cli' = [cli EXCEPT ![p] = IF cli[p] = "up" THEN "gone" ELSE cli[p]]
      /\ strays' = strays \ {p} /\ fresh' = fresh \ {p}
      /\ UNCHANGED <<active, wake, listed, config, provider, token, comeback, due, unread, host, commands, crossed>>
      /\ faults' \in 0..MaxFaults
  BY DEF ContainerDies, Fault, TypeOK, maps, settings, rows
<1>2. /\ cli' \in [Procs -> {"free", "up", "failing", "errored", "gone"}]
      /\ box' \in [Procs -> {"none", "asked", "running"}]
      /\ \A q \in Procs : /\ cli'[q] \in Open <=> cli[q] \in Open
                          /\ cli'[q] = "free" <=> cli[q] = "free"
                          /\ cli'[q] = "up" => cli[q] = "up" /\ q # p
                          /\ q # p => cli'[q] = cli[q] /\ box'[q] = box[q]
                          /\ box'[q] # "none" => box[q] # "none"
  BY <1>1 DEF TypeOK, Open
<1>3. /\ run' \in [Procs -> Start \cup {None}] /\ Shape'
      /\ \A q \in Procs : run'[q] # None => run'[q] = run[q]
  <2>1. \A q \in Procs : run[q] = None => cli'[q] = "free" /\ box'[q] = "none"
    BY <1>2 DEF Shape
  <2>2. run \in [Procs -> Start \cup {None}]
    BY DEF TypeOK
  <2>3. \A q \in Procs : run'[q] = IF cli'[q] = "free" /\ box'[q] = "none" THEN None ELSE run[q]
    BY <1>1 DEF Emptied
  <2>4. run' \in [Procs -> Start \cup {None}]
    BY <2>2, <1>1 DEF Emptied
  <2> QED
    BY <2>1, <2>3, <2>4 DEF Shape
<1>4. \A q \in Procs : cli'[q] # "free" => run'[q] = run[q]
  BY <1>3 DEF Shape
<1>5. TypeOK'
  BY <1>1, <1>2, <1>3 DEF TypeOK
<1>6. Held' /\ WakeExcludes' /\ DownIsFree' /\ ConfigReaches' /\ Counted'
  <2>1. Held'
    <3> SUFFICES ASSUME NEW q \in Procs, cli'[q] \in Open
        PROVE  run'[q].of \in crossed' \/ active'[run'[q].of] = q
      BY DEF Held
    <3>1. cli[q] \in Open /\ run'[q] = run[q]
      BY <1>2, <1>4 DEF Open
    <3> QED
      BY <3>1, <1>1 DEF Held
  <2>2. WakeExcludes' /\ DownIsFree'
    BY <1>1, <1>2 DEF WakeExcludes, DownIsFree
  <2>3. ConfigReaches' /\ Counted'
    <3>1. \A q \in Procs : cli'[q] = "up" => cli[q] = "up" /\ run'[q] = run[q]
      BY <1>2, <1>4
    <3>2. ConfigReaches'
      BY <3>1, <1>1 DEF ConfigReaches
    <3>3. Counted'
      BY <1>1 DEF Counted
    <3> QED
      BY <3>2, <3>3
  <2> QED
    BY <2>1, <2>2, <2>3
<1>7. LiveIsUp'
  BY <1>1, <1>2 DEF LiveIsUp, Live, TypeOK
<1>8. EntriesEnd' /\ TokensAreRevoked'
  <2>1. \A q \in Procs : cli[q] \in Open => cli'[q] \in Open /\ run'[q] = run[q]
    BY <1>2, <1>4 DEF Open
  <2>2. \A t \in Running : active[t] \in Procs
    BY DEF Running, TypeOK
  <2>3. token' = token /\ token \subseteq Procs /\ active' = active
    BY <1>1 DEF TypeOK
  <2> QED
    BY <2>1, <2>2, <2>3 DEF EntriesEnd, TokensAreRevoked, Running, Open
<1> QED
  BY <1>3, <1>5, <1>6, <1>7, <1>8

\* An event of p takes down the entry of its session.  If another process held that entry,
\* the session is among the crossed ones from then on.
LEMMA ReportKeeps ==
  ASSUME IInv, NEW p \in Procs, Report(p)
  PROVE  IInv'
<1> USE DEF IInv
<1> DEFINE s == run[p].of
<1>1. /\ run[p] # None /\ s \in Sessions /\ cli[p] \in {"failing", "errored", "gone"} /\ host
  BY DEF Report, ProcessErrors, ProcessCloses, Shape, TypeOK, Start
<1>2. /\ active' = [active EXCEPT ![s] = None] /\ token' = token \ {p}
      /\ crossed' = IF active[s] \in {None, p} THEN crossed ELSE crossed \cup {s}
      /\ UNCHANGED <<listed, config, provider, box, fresh, due, unread, host, commands, faults, strays>>
  BY DEF Report, ProcessErrors, ProcessCloses, Unregister, Cleared, Revoked, settings, rows, bounds
<1>3. PICK c \in {"errored", "free"} : cli' = [cli EXCEPT ![p] = c]
  BY DEF Report, ProcessErrors, ProcessCloses
<1>4. \A q \in Procs : /\ q # p => cli'[q] = cli[q]
                      /\ cli'[p] \notin Open
  BY <1>3 DEF TypeOK, Open
<1>5. /\ run' \in [Procs -> Start \cup {None}] /\ Shape'
      /\ \A q \in Procs : run'[q] # None => run'[q] = run[q]
  <2>1. CASE ProcessErrors(p)
    <3>1. run' = run /\ cli' = [cli EXCEPT ![p] = "errored"]
      BY <2>1 DEF ProcessErrors
    <3> QED
      BY <3>1, <1>1, <1>2 DEF Shape, TypeOK
  <2>2. CASE ProcessCloses(p)
    <3>1. run' = Emptied(cli', box) /\ cli' = [cli EXCEPT ![p] = "free"]
      BY <2>2 DEF ProcessCloses
    <3>2. run \in [Procs -> Start \cup {None}]
      BY DEF TypeOK
    <3>3. \A q \in Procs : run'[q] = IF cli'[q] = "free" /\ box[q] = "none" THEN None ELSE run[q]
      BY <3>1 DEF Emptied
    <3>4. run' \in [Procs -> Start \cup {None}]
      BY <3>1, <3>2 DEF Emptied
    <3>5. \A q \in Procs : run[q] = None => cli'[q] = "free" /\ box[q] = "none"
      BY <1>1, <1>4 DEF Shape
    <3> QED
      BY <3>3, <3>4, <3>5, <1>2 DEF Shape
  <2> QED
    BY <2>1, <2>2 DEF Report
<1>6. /\ wake' \in [Sessions -> Versions \cup {None}] /\ comeback' \subseteq Procs /\ WakeExcludes'
  <2>1. \A t \in Sessions : active'[t] # None => active[t] # None
    BY <1>2, <1>1 DEF TypeOK
  <2>2. CASE ProcessErrors(p)
    BY <2>1, <2>2 DEF ProcessErrors, WakeExcludes, TypeOK
  <2>3. CASE ProcessCloses(p)
    <3>1. /\ wake' = wake \/ (active'[s] = None /\ wake' = [wake EXCEPT ![s] = provider])
          /\ comeback' = comeback \ {p}
      BY <2>3 DEF ProcessCloses, wakeContainer
    <3> QED
      BY <3>1, <2>1, <1>1 DEF WakeExcludes, TypeOK
  <2> QED
    BY <2>2, <2>3 DEF Report
<1>7. TypeOK'
  BY <1>1, <1>2, <1>3, <1>5, <1>6 DEF TypeOK
<1>8. \A q \in Procs : cli'[q] # "free" => run'[q] = run[q] /\ run[q].of \in Sessions
  BY <1>5 DEF Shape, TypeOK, Start
<1>9. Held'
  <2> SUFFICES ASSUME NEW q \in Procs, cli'[q] \in Open, run'[q].of \notin crossed'
      PROVE  active'[run'[q].of] = q
    BY DEF Held
  <2>1. q # p /\ cli[q] \in Open /\ run'[q] = run[q] /\ run[q].of \in Sessions
    BY <1>4, <1>8 DEF Open
  <2>2. active[run[q].of] = q
    BY <2>1, <1>2 DEF Held
  <2>3. run[q].of # s
    BY <2>1, <2>2, <1>2
  <2> QED
    BY <2>1, <2>2, <2>3, <1>1, <1>2 DEF TypeOK
<1>10. LiveIsUp' /\ DownIsFree' /\ ConfigReaches' /\ Counted'
  BY <1>1, <1>2, <1>3, <1>4, <1>8 DEF LiveIsUp, DownIsFree, ConfigReaches, Counted, Live, Open, TypeOK
<1>11. EntriesEnd'
  <2> SUFFICES ASSUME NEW t \in Sessions, active'[t] # None
      PROVE  cli'[active'[t]] \in Open /\ run'[active'[t]].of = t
    BY DEF EntriesEnd, Running, Open
  <2>1. t # s /\ active'[t] = active[t] /\ active[t] \in Procs
    BY <1>1, <1>2 DEF TypeOK
  <2>2. cli[active[t]] \in Open /\ run[active[t]].of = t
    BY <2>1 DEF EntriesEnd, Running, Open
  <2>3. active[t] # p
    BY <2>1, <2>2
  <2> QED
    BY <2>1, <2>2, <2>3, <1>4, <1>8 DEF Open
<1>12. TokensAreRevoked'
  BY <1>2, <1>4 DEF TokensAreRevoked, TypeOK
<1> QED
  BY <1>5, <1>6, <1>7, <1>9, <1>10, <1>11, <1>12

\* What killContainers does: the clients of the running containers go, and a container that
\* survives is a stray.
LEMMA KillFacts ==
  ASSUME IInv, NEW S \in SUBSET Sessions, NEW back \in BOOLEAN, killContainers(S, back)
  PROVE  /\ cli' \in [Procs -> {"free", "up", "failing", "errored", "gone"}]
         /\ box' \in [Procs -> {"none", "asked", "running"}]
         /\ fresh' \subseteq Procs /\ strays' \subseteq Procs /\ comeback' \subseteq Procs
         /\ faults' \in 0..MaxFaults
         /\ \A q \in Procs :
              /\ cli'[q] \in Open <=> cli[q] \in Open
              /\ cli'[q] = "free" <=> cli[q] = "free"
              /\ cli'[q] = "up" => cli[q] = "up" /\ q \notin {active[s] : s \in S}
              /\ cli[q] = "free" => box'[q] = box[q]
              /\ box'[q] # "none" /\ q \notin strays' =>
                     box[q] # "none" /\ q \notin strays /\ cli'[q] = cli[q]

<1> USE DEF IInv
<1> DEFINE K == {active[s] : s \in S} \ {None}
<1>1. PICK lost \in SUBSET K : \E alive \in SUBSET (lost \cap Live) :
        /\ UNCHANGED faults \/ Fault
        /\ cli' = [p \in Procs |-> IF p \in K /\ cli[p] = "up" THEN "gone" ELSE cli[p]]
        /\ box' = [p \in Procs |-> IF p \in K \ alive THEN "none" ELSE box[p]]
        /\ fresh' = fresh \ (K \ alive)
        /\ strays' = strays \cup alive
        /\ comeback' = IF back THEN comeback \cup K ELSE comeback
  BY DEF killContainers, Killed
<1>2. PICK alive \in SUBSET (lost \cap Live) :
        /\ UNCHANGED faults \/ Fault
        /\ cli' = [p \in Procs |-> IF p \in K /\ cli[p] = "up" THEN "gone" ELSE cli[p]]
        /\ box' = [p \in Procs |-> IF p \in K \ alive THEN "none" ELSE box[p]]
        /\ fresh' = fresh \ (K \ alive)
        /\ strays' = strays \cup alive
        /\ comeback' = IF back THEN comeback \cup K ELSE comeback
  BY <1>1
<1>3. K \subseteq Procs
  BY DEF TypeOK
<1>4. \A q \in K : cli[q] \in Open
  BY DEF EntriesEnd, Running, Open
<1>5. faults' \in 0..MaxFaults
  BY <1>2 DEF Fault, TypeOK
<1>6. /\ cli' \in [Procs -> {"free", "up", "failing", "errored", "gone"}]
      /\ box' \in [Procs -> {"none", "asked", "running"}]
      /\ fresh' \subseteq Procs /\ strays' \subseteq Procs /\ comeback' \subseteq Procs
  BY <1>2, <1>3 DEF TypeOK
<1> QED
  BY <1>2, <1>3, <1>4, <1>5, <1>6 DEF TypeOK, Live, Open

\* What a kill leaves of the invariant, whatever else the command stores.
LEMMA KillKeeps ==
  ASSUME IInv, NEW S \in SUBSET Sessions, NEW back \in BOOLEAN, killContainers(S, back),
         UNCHANGED <<active, wake, run, token, host, crossed>>
  PROVE  Shape' /\ Held' /\ WakeExcludes' /\ LiveIsUp' /\ DownIsFree' /\ EntriesEnd' /\ TokensAreRevoked'
<1> USE DEF IInv
<1>1. \A q \in Procs :
        /\ cli'[q] \in Open <=> cli[q] \in Open
        /\ cli'[q] = "free" <=> cli[q] = "free"
        /\ cli[q] = "free" => box'[q] = box[q]
        /\ box'[q] # "none" /\ q \notin strays' => box[q] # "none" /\ q \notin strays /\ cli'[q] = cli[q]
  BY KillFacts
<1>2. Shape' /\ Held' /\ WakeExcludes' /\ DownIsFree'
  BY <1>1 DEF Shape, Held, WakeExcludes, DownIsFree
<1>3. LiveIsUp'
  BY <1>1 DEF LiveIsUp, Live
<1>4. EntriesEnd' /\ TokensAreRevoked'
  <2>1. \A t \in Running : active[t] \in Procs
    BY DEF Running, TypeOK
  <2>2. token \subseteq Procs
    BY DEF TypeOK
  <2> QED
    BY <1>1, <2>1, <2>2 DEF EntriesEnd, TokensAreRevoked, Running, Open
<1> QED
  BY <1>2, <1>3, <1>4

\* A change of configuration stops every process that has an entry, and an uncrossed process
\* that is up has one.
LEMMA CommandKeeps ==
  ASSUME IInv, Commanded
  PROVE  IInv'
<1> USE DEF IInv
<1>1. PICK S \in SUBSET Sessions, back \in BOOLEAN :
        /\ killContainers(S, back)
        /\ config' = config \/ (config' = config + 1 /\ S = Sessions)
  BY DEF Commanded, Restart, ChangeConfig, ChangeProvider, settings
<1>2. /\ UNCHANGED <<active, wake, listed, run, token, due, host, crossed>>
      /\ commands < MaxCommands /\ commands' = commands + 1
  BY DEF Commanded, Restart, ChangeConfig, ChangeProvider, Command, maps, rows
<1>3. /\ unread' \subseteq Sessions
      /\ config' \in {config, config + 1} /\ provider' \in {provider, provider + 1}
  BY DEF Commanded, Restart, ChangeConfig, ChangeProvider, Running, TypeOK, settings, rows
<1>4. Counted' /\ TypeOK'
  <2>1. Counted'
    BY <1>2, <1>3 DEF Counted, TypeOK, Versions
  <2>2. config' \in Versions /\ provider' \in Versions /\ commands' \in Versions
    BY <2>1, <1>2, <1>3 DEF Counted, TypeOK, Versions
  <2>3. /\ cli' \in [Procs -> {"free", "up", "failing", "errored", "gone"}]
        /\ box' \in [Procs -> {"none", "asked", "running"}]
        /\ fresh' \subseteq Procs /\ strays' \subseteq Procs /\ comeback' \subseteq Procs
        /\ faults' \in 0..MaxFaults
    BY <1>1, KillFacts
  <2> QED
    BY <2>1, <2>2, <2>3, <1>2, <1>3 DEF TypeOK
<1>5. Shape' /\ Held' /\ WakeExcludes' /\ LiveIsUp' /\ DownIsFree' /\ EntriesEnd' /\ TokensAreRevoked'
  BY <1>1, <1>2, KillKeeps
<1>6. ConfigReaches'
  <2> SUFFICES ASSUME NEW p \in Procs, cli'[p] = "up", run[p].of \notin crossed
      PROVE  run[p].conf = config'
    BY <1>2 DEF ConfigReaches
  <2>1. cli[p] = "up" /\ p \notin {active[s] : s \in S}
    BY <1>1, KillFacts
  <2>2. active[run[p].of] = p /\ run[p].of \in Sessions
    BY <2>1 DEF Held, Shape, TypeOK, Start, Open
  <2>3. S # Sessions
    BY <2>1, <2>2
  <2> QED
    BY <2>1, <2>3, <1>1 DEF ConfigReaches
<1> QED
  BY <1>4, <1>5, <1>6

\* With the host its maps, its tokens and its child processes go; what runs on is a stray.
LEMMA CrashKeeps == IInv /\ HostCrashes => IInv'
<1> SUFFICES ASSUME IInv, HostCrashes
    PROVE  IInv'
  OBVIOUS
<1> USE DEF IInv
<1>1. /\ host' = FALSE /\ token' = {} /\ comeback' = {} /\ strays' = Live /\ box' = box
      /\ active' = [s \in Sessions |-> None] /\ wake' = [s \in Sessions |-> None]
      /\ listed' = [s \in Sessions |-> None] /\ cli' = [p \in Procs |-> "free"]
      /\ UNCHANGED <<config, provider, fresh, due, unread, commands, crossed>>
      /\ faults' \in 0..MaxFaults
  BY DEF HostCrashes, Fault, TypeOK, settings, rows
<1>2. \A q \in Procs : run'[q] = IF box[q] = "none" THEN None ELSE run[q]
  BY <1>1 DEF HostCrashes, Emptied
<1>3. run' \in [Procs -> Start \cup {None}]
  BY DEF HostCrashes, Emptied, TypeOK
<1>4. TypeOK' /\ Counted'
  BY <1>1, <1>3 DEF TypeOK, Counted, Live
<1>5. Shape'
  BY <1>1, <1>2 DEF Shape
<1>6. Held' /\ WakeExcludes' /\ DownIsFree' /\ LiveIsUp' /\ ConfigReaches'
  BY <1>1 DEF Held, WakeExcludes, DownIsFree, LiveIsUp, Live, ConfigReaches, Open
<1>7. EntriesEnd' /\ TokensAreRevoked'
  BY <1>1 DEF EntriesEnd, TokensAreRevoked, Running
<1> QED
  BY <1>4, <1>5, <1>6, <1>7

LEMMA StartKeeps == IInv /\ HostStarts => IInv'
<1> SUFFICES ASSUME IInv, HostStarts
    PROVE  IInv'
  OBVIOUS
<1> USE DEF IInv
<1>1. /\ ~host /\ host' = TRUE /\ run' = Emptied(cli, box')
      /\ fresh' = {p \in fresh : box'[p] # "none"} /\ strays' = {p \in strays : box'[p] # "none"}
      /\ UNCHANGED <<active, wake, listed, config, provider, cli, token, comeback, due, unread, commands, crossed>>
  BY DEF HostStarts, maps, settings, rows
<1>2. /\ box' \in [Procs -> {"none", "asked", "running"}] /\ faults' \in 0..MaxFaults
      /\ \A q \in Procs : box'[q] # "none" => box[q] # "none"
  BY DEF HostStarts, cleanupOrphans, Fault, TypeOK
<1>3. \A q \in Procs : run'[q] = IF cli[q] = "free" /\ box'[q] = "none" THEN None ELSE run[q]
  BY <1>1 DEF Emptied
<1>4. run' \in [Procs -> Start \cup {None}]
  BY <1>1 DEF Emptied, TypeOK
<1>5. \A q \in Procs : cli[q] = "free"
  BY <1>1 DEF DownIsFree
<1>6. TypeOK' /\ Counted'
  BY <1>1, <1>2, <1>4 DEF TypeOK, Counted
<1>7. Shape'
  BY <1>1, <1>2, <1>3 DEF Shape
<1>8. Held' /\ WakeExcludes' /\ DownIsFree' /\ LiveIsUp' /\ ConfigReaches'
  BY <1>1, <1>2, <1>5 DEF Held, WakeExcludes, DownIsFree, LiveIsUp, Live, ConfigReaches, Open
<1>9. EntriesEnd' /\ TokensAreRevoked'
  <2>1. Running = {} /\ token = {}
    <3>1. \A t \in Running : active[t] \in Procs
      BY DEF Running, TypeOK
    <3>2. token \subseteq Procs
      BY DEF TypeOK
    <3> QED
      BY <3>1, <3>2, <1>5 DEF EntriesEnd, TokensAreRevoked
  <2>2. Running' = {} /\ token' = {}
    BY <2>1, <1>1 DEF Running
  <2> QED
    BY <2>2 DEF EntriesEnd, TokensAreRevoked
<1> QED
  BY <1>6, <1>7, <1>8, <1>9

LEMMA NextInv == IInv /\ [Next]_vars => IInv'
<1> SUFFICES ASSUME IInv, [Next]_vars
    PROVE  IInv'
  OBVIOUS
<1>1. ASSUME NEW s \in Sessions, Deliver(s) \/ SweepSession(s) \/ SpawnThrows(s)
      PROVE  IInv'
  BY <1>1, WakingKeeps
<1>2. CASE SweepLists
  BY <1>2, WakingKeeps
<1>3. ASSUME NEW s \in Sessions, NEW p \in Procs, SpawnStarts(s, p) \/ SpawnErrs(s, p)
      PROVE  IInv'
  BY <1>3, SpawnKeeps
<1>4. ASSUME NEW p \in Procs, Report(p) \/ Container(p) \/ ContainerDies(p)
      PROVE  IInv'
  BY <1>4, ReportKeeps, ContainerKeeps, DeathKeeps
<1>5. CASE Commanded
  BY <1>5, CommandKeeps
<1>6. CASE HostCrashes \/ HostStarts
  BY <1>6, CrashKeeps, StartKeeps
<1>7. CASE UNCHANGED vars
  BY <1>7 DEF vars, maps, settings, slots, rows, bounds, hist, IInv, TypeOK, Counted, Shape, Held, WakeExcludes,
     LiveIsUp, DownIsFree, EntriesEnd, TokensAreRevoked, ConfigReaches, Live, Running
<1> QED
  BY <1>1, <1>2, <1>3, <1>4, <1>5, <1>6, <1>7 DEF Next, Spawn

\* The inductive invariant holds in every reachable state; the theorems below read it off.
THEOREM Invariance == Spec => []IInv
  BY InitInv, NextInv, PTL DEF Spec

\* Every variable keeps its type.
THEOREM ContainerTypes == Spec => []TypeOK
  BY Invariance, PTL DEF IInv

\* The entry of a session always names a process that will take it down.
THEOREM EntriesAreTakenDown == Spec => []EntriesEnd
  BY Invariance, PTL DEF IInv

\* No token outlives the process whose events revoke it.
THEOREM NoTokenLeaks == Spec => []TokensAreRevoked
  BY Invariance, PTL DEF IInv

\* A container that holds a token has a process that holds its session's entry, and a session has one.
THEOREM OneHolderOfTheToken == Spec => []OneHolder
<1>1. IInv => OneHolder
  BY DEF IInv, OneHolder, TokensAreRevoked, Held, Open, Live
<1> QED
  BY <1>1, Invariance, PTL

\* The same for the containers that did not outlive a stop or the host.
THEOREM OneContainerEach == Spec => []OneContainer
<1>1. IInv => OneContainer
  BY DEF IInv, OneContainer, LiveIsUp, Held, Open, Live
<1> QED
  BY <1>1, Invariance, PTL

\* A process that is up was started with the configuration that is stored now.
THEOREM ConfigIsCurrent == Spec => []ConfigReaches
  BY Invariance, PTL DEF IInv
=============================================================================
