----------------------------- MODULE Containers -----------------------------
(***************************************************************************)
(* The containers of one agent group: waking and starting them, the two    *)
(* maps the host keeps about them (the running container of a session, and *)
(* the wakes in flight), the token each of them is given, and the changes  *)
(* of configuration that stop the running ones.                            *)
(*                                                                         *)
(* The host knows a container only through the process of the command line *)
(* client that started it.  The two are apart here: cli is that child      *)
(* process with the events it still owes the host, box is the container.   *)
(* They part when a stop fails (the client is killed, the container may    *)
(* live), when the client cannot be started, and when the host dies.       *)
(*                                                                         *)
(* Left out: the arguments and mounts of a container, container_status and *)
(* the typing indicator, which nothing here reads.  What a runner does     *)
(* with its session is the module SessionQueue.                            *)
(***************************************************************************)
EXTENDS Naturals, FiniteSets

CONSTANTS
    Sessions,     \* sessions of the group
    Procs,        \* slots for child processes, numbers; the first empty one is used
    None,
    MaxCommands,  \* bound: changes and restarts in a behaviour
    MaxFaults     \* bound: failures and crashes in a behaviour

ASSUME Bounds == MaxCommands \in Nat /\ MaxFaults \in Nat

Versions == 0..MaxCommands

\* What a container was started for, and the configuration it was started with.
Start == [of : Sessions, conf : Versions, prov : Versions]

ASSUME NoneIsNew == Procs \subseteq Nat /\ None \notin Sessions \cup Nat \cup Start

VARIABLES
    active,    \* activeContainers: the process of a session's container
    wake,      \* wakePromises: sessions being woken, with the provider their row named
    listed,    \* the sweep's list of sessions, with the provider their row named
    config,    \* version of the group's row in container_configs
    provider,  \* version of agent_provider in the session rows
    run,       \* what a slot was started for
    cli,       \* child process: "free", "up", "failing", "errored", "gone"
    box,       \* its container: "none", "asked", "running"
    fresh,     \* containers whose runner has not polled
    token,     \* containers whose token is valid
    comeback,  \* processes whose close wakes the session again (onExit)
    due,       \* sessions with a message for any runner
    unread,    \* sessions with an on_wake row, for the first poll of a fresh runner
    host,      \* the host runs
    commands,  \* commands so far (bounded by MaxCommands)
    faults,    \* faults so far (bounded by MaxFaults)
    strays,    \* history: containers that outlived their stop or their host
    crossed    \* history: sessions whose entry a process took down that was not its own

maps == <<active, wake, listed>>
settings == <<config, provider>>
slots == <<run, cli, box, fresh>>
rows == <<due, unread>>
bounds == <<commands, faults>>
hist == <<strays, crossed>>
vars == <<maps, settings, slots, token, comeback, rows, host, bounds, hist>>

Live == {p \in Procs : box[p] # "none"}
Running == {s \in Sessions : active[s] # None}

\* A slot without process and container is empty.
Emptied(c, b) == [p \in Procs |-> IF c[p] = "free" /\ b[p] = "none" THEN None ELSE run[p]]

Fault == faults < MaxFaults /\ faults' = faults + 1
Command == commands < MaxCommands /\ commands' = commands + 1

------------------------------------------------------------------------------
(* Waking.  spawnContainer suspends once, at its dynamic import; all that  *)
(* follows, from the reading of the configuration to the entry in          *)
(* activeContainers, is one step.                                          *)

\* The wakes in flight after wakeContainer was called with a row naming v.
wakeContainer(s, v, entries) ==
    IF entries[s] = None /\ wake[s] = None THEN [wake EXCEPT ![s] = v] ELSE wake

\* deliverToAgent reads the session row right before it wakes.
Deliver(s) ==
    /\ host
    /\ due' = due \cup {s}
    /\ wake' = wakeContainer(s, provider, active)
    /\ UNCHANGED <<active, listed, settings, slots, token, comeback, unread, host, bounds, hist>>

SweepLists ==
    /\ host /\ \A s \in Sessions : listed[s] = None
    /\ listed' = [s \in Sessions |-> provider]
    /\ UNCHANGED <<active, wake, settings, slots, token, comeback, rows, host, bounds, hist>>

\* Mutant: on_wake rows do not count.
Waiting_ForAny == due

\* countDueMessages
Waiting == due \cup unread

SweepSession(s) ==
    /\ host /\ listed[s] # None
    /\ wake' = IF s \in Waiting THEN wakeContainer(s, listed[s], active) ELSE wake
    /\ listed' = [listed EXCEPT ![s] = None]
    /\ UNCHANGED <<active, settings, slots, token, comeback, rows, host, bounds, hist>>

\* The group is gone, a mount is missing, or spawn throws: a token that was minted is revoked.
SpawnThrows(s) ==
    /\ host /\ wake[s] # None /\ Fault
    /\ wake' = [wake EXCEPT ![s] = None]
    /\ UNCHANGED <<active, listed, settings, slots, token, comeback, rows, host, commands, hist>>

Spawned(s, p, state) ==
    /\ host /\ wake[s] # None /\ run[p] = None
    /\ \A q \in Procs : run[q] = None => p <= q
    /\ run' = [run EXCEPT ![p] = [of |-> s, conf |-> config, prov |-> wake[s]]]
    /\ cli' = [cli EXCEPT ![p] = state]
    /\ token' = token \cup {p}
    /\ active' = [active EXCEPT ![s] = p]
    /\ wake' = [wake EXCEPT ![s] = None]
    /\ UNCHANGED <<listed, settings, comeback, rows, host, commands, hist>>

\* Also when markContainerRunning throws: then the wake fails and the container runs.
SpawnStarts(s, p) ==
    /\ Spawned(s, p, "up")
    /\ box' = [box EXCEPT ![p] = "asked"]
    /\ fresh' = fresh \cup {p}
    /\ UNCHANGED faults

\* The client cannot be started: spawn returns, and reports it later.
SpawnErrs(s, p) == Spawned(s, p, "failing") /\ Fault /\ UNCHANGED <<box, fresh>>

------------------------------------------------------------------------------
(* Containers and the events of their processes.                           *)

ContainerStarts(p) ==
    /\ box[p] = "asked"
    /\ box' = [box EXCEPT ![p] = "running"]
    /\ UNCHANGED <<maps, settings, run, cli, fresh, token, comeback, rows, host, bounds, hist>>

\* A first poll reads on_wake rows too.
Poll(p) ==
    /\ box[p] = "running" /\ (p \in fresh \/ run[p].of \in due)
    /\ due' = due \ {run[p].of}
    /\ unread' = IF p \in fresh THEN unread \ {run[p].of} ELSE unread
    /\ fresh' = fresh \ {p}
    /\ UNCHANGED <<maps, settings, run, cli, box, token, comeback, host, bounds, hist>>

ContainerDies(p) ==
    /\ box[p] # "none" /\ Fault
    /\ box' = [box EXCEPT ![p] = "none"]
    /\ cli' = [cli EXCEPT ![p] = IF @ = "up" THEN "gone" ELSE @]
    /\ run' = Emptied(cli', box')
    /\ fresh' = fresh \ {p} /\ strays' = strays \ {p}
    /\ UNCHANGED <<maps, settings, token, comeback, rows, host, commands, crossed>>

\* Mutant: only a process that was killed takes its entry down.
Cleared_WhenStopped(p) == IF p \in comeback THEN [active EXCEPT ![run[p].of] = None] ELSE active

\* The entry goes, whatever process it names.
Cleared(p) == [active EXCEPT ![run[p].of] = None]

\* Mutant: the close handler leaves the token.
Revoked_Not(p) == token

Revoked(p) == token \ {p}

\* What the handlers of both events do.
Unregister(p) ==
    LET s == run[p].of IN
    /\ active' = Cleared(p)
    /\ token' = Revoked(p)
    /\ crossed' = IF active[s] \in {None, p} THEN crossed ELSE crossed \cup {s}

ProcessErrors(p) ==
    /\ host /\ cli[p] = "failing"
    /\ Unregister(p)
    /\ cli' = [cli EXCEPT ![p] = "errored"]
    /\ UNCHANGED <<wake, listed, settings, run, box, fresh, comeback, rows, host, bounds, strays>>

\* Also after an error; onExit, registered last, runs with the entry already gone.
ProcessCloses(p) ==
    LET s == run[p].of IN
    /\ host /\ cli[p] \in {"errored", "gone"}
    /\ Unregister(p)
    /\ cli' = [cli EXCEPT ![p] = "free"]
    /\ run' = Emptied(cli', box)
    /\ wake' = IF p \in comeback THEN wakeContainer(s, provider, active') ELSE wake
    /\ comeback' = comeback \ {p}
    /\ UNCHANGED <<listed, settings, box, fresh, rows, host, bounds, strays>>

------------------------------------------------------------------------------
(* Stopping.                                                               *)

\* Mutant: a stop that throws leaves the process to itself.
Killed_IfStopped(K, lost) == K \ lost

\* stop throws: the client is killed instead.
Killed(K, lost) == K

\* killContainer for each of S that has an entry.  Stop throws for a container that is not
\* running yet or any more, and may throw for one that is; some of those live on.
killContainers(S, back) ==
    LET K == {active[s] : s \in S} \ {None} IN
    \E lost \in SUBSET K :
      /\ {p \in K : box[p] # "running"} \subseteq lost
      /\ \E alive \in SUBSET (lost \cap Live) :
           /\ IF alive = {} /\ \A p \in lost : box[p] # "running" THEN UNCHANGED faults ELSE Fault
           /\ cli' = [p \in Procs |-> IF p \in Killed(K, lost) /\ cli[p] = "up" THEN "gone" ELSE cli[p]]
           /\ box' = [p \in Procs |-> IF p \in K \ alive THEN "none" ELSE box[p]]
           /\ fresh' = fresh \ (K \ alive)
           /\ strays' = strays \cup alive
      /\ comeback' = IF back THEN comeback \cup K ELSE comeback

\* ncl groups restart and the sweep's kill: one session, or those of the group that run.
Restart(S, back) ==
    /\ host /\ Command /\ S # {} /\ (S \subseteq Running \/ Cardinality(S) = 1)
    /\ killContainers(S, back)
    /\ unread' = IF back THEN unread \cup S ELSE unread
    /\ UNCHANGED <<maps, settings, run, token, due, host, crossed>>

\* A change of model, packages, servers or persona: stored, then the running containers are stopped.
ChangeConfig(back) ==
    /\ host /\ Command
    /\ config' = config + 1
    /\ killContainers(Sessions, back)
    /\ unread' = IF back THEN unread \cup Running ELSE unread
    /\ UNCHANGED <<maps, provider, run, token, due, host, crossed>>

\* A change of agent_provider: stored in every session row, then the same.
ChangeProvider ==
    /\ host /\ Command
    /\ provider' = provider + 1
    /\ killContainers(Sessions, FALSE)
    /\ UNCHANGED <<maps, config, run, token, rows, host, crossed>>

------------------------------------------------------------------------------
(* The host.                                                               *)

HostCrashes ==
    /\ host /\ Fault
    /\ host' = FALSE
    /\ active' = [s \in Sessions |-> None]
    /\ wake' = [s \in Sessions |-> None]
    /\ listed' = [s \in Sessions |-> None]
    /\ cli' = [p \in Procs |-> "free"]
    /\ run' = Emptied(cli', box)
    /\ token' = {} /\ comeback' = {}
    /\ strays' = Live
    /\ UNCHANGED <<settings, box, fresh, rows, commands, crossed>>

\* Those the runtime lists as running.
cleanupOrphans == {p \in Procs : box[p] = "running"}

\* The runtime may fail to list or to stop them; the host starts all the same.
HostStarts ==
    /\ ~host /\ host' = TRUE
    /\ \E missed \in SUBSET cleanupOrphans :
         /\ IF missed = {} THEN UNCHANGED faults ELSE Fault
         /\ box' = [p \in Procs |-> IF p \in cleanupOrphans \ missed THEN "none" ELSE box[p]]
    /\ run' = Emptied(cli, box')
    /\ fresh' = {p \in fresh : box'[p] # "none"}
    /\ strays' = {p \in strays : box'[p] # "none"}
    /\ UNCHANGED <<maps, settings, cli, token, comeback, rows, commands, crossed>>

------------------------------------------------------------------------------
Init ==
    /\ active = [s \in Sessions |-> None]
    /\ wake = [s \in Sessions |-> None]
    /\ listed = [s \in Sessions |-> None]
    /\ config = 0 /\ provider = 0
    /\ run = [p \in Procs |-> None]
    /\ cli = [p \in Procs |-> "free"]
    /\ box = [p \in Procs |-> "none"]
    /\ fresh = {} /\ token = {} /\ comeback = {} /\ due = {} /\ unread = {}
    /\ host = TRUE /\ commands = 0 /\ faults = 0
    /\ strays = {} /\ crossed = {}

Spawn(s) == SpawnThrows(s) \/ \E p \in Procs : SpawnStarts(s, p) \/ SpawnErrs(s, p)
Report(p) == ProcessErrors(p) \/ ProcessCloses(p)
Container(p) == ContainerStarts(p) \/ Poll(p)
Commanded ==
    \/ \E S \in SUBSET Sessions, back \in BOOLEAN : Restart(S, back)
    \/ \E back \in BOOLEAN : ChangeConfig(back)
    \/ ChangeProvider

Next ==
    \/ \E s \in Sessions : Deliver(s) \/ SweepSession(s) \/ Spawn(s)
    \/ SweepLists
    \/ \E p \in Procs : Report(p) \/ Container(p) \/ ContainerDies(p)
    \/ Commanded
    \/ HostCrashes
    \/ HostStarts

Spec == Init /\ [][Next]_vars

Fairness ==
    /\ WF_vars(HostStarts) /\ WF_vars(SweepLists)
    /\ \A s \in Sessions : WF_vars(SweepSession(s)) /\ WF_vars(Spawn(s))
    /\ \A p \in Procs : WF_vars(Report(p)) /\ WF_vars(Container(p))

FairSpec == Spec /\ Fairness

------------------------------------------------------------------------------
(* Properties.                                                             *)

\* Every variable keeps its type.
TypeOK ==
    /\ active \in [Sessions -> Procs \cup {None}]
    /\ wake \in [Sessions -> Versions \cup {None}]
    /\ listed \in [Sessions -> Versions \cup {None}]
    /\ config \in Versions /\ provider \in Versions
    /\ run \in [Procs -> Start \cup {None}]
    /\ cli \in [Procs -> {"free", "up", "failing", "errored", "gone"}]
    /\ box \in [Procs -> {"none", "asked", "running"}]
    /\ fresh \subseteq Procs /\ token \subseteq Procs /\ comeback \subseteq Procs
    /\ due \subseteq Sessions /\ unread \subseteq Sessions
    /\ host \in BOOLEAN
    /\ commands \in Versions /\ faults \in 0..MaxFaults
    /\ strays \subseteq Procs /\ crossed \subseteq Sessions

\* At most one container of a session can use the group's credentials, whatever stops, starts and
\* crashes failed before: one that outlived its stop has lost its token by the time another starts.
OneHolder ==
    \A p, q \in Live \cap token :
        p # q /\ run[p].of = run[q].of => run[p].of \in crossed

\* A session has one container, but for those that outlived their stop or their host.
OneContainer ==
    \A p, q \in Live \ strays :
        p # q /\ run[p].of = run[q].of => run[p].of \in crossed

\* A token is valid only while its process owes the host an event that revokes it.
TokensAreRevoked == \A p \in token : cli[p] \in {"up", "failing", "gone"}

\* The entry of a session names a process of that session that will still close or report an
\* error: a session is never taken for running with nothing left to end that.
EntriesEnd == \A s \in Running : cli[active[s]] \in {"up", "failing", "gone"} /\ run[active[s]].of = s

\* No container runs on after a change of the group's configuration, also when it was being
\* started as the change came, but for those whose stop failed.
ConfigReaches ==
    \A p \in Procs : cli[p] = "up" => run[p].conf = config \/ run[p].of \in crossed

\* A message is read in the end, and so is the note a restart leaves for the new container.
Served == \A s \in Sessions : (s \in due ~> s \notin due) /\ (s \in unread ~> s \notin unread)
=============================================================================
