----------------------------- MODULE LeaseQueue -----------------------------
(***************************************************************************)
(* What the two files of a session promise about an inbound row, whatever  *)
(* the sweeps, polls, follow-up polls, scripts, retries and crashes that   *)
(* bring it about: a queue with leases.  One consumer at a time leases     *)
(* rows, shows each to the agent once and settles them; only what it has   *)
(* shown itself, or need not show, is settled.  A lease is lost only when  *)
(* its consumer is gone, and only then is the row charged or given up.     *)
(***************************************************************************)
EXTENDS Naturals

CONSTANTS
    Msg,
    Unshown,   \* rows that may be settled without the agent
    Direct,    \* rows that may be settled without a lease
    MAX_TRIES

VARIABLES
    state,     \* "none", "waiting", "leased", "settled" (by the consumer), "done", "failed"
    tries,     \* how often a lost lease was charged
    consumer,  \* there is a consumer
    shown      \* rows the present consumer has shown to the agent

In(s) == {m \in Msg : state[m] = s}
Moved(S, to) == [m \in Msg |-> IF m \in S THEN to ELSE state[m]]

Init ==
    /\ state = [m \in Msg |-> "none"]
    /\ tries = [m \in Msg |-> 0]
    /\ consumer = FALSE /\ shown = {}

Put(m) ==
    /\ m \in In("none")
    /\ state' = Moved({m}, "waiting")
    /\ UNCHANGED <<tries, consumer, shown>>

\* A new consumer finds the leases of its predecessor void.
Attach ==
    /\ ~consumer /\ consumer' = TRUE
    /\ state' = Moved(In("leased"), "waiting")
    /\ UNCHANGED <<tries, shown>>

Detach ==
    /\ consumer /\ consumer' = FALSE
    /\ shown' = {}
    /\ UNCHANGED <<state, tries>>

Lease(S) ==
    /\ consumer
    /\ S \subseteq In("waiting")
    /\ state' = Moved(S, "leased")
    /\ UNCHANGED <<tries, consumer, shown>>

\* S is shown to the agent and A settled.
Serve(S, A) ==
    /\ consumer
    /\ S \subseteq In("leased") \ shown
    /\ shown' = shown \cup S
    /\ A \subseteq In("leased") \cup (In("waiting") \cap Direct)
    /\ A \subseteq shown' \cup Unshown
    /\ state' = Moved(A, "settled")
    /\ UNCHANGED <<tries, consumer>>

Confirm ==
    /\ state' = Moved(In("settled"), "done")
    /\ UNCHANGED <<tries, consumer, shown>>

\* Of the lost leases L, those that have tries left are charged and the others given up.
Charge(L) ==
    /\ ~consumer
    /\ L \subseteq In("leased")
    /\ tries' = [m \in Msg |-> IF m \in L /\ tries[m] < MAX_TRIES THEN tries[m] + 1 ELSE tries[m]]
    /\ \E freed \in {{}, In("leased")} :
         state' = [m \in Msg |-> IF m \in L /\ tries[m] >= MAX_TRIES THEN "failed"
                                 ELSE IF m \in freed THEN "waiting" ELSE state[m]]
    /\ UNCHANGED <<consumer, shown>>

Next ==
    \/ \E m \in Msg : Put(m)
    \/ Attach \/ Detach
    \/ \E S \in SUBSET Msg : Lease(S) \/ Charge(S)
    \/ \E S, A \in SUBSET Msg : Serve(S, A)
    \/ Confirm

Spec == Init /\ [][Next]_<<state, tries, consumer, shown>>

=============================================================================
