------------------------------- MODULE Outbox -------------------------------
(***************************************************************************)
(* What delivery promises a user about the rows an agent writes, whatever  *)
(* the pollers, sessions, retries and restarts that bring it about: a row  *)
(* is settled once; a row settled as delivered was shown; nothing is shown *)
(* again unless a fault struck between the showing and its record; and     *)
(* nothing is shown after the row is settled.                              *)
(***************************************************************************)
EXTENDS Naturals

CONSTANTS
    Rows,       \* rows an agent may write to messages_out
    Unroutable  \* rows with no place to go

VARIABLES
    outcome,  \* "none" (not written), "pending", "delivered", "failed"
    seen,     \* how many times a row reached its destination
    faults    \* how many of those times the record of it was lost

Init ==
    /\ outcome = [r \in Rows |-> "none"]
    /\ seen = [r \in Rows |-> 0]
    /\ faults = [r \in Rows |-> 0]

\* The row is on the user's screen and nothing records that yet.
Unrecorded(r) == outcome[r] = "pending" /\ seen[r] = faults[r] + 1

Write(r) ==
    /\ outcome[r] = "none"
    /\ outcome' = [outcome EXCEPT ![r] = "pending"]
    /\ UNCHANGED <<seen, faults>>

Show(r) ==
    /\ outcome[r] = "pending" /\ seen[r] = faults[r]
    /\ seen' = [seen EXCEPT ![r] = @ + 1]
    /\ UNCHANGED <<outcome, faults>>

Record(r) ==
    /\ Unrecorded(r)
    /\ outcome' = [outcome EXCEPT ![r] = "delivered"]
    /\ UNCHANGED <<seen, faults>>

Drop(r) ==
    /\ r \in Unroutable /\ outcome[r] = "pending" /\ seen[r] = 0
    /\ outcome' = [outcome EXCEPT ![r] = "delivered"]
    /\ UNCHANGED <<seen, faults>>

\* A fault (an error after the send, a crash) loses the record of S.
Lose(S) ==
    /\ \A r \in S : Unrecorded(r)
    /\ faults' = [r \in Rows |-> IF r \in S THEN faults[r] + 1 ELSE faults[r]]
    /\ UNCHANGED <<outcome, seen>>

GiveUp(r) ==
    /\ outcome[r] = "pending"
    /\ outcome' = [outcome EXCEPT ![r] = "failed"]
    /\ faults' = [faults EXCEPT ![r] = seen[r]]
    /\ UNCHANGED seen

Next ==
    \/ \E r \in Rows : Write(r) \/ Show(r) \/ Record(r) \/ Drop(r) \/ GiveUp(r)
    \/ \E S \in SUBSET Rows : Lose(S)

Spec == Init /\ [][Next]_<<outcome, seen, faults>>

=============================================================================
