----------------------------- MODULE TaskSeries -----------------------------
(***************************************************************************)
(* What the scheduling module promises about the rows of a series: they    *)
(* pass on one turn.  The first row starts the series, once; a row that    *)
(* comes to its end owes the series a successor or is the last one; and a  *)
(* successor takes the turn over, unless a crash leaves it with both.  No  *)
(* request, however late or repeated, makes a row of its own accord.       *)
(***************************************************************************)
EXTENDS Naturals

CONSTANT Rows   \* pairs of a series and the number of an occurrence

VARIABLES
    state,  \* "none", "live", "owed" (its successor is to come), "over"
    torn    \* series whose turn a crash has doubled

Kin(r) == {q \in Rows : q[1] = r[1]}

Init == state = [r \in Rows |-> "none"] /\ torn = {}

Start(r) ==
    /\ r[2] = 1 /\ \A q \in Kin(r) : state[q] = "none"
    /\ state' = [state EXCEPT ![r] = "live"]
    /\ UNCHANGED torn

\* Of the rows S, those in O are to be continued.
Close(S, O) ==
    /\ S \subseteq {r \in Rows : state[r] = "live"}
    /\ state' = [r \in Rows |-> IF r \in S THEN IF r \in O THEN "owed" ELSE "over" ELSE state[r]]
    /\ UNCHANGED torn

Succeed(r, q) ==
    /\ state[r] = "owed" /\ q \in Kin(r) /\ state[q] = "none"
    /\ \/ state' = [state EXCEPT ![r] = "over", ![q] = "live"] /\ UNCHANGED torn
       \/ state' = [state EXCEPT ![q] = "live"] /\ torn' = torn \cup {r[1]}

Next ==
    \/ \E r \in Rows : Start(r)
    \/ \E S, O \in SUBSET Rows : Close(S, O)
    \/ \E r, q \in Rows : Succeed(r, q)

Spec == Init /\ [][Next]_<<state, torn>>

=============================================================================
