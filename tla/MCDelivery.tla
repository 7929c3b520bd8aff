----------------------------- MODULE MCDelivery -----------------------------
(* Two sessions of Delivery: "a" with two rows, "b" with one.              *)
EXTENDS Delivery

CONSTANTS a, b, a1, a2, b1

MCOwner == [r \in Rows |-> IF r = b1 THEN b ELSE a]

=============================================================================
