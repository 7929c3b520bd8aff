--------------------------- MODULE MCSessionQueue ---------------------------
(* Instances of SessionQueue for TLC: one row per kind that matters.       *)
EXTENDS SessionQueue

CONSTANTS chat, chat2, task, slash, clear, ctx, answer, restarted

=============================================================================
