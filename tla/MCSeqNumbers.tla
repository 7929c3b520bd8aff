---------------------------- MODULE MCSeqNumbers ----------------------------
(* Instances of SeqNumbers for TLC. *)
EXTENDS SeqNumbers
=============================================================================
