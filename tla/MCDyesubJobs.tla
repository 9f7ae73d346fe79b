---------------------------- MODULE MCDyesubJobs ----------------------------
(* The instance of DyesubJobs for the runs that check invariants only. *)
EXTENDS DyesubJobs, TLC

(* No address is special: buffers are chosen by \E and compared by =. *)
BufferSymmetry == Permutations(Buffers)
=============================================================================
