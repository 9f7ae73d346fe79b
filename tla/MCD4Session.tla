----------------------------- MODULE MCD4Session -----------------------------
(* Instances of D4Session for TLC. *)
EXTENDS D4Session

(* What escputil asks: which printer is this, and about its ink.           *)
Questions == <<"di", "ii">>
=============================================================================
