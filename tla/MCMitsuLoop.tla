---------------------------- MODULE MCMitsuLoop -----------------------------
(* A small instance of MitsuLoop. *)
EXTENDS MitsuLoop

Printjob(n, d70x, want, ok, exact, wait, n_copies, rounds) ==
  [num_decks |-> n, d70x |-> d70x, reqdeck |-> want, ok |-> ok, exact |-> exact,
   raw |-> FALSE, wait |-> wait, fits |-> TRUE, copies |-> n_copies, rounds |-> rounds]

SmallPrintjobs ==
  {Printjob(1, FALSE, 0, {1}, {1}, w, 2, 1) : w \in BOOLEAN}
  \cup {Printjob(2, TRUE, 0, {1, 2}, {1, 2}, c[1], c[2], c[3]) :
           c \in {<<TRUE, 2, 1>>, <<FALSE, 2, 1>>, <<TRUE, 1, 2>>}}
  \cup {[Printjob(2, TRUE, 0, {1, 2}, {1, 2}, TRUE, 2, 1) EXCEPT !.raw = TRUE],
        Printjob(2, TRUE, 2, {1, 2}, {1}, TRUE, 2, 1),
        Printjob(2, TRUE, 0, {1, 2}, {2}, TRUE, 1, 1),
        Printjob(2, TRUE, 1, {2}, {}, TRUE, 1, 1),
        Printjob(2, TRUE, 0, {}, {}, TRUE, 1, 1),
        Printjob(1, TRUE, 2, {1}, {}, TRUE, 1, 1),
        [Printjob(1, FALSE, 0, {1}, {1}, TRUE, 1, 1) EXCEPT !.fits = FALSE, !.raw = TRUE]}

Left(id, d, state) ==
  [id |-> id, deck |-> d, own |-> FALSE, state |-> state, left |-> "early"]

SmallLeftovers ==
  {<<>>, <<Left(5, 1, "printing")>>, <<Left(5, 2, "queued"), Left(1, 1, "done")>>}
=============================================================================
