----------------------------- MODULE MCStpCurve -----------------------------
(* Curves of two or three points, on a scale of a few numbers. *)
EXTENDS StpCurve

MCFinite == -1 .. 2
MCNumbers == MCFinite \union {3}

MCBounds == {<<-1, 1>>, <<1, 2>>}

(* A negative factor, and a power that turns the positive numbers over. *)
MCCompositions ==
  {[mode |-> "multiply", of |-> [x \in MCNumbers |-> - x]],
   [mode |-> "exponentiate",
    of |-> [x \in MCNumbers |-> CASE x = 0 -> 3 [] x = 1 -> 1 [] x = -1 -> -1 [] OTHER -> 0]]}

(* The ends of a range that is to be scanned again are read by nothing     *)
(* that the scan does not overwrite.                                       *)
View ==
  <<IF seq.recompute_range THEN [seq EXCEPT !.rlo = seq.blo, !.rhi = seq.bhi] ELSE seq,
    mode, piecewise, gamma, recompute_interval, interval, crashed>>
=============================================================================
