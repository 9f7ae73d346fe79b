---------------------------- MODULE MCCupsFilter ----------------------------
(* Small instances of CupsFilter: images that are printed as they are,      *)
(* enlarged, reduced, and cut off by a smaller area.                        *)
EXTENDS CupsFilter

Header(cupsHeight, height, printed, verifies) ==
  [cupsHeight |-> cupsHeight, height |-> height, printed |-> printed,
   verifies |-> verifies]

SomeHeaders ==
  {Header(4, h, p, TRUE) : h \in {1, 3, 4, 5}, p \in 1 .. 5} \union {Header(2, 2, 2, FALSE), Header(2, -1, 0, TRUE)}
=============================================================================
