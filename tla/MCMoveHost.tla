----------------------------- MODULE MCMoveHost -----------------------------
(* MoveHost on two machines.  h2 and h3 are two rows of the hosts table     *)
(* that lead to one Docker daemon.                                          *)
EXTENDS MoveHost

CONSTANTS h1, h2, h3, d1, d2

TwoRows     == {h1, h2}
TwoRowsTo   == [h \in {h1, h2} |-> IF h = h1 THEN d1 ELSE d2]
ThreeRows   == {h1, h2, h3}
ThreeRowsTo == [h \in {h1, h2, h3} |-> IF h = h1 THEN d1 ELSE d2]
TwoDaemons  == {d1, d2}

ThereAndBack == {<<h1, h2>>, <<h2, h1>>}
ToTheSameToo == ThereAndBack \cup {<<h2, h3>>}
=============================================================================
