--------------------------- MODULE MCGlobalConfig ---------------------------
(* An instance of GlobalConfig for TLC: a word of 32 and a MEGABYTE of 2.    *)
EXTENDS GlobalConfig

Says(hw, min1, max1, min2, max2) ==
  [hw |-> hw, burst |-> 0, l0max |-> 0, l0min |-> 0,
   l1max |-> max1, l1min |-> min1, l2max |-> max2, l2min |-> min2]

Good == Says(9, 2, 5, 1, 4)
Better == Says(15, 3, 9, 2, 6)
Lone == Says(13, 2, 4, 1, 5)           \* valid, but only ever beside Crowded
Crowded == Says(9, 6, 8, 5, 8)         \* the offline classes do not fit
Saturated == Says(31, 20, 31, 20, 31)  \* the sum of the maxima wraps
Floored == [Says(0, 0, 0, 0, 0) EXCEPT !.l0min = 3]

Both(ingress, egress) == [d \in Dir |-> IF d = "ingress" THEN ingress ELSE egress]

Files == { Both(Good, Better), Both(Lone, Crowded), Both(Good, ZeroSource),
           Both(Saturated, Floored) }

Flags(c) == [d \in Dir |-> [c[d] EXCEPT !.burst = c[d].hw]]

Given == { Flags(Both(Better, Better)), Flags(Both(Good, Good)),
           Flags(Both(Crowded, Lone)) }
=============================================================================
