---------------------------- MODULE MCAdjustRate ----------------------------
(* Instances of AdjustRate for TLC.  Host bandwidth, minima and maxima are  *)
(* what WriteGlobalConfig derives from a configuration Validate accepts:    *)
(* L0's minimum is the host bandwidth less the other minima, and the other  *)
(* two maxima together fit in the host bandwidth.                           *)
EXTENDS AdjustRate, FiniteSets, TLC

Config(hw, l1min, l1max, l2min, l2max) ==
  [min |-> (0 :> hw - l1min - l2min) @@ (1 :> l1min) @@ (2 :> l2min),
   max |-> (0 :> hw) @@ (1 :> l1max) @@ (2 :> l2max)]

\* Two bytes to the MEGABYTE, and an odd one over here and there.
Wide == Config(11, 3, 5, 2, 6)
First == Config(6, 2, 2, 2, 2)
Other == Config(6, 2, 4, 1, 2)
Raised == Config(11, 4, 5, 2, 6)
Lowered == Config(11, 2, 2, 2, 6)
NoFloor == Config(9, 2, 5, 1, 4)

OneConf == {Wide}
TwoConfs == {First, Other}
JustFirst == {First}
JustWide == {Wide}
HotUpdate == {Wide, Raised}
HotCap == {Wide, Lowered}
FloorlessConf == {NoFloor}

Processors == Permutations(CPU)
=============================================================================
