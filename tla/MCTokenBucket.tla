--------------------------- MODULE MCTokenBucket ---------------------------
(* Instances of TokenBucket for TLC: a second is four ticks, two to the      *)
(* microsecond, and a rate of 1 is below the least that is enforced.         *)
EXTENDS TokenBucket, TLC

Both == {"cgroup", "class"}
JustClass == {"class"}
Processors == Permutations(CPU)
=============================================================================
