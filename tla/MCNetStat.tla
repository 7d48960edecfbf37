----------------------------- MODULE MCNetStat -----------------------------
(* Instances of NetStat for TLC.                                            *)
EXTENDS NetStat, TLC

Processors == Permutations(CPU)
=============================================================================
