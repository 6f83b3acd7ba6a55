----------------------------- MODULE MCSNCache -----------------------------
(* The storage node's cache as an implementation of BlockStore: its        *)
(* instances for TLC.                                                      *)
EXTENDS SNCacheRefines, TLC

\* Nodes and blocks are interchangeable.
CacheSymmetry == Permutations(Nodes) \cup Permutations(Blocks)
=============================================================================
