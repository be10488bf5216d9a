------------------------------ MODULE MCMemory ------------------------------
(* Addresses, and threads, are interchangeable.                            *)
EXTENDS MemoryProps, TLC

CONSTANTS a, b, d, s, t

Symmetric == Permutations(Boxes) \cup Permutations(Threads)
=============================================================================
