---------------------------- MODULE MCPinnedRing ----------------------------
(* PinnedRing for TLC: callers are interchangeable.                        *)
EXTENDS PinnedRing

Callers == Permutations(Clients)
=============================================================================
