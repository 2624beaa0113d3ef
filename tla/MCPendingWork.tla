--------------------------- MODULE MCPendingWork ---------------------------
(* Small bounds for PendingWork: a stream in one of two contexts.          *)
EXTENDS PendingWork, TLC

CONSTANTS c, d, s

TheContexts == {c, d}
TheStreams  == {s}
TheHome     == [x \in TheStreams |-> c]
Alike       == Permutations(Threads)
=============================================================================
