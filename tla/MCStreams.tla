----------------------------- MODULE MCStreams -----------------------------
EXTENDS Streams, TLC

CONSTANTS c1, c2, c3

\* subscribe without a replay, and from the start of the history.
FromNowOrStart == {{}, {0}}

Symmetry == Permutations(Conns)
=============================================================================
