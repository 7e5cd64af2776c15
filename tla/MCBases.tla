------------------------------- MODULE MCBases -------------------------------
\* A few bases of one project, some of them started with --replace.
EXTENDS Bases, TLC

CONSTANTS a, b, r, s, i, j, k

Symmetry == Permutations({a, b}) \cup Permutations({i, j, k})
=============================================================================
