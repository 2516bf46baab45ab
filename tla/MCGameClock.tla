---------------------------- MODULE MCGameClock ----------------------------
EXTENDS GameClock, TLC

\* A join time left from before, and one that no clock gives.
Leftovers == {0, -50}

\* Whole ticks, an empty one, one that goes back and one beyond everything.
Deltas == {-1, 0, 1, 3}

Symmetry == Permutations(Maps) \cup Permutations(Dogs)
=============================================================================
