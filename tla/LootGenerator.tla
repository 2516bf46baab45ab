---------------------------- MODULE LootGenerator ----------------------------
(***************************************************************************)
(* LootGenerator::Generate for the probability 1/2 and times that are      *)
(* whole numbers of base intervals, where its floating-point formula is    *)
(* exact.  The random generator is the default one, which returns 1.       *)
(***************************************************************************)
EXTENDS Integers, FiniteSets

\* Slip: the unsigned difference is taken without looking (here of 4 bits).
ShortageWraps(loot, looters) == (looters - loot) % 2^4

\* The looters without an item on the ground.
Shortage(loot, looters) == IF loot > looters THEN 0 ELSE looters - loot

\* std::round(shortage * (1 - 2^-k)) for k base intervals: the number of the
\* n whose n - 1/2 it reaches.  k is negative after negative ticks, and
\* std::clamp makes a negative probability 0.
Share(shortage, k) ==
    IF k <= 0 THEN 0
    ELSE Cardinality({n \in 1 .. shortage : (2 * n - 1) * 2^k <= 2 * shortage * (2^k - 1)})

\* The items generated once nothing has been for a time of k intervals.
Generated(loot, looters, k) == Share(Shortage(loot, looters), k)
=============================================================================
