---------------------------- MODULE MCApiHandler ----------------------------
(* The API on the smallest game with two sessions. *)
EXTENDS ApiHandler, TLC

MCBagCapacity == [m \in Maps |-> 1]

MapSymmetry == Permutations(Maps)
=============================================================================
