------------------------------- MODULE MCGame -------------------------------
(* Game on small sets: two maps, so that a failure in one session stops    *)
(* the update of the other, with bags of one item.                         *)
EXTENDS Game

MCBagCapacity == [m \in Maps |-> 1]
=============================================================================
