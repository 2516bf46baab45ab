--------------------------- MODULE MCDogMovement ---------------------------
(* A map with a crossing, two roads that continue each other, a parallel   *)
(* road at a small distance, and dead ends.                                *)
EXTENDS DogMovement

MCRoads == {
    [start |-> [x |-> 0, y |-> 0], end |-> [x |-> 20, y |-> 0]],
    [start |-> [x |-> 30, y |-> 0], end |-> [x |-> 20, y |-> 0]],
    [start |-> [x |-> 20, y |-> -10], end |-> [x |-> 20, y |-> 10]],
    [start |-> [x |-> 0, y |-> 10], end |-> [x |-> 10, y |-> 10]]}
=============================================================================
