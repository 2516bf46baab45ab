------------------------------ MODULE DogSweep ------------------------------
(***************************************************************************)
(* What the collision detector finds for the moves a dog can make: along   *)
(* one axis, as Game::CalculateNewDogPosition changes one coordinate.      *)
(***************************************************************************)
EXTENDS CollisionDetector

CONSTANTS
    Side,       \* bound: coordinates are 0 .. Side
    Widths      \* the sums of the widths of a dog and an item

ASSUME SweepAssumption == Side \in Nat /\ Widths \subseteq Nat

VARIABLES start, end, item, width

sweepVars == <<start, end, item, width>>

Coordinates == 0 .. Side
PointSet == [x : Coordinates, y : Coordinates]

SweepInit ==
    /\ start \in PointSet /\ end = start
    /\ item \in PointSet
    /\ width \in Widths

\* The next tick: the dog goes on from where it is, along the x or the y axis,
\* or stays.
Move(p) ==
    /\ p.x = end.x \/ p.y = end.y
    /\ start' = end /\ end' = p
    /\ UNCHANGED <<item, width>>

SweepNext == \E p \in PointSet : Move(p)

SweepSpec == SweepInit /\ [][SweepNext]_sweepVars

-----------------------------------------------------------------------------
OneItem == <<[position |-> item, width |-> width, type |-> "loot"]>>
OneGatherer == <<[start |-> start, end |-> end, width |-> 0]>>

Near(x, y) == x - y <= width /\ y - x <= width

\* The band a move sweeps: the rectangle over its length and, on each side,
\* the width.
InBand ==
    \/ start.y = end.y /\ Between(item.x, start.x, end.x) /\ Near(item.y, start.y)
    \/ start.x = end.x /\ Between(item.y, start.y, end.y) /\ Near(item.x, start.x)

(***************************************************************************)
(* TryCollectPoint and IsCollected, with projections and squared           *)
(* distances, find an item for a dog that moved exactly when it lies in    *)
(* the band of the move; a dog that did not move collects nothing.         *)
(***************************************************************************)
CollectedIsInBand ==
    Events(OneItem, OneGatherer) # {} <=> (start # end /\ InBand)

(***************************************************************************)
(* Nothing is missed between two ticks: what the whole move along an axis  *)
(* reaches is reached by one of the two moves it is split into.            *)
(***************************************************************************)
NothingBetweenTicks ==
    \A p \in PointSet :
        LET first == <<[start |-> start, end |-> p, width |-> 0]>>
            second == <<[start |-> p, end |-> end, width |-> 0]>>
        IN /\ Between(p.x, start.x, end.x) /\ Between(p.y, start.y, end.y)
           /\ start.x = end.x \/ start.y = end.y
           => (Events(OneItem, OneGatherer) # {}
                 <=> Events(OneItem, first) \cup Events(OneItem, second) # {})
=============================================================================
