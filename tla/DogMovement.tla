---------------------------- MODULE DogMovement ----------------------------
(***************************************************************************)
(* The movement of a dog along the roads of its map (model.cpp,            *)
(* CalculateNewDogPosition and what it calls).  Coordinates are integers,  *)
(* in tenths of the unit of length, as in CollisionDetector: a road is 0.4 *)
(* to either side of its axis.  The rounding of doubles is not modelled.   *)
(***************************************************************************)
EXTENDS Integers

CONSTANTS
    Roads,      \* the roads of the map, [start, end], parallel to an axis
    Steps       \* the lengths of way a dog with a speed makes in a tick

Point == [x : Int, y : Int]

ASSUME RoadsAssumption ==
    \A r \in Roads : /\ r.start \in Point /\ r.end \in Point
                     /\ r.start.x = r.end.x \/ r.start.y = r.end.y
\* The ticker's ticks are not negative; those of the test mode may be.
ASSUME StepsAssumption == Steps \subseteq Nat

VARIABLES
    pos,        \* position_
    dir,        \* direction_
    moving      \* whether speed_ is not zero

vars == <<pos, dir, moving>>

Directions == {"NORTH", "EAST", "SOUTH", "WEST"}

Lesser(p, q) == IF p < q THEN p ELSE q
Greater(p, q) == IF p > q THEN p ELSE q

HalfWidth == 4

MinX(r) == Lesser(r.start.x, r.end.x)
MaxX(r) == Greater(r.start.x, r.end.x)
MinY(r) == Lesser(r.start.y, r.end.y)
MaxY(r) == Greater(r.start.y, r.end.y)

IsHorizontal(r) == r.start.y = r.end.y
IsVertical(r) == r.start.x = r.end.x

IsPointOnRoad(p, r) ==
    IF IsHorizontal(r)
    THEN /\ MinX(r) - HalfWidth <= p.x /\ p.x <= MaxX(r) + HalfWidth
         /\ r.start.y - HalfWidth <= p.y /\ p.y <= r.start.y + HalfWidth
    ELSE /\ MinY(r) - HalfWidth <= p.y /\ p.y <= MaxY(r) + HalfWidth
         /\ r.start.x - HalfWidth <= p.x /\ p.x <= r.start.x + HalfWidth

\* Slip: the query is where the dog is, not its way.
RelevantHere(r, from, to) ==
    LET x == IF IsVertical(r) THEN HalfWidth ELSE 0
        y == IF IsVertical(r) THEN 0 ELSE HalfWidth
    IN /\ MinX(r) - x <= from.x /\ from.x <= MaxX(r) + x
       /\ MinY(r) - y <= from.y /\ from.y <= MaxY(r) + y

\* The query of the R-tree: the way of this tick touches the bounding box of
\* the road, which ends where the axis of the road does.
Relevant(r, from, to) ==
    LET x == IF IsVertical(r) THEN HalfWidth ELSE 0
        y == IF IsVertical(r) THEN 0 ELSE HalfWidth
    IN /\ MinX(r) - x <= Greater(from.x, to.x) /\ Lesser(from.x, to.x) <= MaxX(r) + x
       /\ MinY(r) - y <= Greater(from.y, to.y) /\ Lesser(from.y, to.y) <= MaxY(r) + y

\* Slip: the dog stops where the axis of the road ends, ahead or behind.
FindStopPointAxis(from, to, r, d) ==
    [x |-> IF d = "EAST" THEN Lesser(to.x, MaxX(r))
           ELSE IF d = "WEST" THEN Greater(to.x, MinX(r)) ELSE from.x,
     y |-> IF d = "SOUTH" THEN Lesser(to.y, MaxY(r))
           ELSE IF d = "NORTH" THEN Greater(to.y, MinY(r)) ELSE from.y]

\* Slip: the larger of the two instead of the smaller, and the other way round.
FindStopPointSwapped(from, to, r, d) ==
    [x |-> IF d = "EAST" THEN Greater(to.x, MaxX(r) + HalfWidth)
           ELSE IF d = "WEST" THEN Lesser(to.x, MinX(r) - HalfWidth) ELSE from.x,
     y |-> IF d = "SOUTH" THEN Greater(to.y, MaxY(r) + HalfWidth)
           ELSE IF d = "NORTH" THEN Lesser(to.y, MinY(r) - HalfWidth) ELSE from.y]

FindStopPoint(from, to, r, d) ==
    [x |-> IF d = "EAST" THEN Lesser(to.x, MaxX(r) + HalfWidth)
           ELSE IF d = "WEST" THEN Greater(to.x, MinX(r) - HalfWidth) ELSE from.x,
     y |-> IF d = "SOUTH" THEN Lesser(to.y, MaxY(r) + HalfWidth)
           ELSE IF d = "NORTH" THEN Greater(to.y, MinY(r) - HalfWidth) ELSE from.y]

\* The point a tick leads to, where the roads allow it.
Target(from, d, step) ==
    [x |-> IF d = "EAST" THEN from.x + step ELSE IF d = "WEST" THEN from.x - step ELSE from.x,
     y |-> IF d = "SOUTH" THEN from.y + step ELSE IF d = "NORTH" THEN from.y - step ELSE from.y]

\* The dog runs along one axis, so this is the length of its way.
Way(p, q) == Greater(p.x, q.x) - Lesser(p.x, q.x) + Greater(p.y, q.y) - Lesser(p.y, q.y)

-----------------------------------------------------------------------------
\* GetRandomPointOnRoad, or the start of the first road.
Init ==
    /\ \E r \in Roads : pos \in [x : MinX(r) .. MaxX(r), y : MinY(r) .. MaxY(r)]
    /\ pos.x % 10 = 0 /\ pos.y % 10 = 0
    /\ dir = "NORTH" /\ moving = FALSE

\* Player::MakeAction; the direction NONE is left out, as without a speed no
\* direction counts.
MakeAction(d) ==
    /\ dir' = d /\ moving' = TRUE
    /\ UNCHANGED pos

Stop ==
    /\ moving' = FALSE
    /\ UNCHANGED <<pos, dir>>

\* The roads that count, and the points they let the dog stop at.
Near(to) == {r \in Roads : Relevant(r, pos, to)}
Candidates(to) == {FindStopPoint(pos, to, r, dir) : r \in {s \in Near(to) : IsPointOnRoad(pos, s)}}

\* CalculateNewDogPosition of a dog with a speed: it stays, without a road;
\* it reaches its target, if one of the roads does; otherwise it stops at the
\* candidate that is farthest.
Tick(step) ==
    LET to == Target(pos, dir, step)
        roads == Near(to)
        candidates == {c \in Candidates(to) : Way(pos, c) > 0}
    IN /\ moving
       /\ \/ roads = {} /\ UNCHANGED <<pos, moving>>
          \/ (\E r \in roads : IsPointOnRoad(to, r)) /\ pos' = to /\ UNCHANGED moving
          \/ /\ roads # {} /\ \A r \in roads : ~ IsPointOnRoad(to, r)
             /\ moving' = FALSE
             /\ \/ candidates = {} /\ UNCHANGED pos
                \/ \E c \in candidates :
                     /\ \A e \in candidates : Way(pos, e) <= Way(pos, c)
                     /\ pos' = c
       /\ UNCHANGED dir

Next ==
    \/ \E d \in Directions : MakeAction(d)
    \/ Stop
    \/ \E step \in Steps : Tick(step)

Spec == Init /\ [][Next]_vars

-----------------------------------------------------------------------------
(***************************************************************************)
(* A dog is always on a road, wherever it turns and however long its ticks *)
(* are: the target is checked against the roads the query finds, and the   *)
(* stop point is cut at the end of a road the dog is on.                   *)
(***************************************************************************)
DogOnRoad == \E r \in Roads : IsPointOnRoad(pos, r)

(***************************************************************************)
(* A tick moves a dog in its direction or not at all, and never farther    *)
(* than its speed allows, when it stops at the end of a road as well.      *)
(***************************************************************************)
Ahead(p, q) ==
    /\ dir \in {"NORTH", "SOUTH"} => p.x = q.x
    /\ dir \in {"EAST", "WEST"} => p.y = q.y
    /\ dir = "EAST" => p.x <= q.x
    /\ dir = "WEST" => q.x <= p.x
    /\ dir = "SOUTH" => p.y <= q.y
    /\ dir = "NORTH" => q.y <= p.y

MovesAhead ==
    [][pos' # pos =>
          /\ moving
          /\ Ahead(pos, pos')
          /\ \E step \in Steps : Way(pos, pos') <= step]_vars

(***************************************************************************)
(* A dog that is stopped by the roads and not by its player stands at the  *)
(* edge of a road it was on: one tenth further is not on that road.        *)
(***************************************************************************)
HaltsAtAnEdge ==
    [][pos' # pos /\ ~ moving' =>
          \E r \in Roads : /\ IsPointOnRoad(pos, r) /\ IsPointOnRoad(pos', r)
                           /\ ~ IsPointOnRoad(Target(pos', dir, 1), r)]_vars

(***************************************************************************)
(* No dog is trapped.  Past the end of a road, where the road still holds  *)
(* it but the query finds nothing, a dog keeps its speed and stays where   *)
(* it is; still there is a direction in which one of the steps moves it.   *)
(***************************************************************************)
NeverTrapped ==
    \E d \in Directions, step \in Steps :
        LET to == Target(pos, d, step)
        IN \E r \in Roads :
              /\ Relevant(r, pos, to)
              /\ IF IsPointOnRoad(to, r) THEN to # pos
                 ELSE IsPointOnRoad(pos, r) /\ FindStopPoint(pos, to, r, d) # pos
=============================================================================
