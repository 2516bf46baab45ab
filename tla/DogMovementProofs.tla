------------------------- MODULE DogMovementProofs -------------------------
(***************************************************************************)
(* For every map and all lengths of a tick's way: a dog never leaves the   *)
(* roads, and a tick moves it ahead only.  DogOnRoad is inductive with the *)
(* types; the step is the one of a single road, since the stop point is    *)
(* computed from one road that the dog is on.  And it always gets away     *)
(* from where it is, by a tick that is long enough.                        *)
(***************************************************************************)
EXTENDS DogMovement, TLAPS

Typed ==
    /\ pos \in Point
    /\ dir \in Directions
    /\ moving \in BOOLEAN

IInv == Typed /\ DogOnRoad

\* A road with its ends in order.
LEMMA RoadEnds ==
    ASSUME NEW r \in Roads
    PROVE  /\ r.start.x \in Int /\ r.start.y \in Int /\ r.end.x \in Int /\ r.end.y \in Int
           /\ MinX(r) \in Int /\ MaxX(r) \in Int /\ MinY(r) \in Int /\ MaxY(r) \in Int
           /\ MinX(r) <= r.start.x /\ r.start.x <= MaxX(r)
           /\ MinY(r) <= r.start.y /\ r.start.y <= MaxY(r)
           /\ IsVertical(r) => MinX(r) = r.start.x /\ MaxX(r) = r.start.x
           /\ IsHorizontal(r) => MinY(r) = r.start.y /\ MaxY(r) = r.start.y
           /\ IsHorizontal(r) \/ IsVertical(r)
  BY RoadsAssumption DEF Point, MinX, MaxX, MinY, MaxY, Lesser, Greater, IsVertical, IsHorizontal

\* A road is its axis with half a width around it.
LEMMA RoadIsRectangle ==
    ASSUME NEW r \in Roads, NEW p \in Point
    PROVE  IsPointOnRoad(p, r) <=>
             /\ MinX(r) - HalfWidth <= p.x /\ p.x <= MaxX(r) + HalfWidth
             /\ MinY(r) - HalfWidth <= p.y /\ p.y <= MaxY(r) + HalfWidth
  BY RoadEnds DEF IsPointOnRoad, Point, HalfWidth, IsVertical, IsHorizontal

\* The target is ahead by the step.
LEMMA TargetAhead ==
    ASSUME Typed, NEW step \in Nat
    PROVE  /\ Target(pos, dir, step) \in Point
           /\ Ahead(pos, Target(pos, dir, step))
           /\ Way(pos, Target(pos, dir, step)) <= step
  BY DEF Typed, Point, Directions, Target, Ahead, Way, Greater, Lesser

\* The stop point is on the road the dog is on, between it and its target.
LEMMA StopPoint ==
    ASSUME Typed, NEW step \in Nat, NEW r \in Roads, IsPointOnRoad(pos, r),
           NEW c, c = FindStopPoint(pos, Target(pos, dir, step), r, dir)
    PROVE  /\ c \in Point
           /\ IsPointOnRoad(c, r)
           /\ Ahead(pos, c)
           /\ Way(pos, c) <= step
<1>1. /\ MinX(r) \in Int /\ MaxX(r) \in Int /\ MinY(r) \in Int /\ MaxY(r) \in Int
      /\ MinX(r) <= MaxX(r) /\ MinY(r) <= MaxY(r)
  BY RoadEnds
<1>2. /\ MinX(r) - HalfWidth <= pos.x /\ pos.x <= MaxX(r) + HalfWidth
      /\ MinY(r) - HalfWidth <= pos.y /\ pos.y <= MaxY(r) + HalfWidth
  BY RoadIsRectangle DEF Typed
<1>3. /\ c \in Point
      /\ Ahead(pos, c)
      /\ Way(pos, c) <= step
      /\ MinX(r) - HalfWidth <= c.x /\ c.x <= MaxX(r) + HalfWidth
      /\ MinY(r) - HalfWidth <= c.y /\ c.y <= MaxY(r) + HalfWidth
  <2>1. CASE dir = "EAST"
    BY <1>1, <1>2, <2>1 DEF Typed, Point, FindStopPoint, Target, Ahead, Way, Greater, Lesser, HalfWidth
  <2>2. CASE dir = "WEST"
    BY <1>1, <1>2, <2>2 DEF Typed, Point, FindStopPoint, Target, Ahead, Way, Greater, Lesser, HalfWidth
  <2>3. CASE dir = "NORTH"
    BY <1>1, <1>2, <2>3 DEF Typed, Point, FindStopPoint, Target, Ahead, Way, Greater, Lesser, HalfWidth
  <2>4. CASE dir = "SOUTH"
    BY <1>1, <1>2, <2>4 DEF Typed, Point, FindStopPoint, Target, Ahead, Way, Greater, Lesser, HalfWidth
  <2> QED
    BY <2>1, <2>2, <2>3, <2>4 DEF Typed, Directions
<1> QED
  BY <1>3, RoadIsRectangle

\* What a tick does to a dog on a road.
LEMMA TickStep ==
    ASSUME IInv, NEW step \in Steps, Tick(step)
    PROVE  /\ IInv'
           /\ pos' # pos => moving /\ Ahead(pos, pos') /\ Way(pos, pos') <= step
<1> DEFINE to == Target(pos, dir, step)
<1>1. step \in Nat
  BY StepsAssumption
<1>2. moving /\ dir' = dir /\ moving' \in BOOLEAN
  BY DEF Tick, IInv, Typed
<1>3. CASE UNCHANGED pos
  BY <1>2, <1>3 DEF IInv, Typed, DogOnRoad, IsPointOnRoad
<1>4. CASE (\E r \in Near(to) : IsPointOnRoad(to, r)) /\ pos' = to
  <2>1. to \in Point /\ Ahead(pos, to) /\ Way(pos, to) <= step
    BY <1>1, TargetAhead DEF IInv
  <2>2. \E r \in Roads : IsPointOnRoad(pos', r)
    BY <1>4 DEF Near
  <2> QED
    BY <1>2, <1>4, <2>1, <2>2 DEF IInv, Typed, DogOnRoad, IsPointOnRoad
<1>5. CASE \E c \in Candidates(to) : pos' = c
  <2>1. PICK r \in Roads : IsPointOnRoad(pos, r) /\ pos' = FindStopPoint(pos, to, r, dir)
    BY <1>5 DEF Candidates, Near
  <2>2. pos' \in Point /\ IsPointOnRoad(pos', r) /\ Ahead(pos, pos') /\ Way(pos, pos') <= step
    BY <1>1, <2>1, StopPoint DEF IInv
  <2> QED
    BY <1>2, <2>2 DEF IInv, Typed, DogOnRoad, IsPointOnRoad
<1>6. \/ UNCHANGED pos
      \/ (\E r \in Near(to) : IsPointOnRoad(to, r)) /\ pos' = to
      \/ \E c \in Candidates(to) : pos' = c
  BY DEF Tick
<1> QED
  BY <1>3, <1>4, <1>5, <1>6

LEMMA InitIInv == Init => IInv
<1> SUFFICES ASSUME Init PROVE IInv
  OBVIOUS
<1>1. PICK r \in Roads : pos \in [x : MinX(r) .. MaxX(r), y : MinY(r) .. MaxY(r)]
  BY DEF Init
<1>2. pos \in Point /\ IsPointOnRoad(pos, r)
  <2>1. /\ pos \in Point
        /\ MinX(r) <= pos.x /\ pos.x <= MaxX(r) /\ MinY(r) <= pos.y /\ pos.y <= MaxY(r)
    BY <1>1, RoadEnds DEF Point
  <2> QED
    BY <2>1, RoadEnds, RoadIsRectangle DEF Point, HalfWidth
<1> QED
  BY <1>2 DEF Init, IInv, Typed, Directions, DogOnRoad

LEMMA NextIInv == IInv /\ [Next]_vars => IInv'
<1> SUFFICES ASSUME IInv, [Next]_vars PROVE IInv'
  OBVIOUS
<1>1. CASE \E d \in Directions : MakeAction(d)
  BY <1>1 DEF MakeAction, IInv, Typed, DogOnRoad, IsPointOnRoad
<1>2. CASE Stop
  BY <1>2 DEF Stop, IInv, Typed, DogOnRoad, IsPointOnRoad
<1>3. CASE \E step \in Steps : Tick(step)
  BY <1>3, TickStep
<1>4. CASE UNCHANGED vars
  BY <1>4 DEF vars, IInv, Typed, DogOnRoad, IsPointOnRoad
<1> QED
  BY <1>1, <1>2, <1>3, <1>4 DEF Next

LEMMA Invariant == Spec => []IInv
  BY InitIInv, NextIInv, PTL DEF Spec

(***************************************************************************)
(* CalculateNewDogPosition never takes a dog off the roads.                *)
(***************************************************************************)
THEOREM DogsStayOnRoads == Spec => []DogOnRoad
<1>1. IInv => DogOnRoad
  BY DEF IInv
<1> QED
  BY <1>1, Invariant, PTL

(***************************************************************************)
(* It moves a dog in the dog's direction, by at most the way of the tick.  *)
(***************************************************************************)
THEOREM DogsMoveAhead == Spec => MovesAhead
<1> DEFINE Moved == pos' # pos => /\ moving
                                  /\ Ahead(pos, pos')
                                  /\ \E step \in Steps : Way(pos, pos') <= step
<1>1. IInv /\ [Next]_vars => [Moved]_vars
  <2> SUFFICES ASSUME IInv, Next PROVE Moved
    BY DEF vars
  <2>1. CASE \E step \in Steps : Tick(step)
    BY <2>1, TickStep
  <2>2. CASE Stop \/ \E d \in Directions : MakeAction(d)
    BY <2>2 DEF Stop, MakeAction
  <2> QED
    BY <2>1, <2>2 DEF Next
<1> QED
  BY <1>1, Invariant, PTL DEF Spec, MovesAhead

\* A target beyond a road the dog is on: the stop point is at the edge.
LEMMA StopPointAtEdge ==
    ASSUME Typed, NEW step \in Nat, NEW r \in Roads, IsPointOnRoad(pos, r),
           ~ IsPointOnRoad(Target(pos, dir, step), r),
           NEW c, c = FindStopPoint(pos, Target(pos, dir, step), r, dir)
    PROVE  ~ IsPointOnRoad(Target(c, dir, 1), r)
<1>1. MinX(r) \in Int /\ MaxX(r) \in Int /\ MinY(r) \in Int /\ MaxY(r) \in Int
  BY RoadEnds
<1>2. /\ MinX(r) - HalfWidth <= pos.x /\ pos.x <= MaxX(r) + HalfWidth
      /\ MinY(r) - HalfWidth <= pos.y /\ pos.y <= MaxY(r) + HalfWidth
  BY RoadIsRectangle DEF Typed
<1> DEFINE to == Target(pos, dir, step)
           beyond == Target(c, dir, 1)
<1>3. c \in Point /\ to \in Point
  BY StopPoint, TargetAhead
<1>4. beyond \in Point
  BY <1>3 DEF Typed, Directions, Point, Target
<1>5. ~ /\ MinX(r) - HalfWidth <= to.x /\ to.x <= MaxX(r) + HalfWidth
        /\ MinY(r) - HalfWidth <= to.y /\ to.y <= MaxY(r) + HalfWidth
  BY <1>3, RoadIsRectangle
<1>6. ~ /\ MinX(r) - HalfWidth <= beyond.x /\ beyond.x <= MaxX(r) + HalfWidth
        /\ MinY(r) - HalfWidth <= beyond.y /\ beyond.y <= MaxY(r) + HalfWidth
  <2>1. CASE dir = "EAST"
    BY <1>1, <1>2, <1>5, <2>1 DEF Typed, Point, FindStopPoint, Target, Greater, Lesser, HalfWidth
  <2>2. CASE dir = "WEST"
    BY <1>1, <1>2, <1>5, <2>2 DEF Typed, Point, FindStopPoint, Target, Greater, Lesser, HalfWidth
  <2>3. CASE dir = "NORTH"
    BY <1>1, <1>2, <1>5, <2>3 DEF Typed, Point, FindStopPoint, Target, Greater, Lesser, HalfWidth
  <2>4. CASE dir = "SOUTH"
    BY <1>1, <1>2, <1>5, <2>4 DEF Typed, Point, FindStopPoint, Target, Greater, Lesser, HalfWidth
  <2> QED
    BY <2>1, <2>2, <2>3, <2>4 DEF Typed, Directions
<1> QED
  BY <1>4, <1>6, RoadIsRectangle

(***************************************************************************)
(* A dog that CalculateNewDogPosition stops stands at the edge of a road   *)
(* it was on: no road it was on lets it go further.                        *)
(***************************************************************************)
THEOREM DogsHaltAtEdges == Spec => HaltsAtAnEdge
<1> DEFINE Halted == pos' # pos /\ ~ moving' =>
                       \E r \in Roads : /\ IsPointOnRoad(pos, r) /\ IsPointOnRoad(pos', r)
                                        /\ ~ IsPointOnRoad(Target(pos', dir, 1), r)
<1>1. IInv /\ [Next]_vars => [Halted]_vars
  <2> SUFFICES ASSUME IInv, Next, pos' # pos, ~ moving'
               PROVE  \E r \in Roads : /\ IsPointOnRoad(pos, r) /\ IsPointOnRoad(pos', r)
                                       /\ ~ IsPointOnRoad(Target(pos', dir, 1), r)
    BY DEF vars
  <2>1. PICK step \in Steps : Tick(step)
    BY DEF Next, Stop, MakeAction
  <2> DEFINE to == Target(pos, dir, step)
  <2>2. /\ \A r \in Near(to) : ~ IsPointOnRoad(to, r)
        /\ \E c \in Candidates(to) : pos' = c
    BY <2>1 DEF Tick
  <2>3. PICK r \in Near(to) : IsPointOnRoad(pos, r) /\ pos' = FindStopPoint(pos, to, r, dir)
    BY <2>2 DEF Candidates
  <2>4. r \in Roads /\ ~ IsPointOnRoad(to, r) /\ step \in Nat /\ Typed
    BY <2>2, <2>3, StepsAssumption DEF Near, IInv
  <2>5. IsPointOnRoad(pos', r) /\ ~ IsPointOnRoad(Target(pos', dir, 1), r)
    BY <2>3, <2>4, StopPoint, StopPointAtEdge
  <2> QED
    BY <2>3, <2>4, <2>5
<1> QED
  BY <1>1, Invariant, PTL DEF Spec, HaltsAtAnEdge

-----------------------------------------------------------------------------
\* The bounding box of a road, and that a dog at p gets away from there.
InBox(p, r) == Relevant(r, p, p)
CanLeave(p) ==
    \E d \in Directions, step \in Steps :
        LET to == Target(p, d, step)
        IN \E r \in Roads :
              /\ Relevant(r, p, to)
              /\ IF IsPointOnRoad(to, r) THEN to # p
                 ELSE IsPointOnRoad(p, r) /\ FindStopPoint(p, to, r, d) # p

Opposite(d) == CASE d = "EAST" -> "WEST" [] d = "WEST" -> "EAST"
                 [] d = "NORTH" -> "SOUTH" [] d = "SOUTH" -> "NORTH"

\* It does, if the stop point of a road it is on is elsewhere.
LEMMA LeavesByStopPoint ==
    ASSUME NEW p \in Point, NEW d \in Directions, NEW step \in Steps, step > 0,
           NEW r \in Roads, IsPointOnRoad(p, r),
           Relevant(r, p, Target(p, d, step)),
           FindStopPoint(p, Target(p, d, step), r, d) # p
    PROVE  CanLeave(p)
<1>1. Target(p, d, step) # p
  BY StepsAssumption DEF Target, Directions, Point
<1> QED
  BY <1>1 DEF CanLeave

\* In the box of a road a dog can at least go across the road.
LEMMA BoxReleases ==
    ASSUME NEW p \in Point, NEW r \in Roads, InBox(p, r), NEW step \in Steps, step > 0
    PROVE  CanLeave(p)
<1>1. /\ MinX(r) \in Int /\ MaxX(r) \in Int /\ MinY(r) \in Int /\ MaxY(r) \in Int
      /\ MinX(r) <= MaxX(r) /\ MinY(r) <= MaxY(r)
      /\ IsVertical(r) => MinX(r) = MaxX(r)
      /\ ~ IsVertical(r) => MinY(r) = MaxY(r)
  BY RoadEnds
<1>2. p.x \in Int /\ p.y \in Int /\ step \in Nat
  BY StepsAssumption DEF Point
<1>3. IsPointOnRoad(p, r)
  BY <1>1, <1>2, RoadIsRectangle DEF InBox, Relevant, Greater, Lesser, HalfWidth
<1>4. CASE IsVertical(r)
  <2>1. \E d \in {"EAST", "WEST"} : /\ Relevant(r, p, Target(p, d, step))
                                    /\ FindStopPoint(p, Target(p, d, step), r, d) # p
    <3>1. CASE p.x <= MaxX(r)
      BY <1>1, <1>2, <1>4, <3>1 DEF InBox, Target, Relevant, FindStopPoint, Greater, Lesser, HalfWidth
    <3>2. CASE p.x > MaxX(r)
      BY <1>1, <1>2, <1>4, <3>2 DEF InBox, Target, Relevant, FindStopPoint, Greater, Lesser, HalfWidth
    <3> QED BY <1>1, <1>2, <3>1, <3>2
  <2> QED BY <1>3, <2>1, LeavesByStopPoint DEF Directions
<1>5. CASE ~ IsVertical(r)
  <2>1. \E d \in {"NORTH", "SOUTH"} : /\ Relevant(r, p, Target(p, d, step))
                                      /\ FindStopPoint(p, Target(p, d, step), r, d) # p
    <3>1. CASE p.y <= MaxY(r)
      BY <1>1, <1>2, <1>5, <3>1 DEF InBox, Target, Relevant, FindStopPoint, Greater, Lesser, HalfWidth
    <3>2. CASE p.y > MaxY(r)
      BY <1>1, <1>2, <1>5, <3>2 DEF InBox, Target, Relevant, FindStopPoint, Greater, Lesser, HalfWidth
    <3> QED BY <1>1, <1>2, <3>1, <3>2
  <2> QED BY <1>3, <2>1, LeavesByStopPoint DEF Directions
<1> QED
  BY <1>4, <1>5

\* Past the end of a road, the way that led there leads back as well.
LEMMA WayBack ==
    ASSUME NEW p \in Point, NEW d \in Directions, NEW step \in Nat, NEW r \in Roads,
           Relevant(r, p, Target(p, d, step)),
           NEW c \in Point, c = FindStopPoint(p, Target(p, d, step), r, d),
           IsPointOnRoad(c, r), ~ InBox(c, r)
    PROVE  /\ step > 0
           /\ Relevant(r, c, Target(c, Opposite(d), step))
           /\ FindStopPoint(c, Target(c, Opposite(d), step), r, Opposite(d)) # c
<1>1. /\ MinX(r) \in Int /\ MaxX(r) \in Int /\ MinY(r) \in Int /\ MaxY(r) \in Int
      /\ MinX(r) <= MaxX(r) /\ MinY(r) <= MaxY(r)
  BY RoadEnds
<1>2. /\ p.x \in Int /\ p.y \in Int
      /\ MinX(r) - HalfWidth <= c.x /\ c.x <= MaxX(r) + HalfWidth
      /\ MinY(r) - HalfWidth <= c.y /\ c.y <= MaxY(r) + HalfWidth
  BY RoadIsRectangle DEF Point
<1>3. CASE d = "EAST"
  BY <1>1, <1>2, <1>3 DEF InBox, Opposite, Target, Relevant, FindStopPoint, Greater, Lesser, HalfWidth
<1>4. CASE d = "WEST"
  BY <1>1, <1>2, <1>4 DEF InBox, Opposite, Target, Relevant, FindStopPoint, Greater, Lesser, HalfWidth
<1>5. CASE d = "NORTH"
  BY <1>1, <1>2, <1>5 DEF InBox, Opposite, Target, Relevant, FindStopPoint, Greater, Lesser, HalfWidth
<1>6. CASE d = "SOUTH"
  BY <1>1, <1>2, <1>6 DEF InBox, Opposite, Target, Relevant, FindStopPoint, Greater, Lesser, HalfWidth
<1> QED
  BY <1>3, <1>4, <1>5, <1>6 DEF Directions

\* So a dog that got to a point of a road by its stop point gets away again.
LEMMA ArrivedCanLeave ==
    ASSUME NEW p \in Point, NEW d \in Directions, NEW step \in Steps, NEW r \in Roads,
           Relevant(r, p, Target(p, d, step)),
           NEW c \in Point, c = FindStopPoint(p, Target(p, d, step), r, d),
           IsPointOnRoad(c, r), \E s \in Steps : s > 0
    PROVE  CanLeave(c)
<1>1. CASE InBox(c, r)
  BY <1>1, BoxReleases
<1>2. CASE ~ InBox(c, r)
  <2>1. step \in Nat
    BY StepsAssumption
  <2>2. /\ step > 0
        /\ Relevant(r, c, Target(c, Opposite(d), step))
        /\ FindStopPoint(c, Target(c, Opposite(d), step), r, Opposite(d)) # c
    BY <1>2, <2>1, WayBack
  <2>3. Opposite(d) \in Directions
    BY DEF Opposite, Directions
  <2> QED BY <2>2, <2>3, LeavesByStopPoint
<1> QED
  BY <1>1, <1>2

\* A target on a road is its own stop point.
LEMMA TargetIsStopPoint ==
    ASSUME Typed, NEW step \in Nat, NEW r \in Roads,
           IsPointOnRoad(Target(pos, dir, step), r)
    PROVE  Target(pos, dir, step) = FindStopPoint(pos, Target(pos, dir, step), r, dir)
<1> DEFINE to == Target(pos, dir, step)
<1>1. /\ MinX(r) \in Int /\ MaxX(r) \in Int /\ MinY(r) \in Int /\ MaxY(r) \in Int
  BY RoadEnds
<1>2. to \in Point
  BY TargetAhead
<1>3. /\ MinX(r) - HalfWidth <= to.x /\ to.x <= MaxX(r) + HalfWidth
      /\ MinY(r) - HalfWidth <= to.y /\ to.y <= MaxY(r) + HalfWidth
  BY <1>2, RoadIsRectangle
<1> QED
  BY <1>1, <1>3 DEF Typed, Point, Directions, Target, FindStopPoint, Greater, Lesser, HalfWidth

(***************************************************************************)
(* On any map nobody is trapped, if only there are ticks in which a dog    *)
(* makes any way at all.  Inductive, though the query may find no road     *)
(* where the dog is: it came there past the end of a road in one tick, and *)
(* a tick of that length takes it back.                                    *)
(***************************************************************************)
THEOREM NobodyIsTrapped ==
    ASSUME \E step \in Steps : step > 0
    PROVE  Spec => []NeverTrapped
<1>1. NeverTrapped <=> CanLeave(pos)
  BY DEF NeverTrapped, CanLeave
<1>2. Init => NeverTrapped
  <2> SUFFICES ASSUME Init PROVE NeverTrapped
    OBVIOUS
  <2>1. PICK r \in Roads : pos \in [x : MinX(r) .. MaxX(r), y : MinY(r) .. MaxY(r)]
    BY DEF Init
  <2>2. pos \in Point /\ InBox(pos, r)
    BY <2>1, RoadEnds DEF Point, InBox, Relevant, Greater, Lesser, HalfWidth
  <2> QED BY <1>1, <2>2, BoxReleases
<1>3. IInv /\ NeverTrapped /\ [Next]_vars => NeverTrapped'
  <2> SUFFICES ASSUME IInv, NeverTrapped, [Next]_vars PROVE CanLeave(pos')
    BY DEF NeverTrapped, CanLeave
  <2>1. CASE UNCHANGED pos
    BY <1>1, <2>1
  <2>2. ASSUME NEW step \in Steps, Tick(step), pos' # pos
        PROVE  CanLeave(pos')
    <3> DEFINE to == Target(pos, dir, step)
    <3>1. Typed /\ step \in Nat /\ IInv'
      BY <2>2, StepsAssumption, TickStep DEF IInv
    <3>2. pos \in Point /\ dir \in Directions /\ pos' \in Point
      BY <3>1 DEF IInv, Typed
    <3>3. PICK r \in Near(to) : /\ IsPointOnRoad(pos', r)
                                /\ pos' = FindStopPoint(pos, to, r, dir)
      <4>1. CASE (\E r \in Near(to) : IsPointOnRoad(to, r)) /\ pos' = to
        BY <3>1, <4>1, TargetIsStopPoint DEF Near
      <4>2. CASE \E c \in Candidates(to) : pos' = c
        BY <3>1, <4>2, StopPoint DEF Candidates, Near
      <4> QED BY <2>2, <4>1, <4>2 DEF Tick
    <3> QED BY <3>2, <3>3, ArrivedCanLeave DEF Near
  <2> QED BY <2>1, <2>2 DEF Next, MakeAction, Stop, vars
<1> QED
  BY <1>2, <1>3, Invariant, PTL DEF Spec

(***************************************************************************)
(* Not every tick will do: at the dead end of the only road the query      *)
(* finds the road for ways of half its width and more only (0.4: at a      *)
(* speed of 4, ticks of 100 ms), and in shorter ticks a dog that was       *)
(* stopped there stays, whichever way it turns.                            *)
(***************************************************************************)
THEOREM DeadEndHolds ==
    ASSUME NEW r \in Roads, Roads = {r}, ~ IsVertical(r),
           Typed, IsPointOnRoad(pos, r), pos.x = MaxX(r) + HalfWidth,
           NEW step \in Steps, step < HalfWidth, Tick(step)
    PROVE  pos' = pos /\ moving'
<1>1. /\ MinX(r) \in Int /\ MaxX(r) \in Int /\ MinY(r) \in Int /\ MaxY(r) \in Int
      /\ MinX(r) <= MaxX(r)
  BY RoadEnds
<1>2. step \in Nat /\ pos \in Point /\ dir \in Directions
  BY StepsAssumption DEF Typed
<1>3. ~ Relevant(r, pos, Target(pos, dir, step))
  BY <1>1, <1>2 DEF Directions, Target, Relevant, Greater, Lesser, HalfWidth, Point
<1>4. Near(Target(pos, dir, step)) = {}
  BY <1>3 DEF Near
<1> QED
  BY <1>4 DEF Tick
=============================================================================
