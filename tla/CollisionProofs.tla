-------------------------- MODULE CollisionProofs --------------------------
(***************************************************************************)
(* The collision detector and what the game makes of its events.  First    *)
(* the arithmetic, for all integers: for a move along an axis the          *)
(* projection and the squared distance, compared by IsCollected, describe  *)
(* the band of the move.  Products of variables are beyond linear          *)
(* arithmetic, so the signs of products come first.  Then DogSweep, one    *)
(* dog and one item; then GatherLoot, the pass over all the events of a    *)
(* tick, with the inductive invariant IInv.                                *)
(***************************************************************************)
EXTENDS DogSweep, GatherLoot, SequenceTheorems, TLAPS

IntPoint == [x : Int, y : Int]

\* A factor that is positive does not change the sign.
LEMMA ProductSign ==
    ASSUME NEW s \in Int, NEW t \in Int, s > 0
    PROVE  s * t \in Int /\ (s * t >= 0 <=> t >= 0) /\ (s * t > 0 <=> t > 0)
  BY Z3T(20)

\* Squares compare like absolute values.
LEMMA SquareMonotone ==
    ASSUME NEW s \in Int, NEW r \in Nat
    PROVE  s * s <= r * r <=> (s <= r /\ -s <= r)
<1>1. r * r - s * s = (r - s) * (r + s)
  BY Z3T(20)
<1>2. CASE s <= r /\ -s <= r
  <2>1. CASE r - s > 0
    BY <1>1, <1>2, <2>1, ProductSign, Z3T(20)
  <2>2. CASE r - s = 0
    BY <2>2, <1>2
  <2> QED BY <2>1, <2>2, <1>2
<1>3. CASE s > r
  BY <1>1, <1>3, ProductSign, Z3T(20)
<1>4. CASE -s > r
  BY <1>1, <1>4, ProductSign, Z3T(20)
<1> QED
  BY <1>2, <1>3, <1>4

\* The comparison may be multiplied by the square of the length.
LEMMA ScaleBySquare ==
    ASSUME NEW s \in Int, NEW t \in Int, NEW w \in Int, w > 0
    PROVE  s * w <= t * w <=> s <= t
<1>1. t * w - s * w = w * (t - s)
  BY Z3T(20)
<1> QED
  BY <1>1, ProductSign, Z3T(20)

\* The projection is inside the move exactly when the offset along it is.
LEMMA ProjectionInside ==
    ASSUME NEW u \in Int, NEW v \in Int, v # 0
    PROVE  (u * v >= 0 /\ u * v <= v * v) <=> Between(u, 0, v)
<1>1. CASE v > 0
  <2>1. u * v = v * u /\ v * v - u * v = v * (v - u)
    BY Z3T(20)
  <2> QED
    BY <1>1, <2>1, ProductSign, Z3T(20) DEF Between
<1>2. CASE v < 0
  <2>1. u * v = (-v) * (-u) /\ v * v - u * v = (-v) * (u - v)
    BY Z3T(20)
  <2> QED
    BY <1>2, <2>1, ProductSign, Z3T(20) DEF Between
<1> QED
  BY <1>1, <1>2

-----------------------------------------------------------------------------
(***************************************************************************)
(* The numbers TryCollectPoint compares, for an offset <<u, h>> of the     *)
(* item, along and across a move of length v: the condition is that u is   *)
(* between 0 and v and h not larger than the radius.                       *)
(***************************************************************************)
LEMMA AlongOneAxis ==
    ASSUME NEW u \in Int, NEW h \in Int, NEW v \in Int, v # 0, NEW r \in Nat
    PROVE  /\ u * v \in Int /\ v * v \in Int
           /\ (/\ u * v >= 0
               /\ u * v <= v * v
               /\ (u * u + h * h) * (v * v) - (u * v) * (u * v) <= r * r * (v * v))
              <=> Between(u, 0, v) /\ h <= r /\ -h <= r
<1>1. u * v \in Int /\ v * v \in Int /\ h * h \in Int /\ r * r \in Int
  BY Z3T(20)
<1>2. v * v > 0
  <2>1. CASE v > 0
    BY <2>1, ProductSign
  <2>2. CASE v < 0
    <3>1. v * v = (-v) * (-v)
      BY Z3T(20)
    <3> QED BY <2>2, <3>1, ProductSign
  <2> QED BY <2>1, <2>2
<1>3. (u * u + h * h) * (v * v) - (u * v) * (u * v) = (h * h) * (v * v)
  BY Z3T(20)
<1>4. (h * h) * (v * v) <= (r * r) * (v * v) <=> h * h <= r * r
  BY <1>1, <1>2, ScaleBySquare
<1>5. h * h <= r * r <=> h <= r /\ -h <= r
  BY SquareMonotone
<1> QED
  BY <1>1, <1>3, <1>4, <1>5, ProjectionInside

(***************************************************************************)
(* TryCollectPoint and IsCollected, for a dog that moved along the x axis: *)
(* an item is collected exactly when it lies in the band of the move.      *)
(***************************************************************************)
THEOREM HorizontalMove ==
    ASSUME NEW a \in IntPoint, NEW b \in IntPoint, NEW c \in IntPoint, NEW r \in Nat,
           a.y = b.y, a.x # b.x
    PROVE  IsCollected(TryCollectPoint(a, b, c), r)
             <=> Between(c.x, a.x, b.x) /\ c.y - a.y <= r /\ a.y - c.y <= r
<1> DEFINE u == c.x - a.x
           h == c.y - a.y
           v == b.x - a.x
<1>1. /\ a.x \in Int /\ a.y \in Int /\ b.x \in Int /\ b.y \in Int /\ c.x \in Int /\ c.y \in Int
      /\ u \in Int /\ h \in Int /\ v \in Int /\ v # 0 /\ b.y - a.y = 0
  BY DEF IntPoint
<1>2. /\ u * v \in Int /\ v * v \in Int /\ u * u \in Int /\ h * h \in Int
      /\ h * 0 = 0 /\ 0 * 0 = 0
  BY <1>1, Z3T(20)
<1>3. TryCollectPoint(a, b, c) =
        [proj |-> u * v, length2 |-> v * v,
         area2 |-> (u * u + h * h) * (v * v) - (u * v) * (u * v)]
  <2>1. Dot(Vec(a, c), Vec(a, b)) = u * v
    BY <1>1, <1>2 DEF Dot, Vec
  <2>2. Dot(Vec(a, b), Vec(a, b)) = v * v
    BY <1>1, <1>2 DEF Dot, Vec
  <2>3. Dot(Vec(a, c), Vec(a, c)) = u * u + h * h
    BY DEF Dot, Vec
  <2> QED BY <2>1, <2>2, <2>3 DEF TryCollectPoint
<1>4. IsCollected(TryCollectPoint(a, b, c), r) <=> Between(u, 0, v) /\ h <= r /\ -h <= r
  <2> HIDE DEF u, h, v
  <2> QED BY <1>1, <1>3, AlongOneAxis DEF IsCollected
<1>5. Between(u, 0, v) <=> Between(c.x, a.x, b.x)
  BY <1>1 DEF Between
<1> QED
  BY <1>1, <1>4, <1>5

(***************************************************************************)
(* The same for a dog that moved along the y axis.                         *)
(***************************************************************************)
THEOREM VerticalMove ==
    ASSUME NEW a \in IntPoint, NEW b \in IntPoint, NEW c \in IntPoint, NEW r \in Nat,
           a.x = b.x, a.y # b.y
    PROVE  IsCollected(TryCollectPoint(a, b, c), r)
             <=> Between(c.y, a.y, b.y) /\ c.x - a.x <= r /\ a.x - c.x <= r
<1> DEFINE u == c.y - a.y
           h == c.x - a.x
           v == b.y - a.y
<1>1. /\ a.x \in Int /\ a.y \in Int /\ b.x \in Int /\ b.y \in Int /\ c.x \in Int /\ c.y \in Int
      /\ u \in Int /\ h \in Int /\ v \in Int /\ v # 0 /\ b.x - a.x = 0
  BY DEF IntPoint
<1>2. /\ u * v \in Int /\ v * v \in Int /\ u * u \in Int /\ h * h \in Int
      /\ h * 0 = 0 /\ 0 * 0 = 0 /\ u * u + h * h = h * h + u * u
  BY <1>1, Z3T(20)
<1>3. TryCollectPoint(a, b, c) =
        [proj |-> u * v, length2 |-> v * v,
         area2 |-> (u * u + h * h) * (v * v) - (u * v) * (u * v)]
  <2>1. Dot(Vec(a, c), Vec(a, b)) = u * v
    BY <1>1, <1>2 DEF Dot, Vec
  <2>2. Dot(Vec(a, b), Vec(a, b)) = v * v
    BY <1>1, <1>2 DEF Dot, Vec
  <2>3. Dot(Vec(a, c), Vec(a, c)) = u * u + h * h
    BY <1>2 DEF Dot, Vec
  <2> QED BY <2>1, <2>2, <2>3 DEF TryCollectPoint
<1>4. IsCollected(TryCollectPoint(a, b, c), r) <=> Between(u, 0, v) /\ h <= r /\ -h <= r
  <2> HIDE DEF u, h, v
  <2> QED BY <1>1, <1>3, AlongOneAxis DEF IsCollected
<1>5. Between(u, 0, v) <=> Between(c.y, a.y, b.y)
  BY <1>1 DEF Between
<1> QED
  BY <1>1, <1>4, <1>5

-----------------------------------------------------------------------------
\* A dog's last move was along an axis, or it stayed.
AxisMove ==
    /\ start \in PointSet /\ end \in PointSet /\ item \in PointSet
    /\ width \in Widths
    /\ start.x = end.x \/ start.y = end.y

LEMMA AxisMoveInvariant == SweepSpec => []AxisMove
<1>1. SweepInit => AxisMove
  BY DEF SweepInit, AxisMove
<1>2. AxisMove /\ [SweepNext]_sweepVars => AxisMove'
  BY DEF AxisMove, SweepNext, Move, sweepVars
<1> QED
  BY <1>1, <1>2, PTL DEF SweepSpec

\* One gatherer, that goes from a to b, and the band it sweeps.
Mover(a, b) == <<[start |-> a, end |-> b, width |-> 0]>>
BandOf(a, b) ==
    \/ a.y = b.y /\ Between(item.x, a.x, b.x) /\ Near(item.y, a.y)
    \/ a.x = b.x /\ Between(item.y, a.y, b.y) /\ Near(item.x, a.x)

\* With one item and one gatherer there is an event or there is none.
LEMMA OneEvent ==
    ASSUME NEW a, NEW b
    PROVE  Events(OneItem, Mover(a, b)) # {}
             <=> a # b /\ IsCollected(TryCollectPoint(a, b, item), 0 + width)
<1>1. Len(OneItem) = 1 /\ Len(Mover(a, b)) = 1
  BY DEF OneItem, Mover
<1>2. 0 .. 1 - 1 = {0}
  OBVIOUS
<1>3. Events(OneItem, Mover(a, b)) # {} <=> Hit(OneItem, Mover(a, b), 0, 0)
  <2>1. Events(OneItem, Mover(a, b)) =
          {Event(OneItem, Mover(a, b), gi[1], gi[2]) :
              gi \in {p \in {0} \X {0} : Hit(OneItem, Mover(a, b), p[1], p[2])}}
    BY <1>1, <1>2 DEF Events
  <2>2. \A p \in {0} \X {0} : p[1] = 0 /\ p[2] = 0
    OBVIOUS
  <2>3. <<0, 0>> \in {0} \X {0}
    OBVIOUS
  <2> QED
    BY <2>1, <2>2, <2>3
<1>4. /\ Mover(a, b)[0 + 1] = [start |-> a, end |-> b, width |-> 0]
      /\ OneItem[0 + 1] = [position |-> item, width |-> width, type |-> "loot"]
  BY DEF OneItem, Mover
<1> QED
  BY <1>3, <1>4 DEF Hit

\* A move along an axis has an event exactly when the item is in its band.
LEMMA MoveFindsItsBand ==
    ASSUME NEW a \in IntPoint, NEW b \in IntPoint, item \in IntPoint, width \in Nat,
           a.x = b.x \/ a.y = b.y
    PROVE  Events(OneItem, Mover(a, b)) # {} <=> a # b /\ BandOf(a, b)
<1>1. /\ a.x \in Int /\ a.y \in Int /\ b.x \in Int /\ b.y \in Int
      /\ item.x \in Int /\ item.y \in Int /\ 0 + width = width
  BY DEF IntPoint
<1>2. a = b <=> a.x = b.x /\ a.y = b.y
  BY DEF IntPoint
<1>3. ASSUME a # b
      PROVE  IsCollected(TryCollectPoint(a, b, item), width) <=> BandOf(a, b)
  <2>1. CASE a.y = b.y /\ a.x # b.x
    BY <1>1, <2>1, HorizontalMove DEF BandOf, Near
  <2>2. CASE a.x = b.x /\ a.y # b.y
    BY <1>1, <2>2, VerticalMove DEF BandOf, Near
  <2> QED
    BY <1>2, <1>3, <2>1, <2>2
<1> QED
  BY <1>1, <1>3, OneEvent

\* The points of an axis move are points of the integers.
LEMMA AxisMovePoints ==
    AxisMove => /\ PointSet \subseteq IntPoint
                /\ start \in IntPoint /\ end \in IntPoint /\ item \in IntPoint
                /\ width \in Nat
  BY SweepAssumption DEF SweepAssumption, AxisMove, PointSet, Coordinates, IntPoint

(***************************************************************************)
(* For every map and every width: FindGatherEvents reports an item for a   *)
(* dog that moved exactly when it lies in the band of the move.            *)
(***************************************************************************)
THEOREM SweepFindsTheBand == SweepSpec => []CollectedIsInBand
<1>1. AxisMove => CollectedIsInBand
  <2> HAVE AxisMove
  <2>1. Events(OneItem, Mover(start, end)) # {} <=> start # end /\ BandOf(start, end)
    BY AxisMovePoints, MoveFindsItsBand DEF AxisMove
  <2> QED
    BY <2>1 DEF CollectedIsInBand, OneGatherer, Mover, InBand, BandOf
<1> QED
  BY <1>1, AxisMoveInvariant, PTL

\* The band of a move along an axis is covered by those of its two parts.
LEMMA BandsOfTheParts ==
    ASSUME NEW a \in IntPoint, NEW b \in IntPoint, NEW p \in IntPoint,
           item \in IntPoint, width \in Nat,
           Between(p.x, a.x, b.x), Between(p.y, a.y, b.y),
           a.x = b.x \/ a.y = b.y
    PROVE  /\ (a.x = p.x \/ a.y = p.y) /\ (p.x = b.x \/ p.y = b.y)
           /\ (a # b /\ BandOf(a, b))
                <=> (a # p /\ BandOf(a, p)) \/ (p # b /\ BandOf(p, b))
<1>1. /\ a.x \in Int /\ a.y \in Int /\ b.x \in Int /\ b.y \in Int
      /\ p.x \in Int /\ p.y \in Int /\ item.x \in Int /\ item.y \in Int
  BY DEF IntPoint
<1>2. /\ a = b <=> a.x = b.x /\ a.y = b.y
      /\ a = p <=> a.x = p.x /\ a.y = p.y
      /\ p = b <=> p.x = b.x /\ p.y = b.y
  BY DEF IntPoint
<1>3. CASE a.x = b.x
  <2>1. p.x = a.x
    BY <1>1, <1>3 DEF Between
  <2> QED
    BY <1>1, <1>2, <1>3, <2>1 DEF BandOf, Between, Near
<1>4. CASE a.y = b.y
  <2>1. p.y = a.y
    BY <1>1, <1>4 DEF Between
  <2> QED
    BY <1>1, <1>2, <1>4, <2>1 DEF BandOf, Between, Near
<1> QED
  BY <1>3, <1>4

(***************************************************************************)
(* For every map and every width: a tick that moves a dog along an axis    *)
(* collects an item exactly when one of the two ticks it might have been   *)
(* split into does.                                                        *)
(***************************************************************************)
THEOREM NothingMissedBetweenTicks == SweepSpec => []NothingBetweenTicks
<1>1. AxisMove => NothingBetweenTicks
  <2> HAVE AxisMove
  <2> SUFFICES ASSUME NEW p \in PointSet,
                      Between(p.x, start.x, end.x), Between(p.y, start.y, end.y),
                      start.x = end.x \/ start.y = end.y
               PROVE  Events(OneItem, Mover(start, end)) # {}
                        <=> Events(OneItem, Mover(start, p)) \cup Events(OneItem, Mover(p, end)) # {}
    BY DEF NothingBetweenTicks, OneGatherer, Mover
  <2>1. /\ start \in IntPoint /\ end \in IntPoint /\ p \in IntPoint
        /\ item \in IntPoint /\ width \in Nat
    BY AxisMovePoints
  <2>2. /\ start.x = p.x \/ start.y = p.y
        /\ p.x = end.x \/ p.y = end.y
        /\ (start # end /\ BandOf(start, end))
             <=> (start # p /\ BandOf(start, p)) \/ (p # end /\ BandOf(p, end))
    BY <2>1, BandsOfTheParts
  <2>3. /\ Events(OneItem, Mover(start, end)) # {} <=> start # end /\ BandOf(start, end)
        /\ Events(OneItem, Mover(start, p)) # {} <=> start # p /\ BandOf(start, p)
        /\ Events(OneItem, Mover(p, end)) # {} <=> p # end /\ BandOf(p, end)
    BY <2>1, <2>2, MoveFindsItsBand
  <2>4. Events(OneItem, Mover(start, p)) \cup Events(OneItem, Mover(p, end)) # {}
          <=> Events(OneItem, Mover(start, p)) # {} \/ Events(OneItem, Mover(p, end)) # {}
    OBVIOUS
  <2> QED
    BY <2>2, <2>3, <2>4
<1> QED
  BY <1>1, AxisMoveInvariant, PTL

-----------------------------------------------------------------------------
(***************************************************************************)
(* GatherLoot.  The detector is used once, for the events of a pass; from  *)
(* then on an event is the dog, the index and the numbers of its time.     *)
(***************************************************************************)
Entry == [id : Nat, at : Points]

\* Where the item with index i of the provider lies.
Place(list, i) == IF i = Len(list) THEN Office ELSE list[i + 1].at

\* What the detector says of dog d, on its way from a to b, and of item i.
EventAt(list, a, b, d, i) ==
    [item |-> i, gatherer |-> d,
     proj |-> (10 * Place(list, i) - 10 * a) * (10 * b - 10 * a),
     length2 |-> (10 * b - 10 * a) * (10 * b - 10 * a),
     type |-> IF i = Len(list) THEN "office" ELSE "loot"]

Indices == 0 .. Len(items)
LootIndices == 0 .. Len(items) - 1
PassEvent(d, i) == EventAt(items, route[d][1], route[d][2], d, i)
Met(d, i) == Reaches(d, Place(items, i))
PassEvents == {PassEvent(p[1], p[2]) : p \in {q \in DogIndex \X Indices : Met(q[1], q[2])}}

Typed ==
    /\ pos \in [DogIndex -> Points]
    /\ ground \in Seq(Entry)
    /\ counter \in Nat
    /\ bag \in [DogIndex -> Seq(Nat)]
    /\ score \in [DogIndex -> Nat]
    /\ route \in [DogIndex -> Points \X Points]
    /\ items \in Seq(Entry)
    /\ events \subseteq PassEvents

\* Ids are drawn once.
Distinct(list) == \A j, k \in DOMAIN list : list[j].id = list[k].id => j = k
Numbered(list) == Distinct(list) /\ \A k \in DOMAIN list : list[k].id < counter

\* What became of the items of the pass: collected, or still on the ground,
\* where they were.
PassShape ==
    /\ \A id \in Ids(items) : id \in Ids(ground) <=> id \notin collected
    /\ \A entry \in Range(ground) : entry.id \in Ids(items) => entry \in Range(items)

\* An item that was met, by a dog with room that does not pass the office, is
\* on the ground only as long as the event waits.
MetIsTaken ==
    IdsAreIndices =>
        \A d \in DogIndex : \A i \in LootIndices :
            /\ Met(d, i) /\ PassEvent(d, i) \notin events
            /\ ~ Reaches(d, Office) /\ Len(bag[d]) < BagCapacity
            => i \notin Ids(ground)

\* When a dog's office event is done, what waits for it is not earlier, and its
\* bag holds items from beyond the office only.
PastOffice ==
    \A d \in DogIndex :
        Reaches(d, Office) /\ PassEvent(d, Len(items)) \notin events =>
            /\ \A e \in events :
                  e.gatherer = d => ~ Before(e, PassEvent(d, Len(items)))
            /\ IdsAreIndices =>
                  \A i \in LootIndices : i \in Range(bag[d]) =>
                      Distance(Place(items, i), route[d][1]) >= Distance(Office, route[d][1])

IInv ==
    /\ Typed
    /\ Numbered(ground) /\ Numbered(items)
    /\ PassShape
    /\ MetIsTaken
    /\ PastOffice

-----------------------------------------------------------------------------
\* What the detector makes of the points of a road.
LEMMA RoadPoint ==
    ASSUME NEW x \in Points
    PROVE  x \in Nat /\ At(x) \in IntPoint /\ At(x).x = 10 * x /\ At(x).y = 0
  BY GatherAssumption DEF Points, At, IntPoint

LEMMA RoadMove ==
    ASSUME NEW a \in Points, NEW b \in Points, NEW c \in Points, NEW r \in Nat
    PROVE  /\ TryCollectPoint(At(a), At(b), At(c)).proj
                = (10 * c - 10 * a) * (10 * b - 10 * a)
           /\ TryCollectPoint(At(a), At(b), At(c)).length2
                = (10 * b - 10 * a) * (10 * b - 10 * a)
           /\ At(a) # At(b) /\ IsCollected(TryCollectPoint(At(a), At(b), At(c)), r)
                <=> a # b /\ Between(c, a, b)
<1>1. /\ a \in Nat /\ b \in Nat /\ c \in Nat
      /\ At(a) \in IntPoint /\ At(b) \in IntPoint /\ At(c) \in IntPoint
      /\ At(a).x = 10 * a /\ At(b).x = 10 * b /\ At(c).x = 10 * c
      /\ At(a).y = 0 /\ At(b).y = 0 /\ At(c).y = 0
  BY RoadPoint
<1> DEFINE u == 10 * c - 10 * a
           v == 10 * b - 10 * a
<1>2. u \in Int /\ v \in Int /\ u * v \in Int /\ v * v \in Int /\ 0 - 0 = 0 /\ 0 * 0 = 0
  BY <1>1, Z3T(20)
<1>3. /\ TryCollectPoint(At(a), At(b), At(c)).proj = u * v
      /\ TryCollectPoint(At(a), At(b), At(c)).length2 = v * v
  <2>1. Dot(Vec(At(a), At(c)), Vec(At(a), At(b))) = u * v
    <3>1. Dot(Vec(At(a), At(c)), Vec(At(a), At(b))) = u * v + 0 * 0
      BY <1>1, <1>2 DEF Dot, Vec
    <3> HIDE DEF u, v
    <3> QED BY <1>2, <3>1
  <2>2. Dot(Vec(At(a), At(b)), Vec(At(a), At(b))) = v * v
    <3>1. Dot(Vec(At(a), At(b)), Vec(At(a), At(b))) = v * v + 0 * 0
      BY <1>1, <1>2 DEF Dot, Vec
    <3> HIDE DEF u, v
    <3> QED BY <1>2, <3>1
  <2> QED BY <2>1, <2>2 DEF TryCollectPoint
<1>4. At(a) # At(b) <=> a # b
  BY <1>1 DEF At
<1>5. a # b => (IsCollected(TryCollectPoint(At(a), At(b), At(c)), r) <=> Between(c, a, b))
  <2> SUFFICES ASSUME a # b
               PROVE  IsCollected(TryCollectPoint(At(a), At(b), At(c)), r) <=> Between(c, a, b)
    OBVIOUS
  <2>1. IsCollected(TryCollectPoint(At(a), At(b), At(c)), r)
          <=> Between(10 * c, 10 * a, 10 * b) /\ 0 - 0 <= r /\ 0 - 0 <= r
    <3>1. At(a).y = At(b).y /\ At(a).x # At(b).x
      BY <1>1
    <3> QED BY <1>1, <3>1, HorizontalMove
  <2> QED BY <1>1, <2>1 DEF Between
<1> QED
  BY <1>3, <1>4, <1>5

\* Indices count from 0, places in a sequence from 1.
LEMMA IndexShift ==
    ASSUME NEW n \in Nat
    PROVE  /\ \A i \in 0 .. n : i # n => i + 1 \in 1 .. n
           /\ \A i \in 0 .. n - 1 : i \in 0 .. n /\ i # n /\ i + 1 \in 1 .. n
           /\ \A k \in 1 .. n : k - 1 \in 0 .. n - 1 /\ (k - 1) + 1 = k
           /\ n \in 0 .. n
  OBVIOUS

LEMMA IndexBounds ==
    ASSUME NEW n \in Nat
    PROVE  /\ 0 .. n - 1 \subseteq 0 .. n /\ n \in 0 .. n /\ 0 .. n \subseteq Nat
           /\ \A i \in 0 .. n : i # n <=> i \in 0 .. n - 1
  OBVIOUS

(***************************************************************************)
(* FindGatherEvents for the provider of GatherLoot: one event for each dog *)
(* and each item or office on its way.                                     *)
(***************************************************************************)
THEOREM EventsOfAPass ==
    ASSUME NEW list \in Seq(Entry),
           NEW from \in [DogIndex -> Points], NEW to \in [DogIndex -> Points]
    PROVE  Events(Append(LootItems(list), OfficeItem), Gatherers(from, to)) =
             {EventAt(list, from[p[1]], to[p[1]], p[1], p[2]) :
                 p \in {q \in DogIndex \X (0 .. Len(list)) :
                           /\ from[q[1]] # to[q[1]]
                           /\ Between(Place(list, q[2]), from[q[1]], to[q[1]])}}
<1> DEFINE all == Append(LootItems(list), OfficeItem)
           dogs == Gatherers(from, to)
<1>1. /\ Len(list) \in Nat /\ DOMAIN list = 1 .. Len(list)
      /\ \A k \in 1 .. Len(list) : list[k] \in Entry
  OBVIOUS
<1>2. Len(LootItems(list)) = Len(list)
  BY <1>1 DEF LootItems
<1>3. /\ Len(all) = Len(list) + 1
      /\ \A i \in 0 .. Len(list) :
            all[i + 1] = [position |-> At(Place(list, i)),
                          width |-> IF i = Len(list) THEN OfficeWidth ELSE LootWidth,
                          type |-> IF i = Len(list) THEN "office" ELSE "loot"]
  <2>1. LootItems(list) \in Seq([position : Range([x \in Points |-> At(x)]), width : {LootWidth}, type : {"loot"}])
    BY <1>1 DEF LootItems, Entry, Range
  <2>2. /\ Len(all) = Len(list) + 1
        /\ all[Len(list) + 1] = OfficeItem
        /\ \A k \in 1 .. Len(list) : all[k] = LootItems(list)[k]
    BY <1>1, <1>2, <2>1
  <2>3. ASSUME NEW i \in 0 .. Len(list), i # Len(list)
        PROVE  all[i + 1] = [position |-> At(list[i + 1].at), width |-> LootWidth, type |-> "loot"]
    <3>1. i + 1 \in 1 .. Len(list)
      BY <1>1, <2>3, IndexShift
    <3> QED BY <2>2, <3>1 DEF LootItems
  <2> HIDE DEF all
  <2> QED BY <1>1, <2>2, <2>3 DEF OfficeItem, Place
<1>4. /\ Len(dogs) = Dogs
      /\ \A g \in DogIndex :
            dogs[g + 1] = [start |-> At(from[g]), end |-> At(to[g]), width |-> DogWidth]
  <2>1. Dogs \in Nat
    BY GatherAssumption
  <2>2. \A g \in DogIndex : g + 1 \in 1 .. Dogs /\ (g + 1) - 1 = g
    BY <2>1 DEF DogIndex
  <2> QED BY <2>1, <2>2 DEF Gatherers
<1>5. \A i \in 0 .. Len(list) : Place(list, i) \in Points
  <2>1. \A i \in 0 .. Len(list) : i # Len(list) => i + 1 \in 1 .. Len(list)
    BY <1>1, IndexShift
  <2> QED BY <1>1, <2>1, GatherAssumption DEF Place, Entry, Points
<1> HIDE DEF all, dogs
<1>6. ASSUME NEW g \in DogIndex, NEW i \in 0 .. Len(list)
      PROVE  /\ Hit(all, dogs, g, i)
                  <=> from[g] # to[g] /\ Between(Place(list, i), from[g], to[g])
             /\ Event(all, dogs, g, i) = EventAt(list, from[g], to[g], g, i)
  <2>1. from[g] \in Points /\ to[g] \in Points /\ Place(list, i) \in Points
    BY <1>5
  <2>2. DogWidth + (IF i = Len(list) THEN OfficeWidth ELSE LootWidth) \in Nat
    BY DEF DogWidth, OfficeWidth, LootWidth
  <2> DEFINE w == IF i = Len(list) THEN OfficeWidth ELSE LootWidth
             t == IF i = Len(list) THEN "office" ELSE "loot"
  <2>3. /\ dogs[g + 1].start = At(from[g]) /\ dogs[g + 1].end = At(to[g])
        /\ dogs[g + 1].width = DogWidth
    <3>1. dogs[g + 1] = [start |-> At(from[g]), end |-> At(to[g]), width |-> DogWidth]
      BY <1>4, Zenon
    <3>2. \A r : r = [start |-> At(from[g]), end |-> At(to[g]), width |-> DogWidth]
                   => r.start = At(from[g]) /\ r.end = At(to[g]) /\ r.width = DogWidth
      OBVIOUS
    <3> QED BY <3>1, <3>2, Zenon
  <2>4. all[i + 1] = [position |-> At(Place(list, i)), width |-> w, type |-> t]
    BY <1>3
  <2> HIDE DEF w, t
  <2>5. all[i + 1].position = At(Place(list, i)) /\ all[i + 1].width = w /\ all[i + 1].type = t
    BY <2>4
  <2>6. Hit(all, dogs, g, i)
          <=> /\ At(from[g]) # At(to[g])
              /\ IsCollected(TryCollectPoint(At(from[g]), At(to[g]), At(Place(list, i))),
                             DogWidth + w)
    BY <2>3, <2>5 DEF Hit
  <2>7. Event(all, dogs, g, i) =
          [item |-> i, gatherer |-> g,
           proj |-> TryCollectPoint(At(from[g]), At(to[g]), At(Place(list, i))).proj,
           length2 |-> TryCollectPoint(At(from[g]), At(to[g]), At(Place(list, i))).length2,
           type |-> t]
    BY <2>3, <2>5 DEF Event
  <2> QED BY <2>1, <2>2, <2>6, <2>7, RoadMove DEF EventAt, t, w
<1>7. 0 .. Len(dogs) - 1 = DogIndex /\ 0 .. Len(all) - 1 = 0 .. Len(list)
  <2>1. Len(dogs) = Dogs /\ Len(all) = Len(list) + 1
    BY <1>3, <1>4
  <2>2. (Len(list) + 1) - 1 = Len(list)
    BY <1>1
  <2> QED BY <2>1, <2>2 DEF DogIndex
<1>8. Events(all, dogs) =
        {Event(all, dogs, p[1], p[2]) :
            p \in {q \in DogIndex \X (0 .. Len(list)) : Hit(all, dogs, q[1], q[2])}}
  BY <1>7 DEF Events
<1> QED
  BY <1>6, <1>8 DEF all, dogs

-----------------------------------------------------------------------------
\* The elements of a list, with their places.
LEMMA InRange ==
    ASSUME NEW S, NEW list \in Seq(S), NEW e
    PROVE  e \in Range(list) <=> \E k \in 1 .. Len(list) : e = list[k]
  BY DEF Range

LEMMA RangeOfAppend ==
    ASSUME NEW S, NEW list \in Seq(S), NEW e \in S
    PROVE  Append(list, e) \in Seq(S) /\ Range(Append(list, e)) = Range(list) \cup {e}
<1>1. /\ Len(list) \in Nat /\ DOMAIN list = 1 .. Len(list)
      /\ Append(list, e) \in Seq(S)
      /\ Len(Append(list, e)) = Len(list) + 1
      /\ DOMAIN Append(list, e) = 1 .. Len(list) + 1
      /\ Append(list, e)[Len(list) + 1] = e
      /\ \A k \in 1 .. Len(list) : Append(list, e)[k] = list[k]
  OBVIOUS
<1>2. \A k : k \in 1 .. Len(list) + 1 <=> k \in 1 .. Len(list) \/ k = Len(list) + 1
  BY <1>1
<1> QED
  BY <1>1, <1>2, Zenon DEF Range

\* A part of a list, in one formula also when it is empty.
LEMMA PartOfElements ==
    ASSUME NEW S, NEW list, NEW m \in Int, NEW n \in Int, m <= n + 1,
           \A j \in m .. n : list[j] \in S
    PROVE  /\ SubSeq(list, m, n) \in Seq(S)
           /\ Len(SubSeq(list, m, n)) = n - m + 1
           /\ \A j \in 1 .. n - m + 1 : SubSeq(list, m, n)[j] = list[m + j - 1]
<1>1. /\ SubSeq(list, m, n) \in Seq(S)
      /\ Len(SubSeq(list, m, n)) = IF m <= n THEN n - m + 1 ELSE 0
      /\ \A j \in 1 .. n - m + 1 : SubSeq(list, m, n)[j] = list[m + j - 1]
  BY SubSeqProperties
<1>2. (IF m <= n THEN n - m + 1 ELSE 0) = n - m + 1
  OBVIOUS
<1> QED
  BY <1>1, <1>2

LEMMA Part ==
    ASSUME NEW S, NEW list \in Seq(S), NEW m \in Nat, NEW n \in Nat,
           1 <= m, m <= n + 1, n <= Len(list)
    PROVE  /\ SubSeq(list, m, n) \in Seq(S)
           /\ Len(SubSeq(list, m, n)) = n - m + 1
           /\ \A j \in 1 .. n - m + 1 : SubSeq(list, m, n)[j] = list[m + j - 1]
<1>1. Len(list) \in Nat /\ \A j \in 1 .. Len(list) : list[j] \in S
  BY ElementOfSeq
<1>2. m \in Int /\ n \in Int /\ \A j \in m .. n : j \in 1 .. Len(list)
  BY <1>1
<1>3. \A j \in m .. n : list[j] \in S
  BY <1>1, <1>2, Zenon
<1> QED
  BY <1>2, <1>3, PartOfElements

\* A list of items of which one is taken: the others stay, in their order.
LEMMA TakenFromList ==
    ASSUME NEW list \in Seq(Entry), Distinct(list), NEW id \in Ids(list)
    PROVE  /\ TakeFrom(list, id) \in Seq(Entry)
           /\ Distinct(TakeFrom(list, id))
           /\ \A e : e \in Range(TakeFrom(list, id)) <=> e \in Range(list) /\ e.id # id
<1>1. Len(list) \in Nat /\ DOMAIN list = 1 .. Len(list)
  OBVIOUS
<1> DEFINE First(k) == k \in DOMAIN list /\ list[k].id = id /\ \A j \in 1 .. k - 1 : list[j].id # id
           n == CHOOSE k \in DOMAIN list : list[k].id = id /\ \A j \in 1 .. k - 1 : list[j].id # id
           rest == SubSeq(list, 1, n - 1) \o SubSeq(list, n + 1, Len(list))
<1>2. \E k \in DOMAIN list : list[k].id = id /\ \A j \in 1 .. k - 1 : list[j].id # id
  <2>1. PICK k \in 1 .. Len(list) : list[k].id = id
    BY <1>1 DEF Ids
  <2>2. \A j \in 1 .. k - 1 : j \in 1 .. Len(list) /\ j # k
    BY <1>1, <2>1
  <2> QED BY <1>1, <2>1, <2>2 DEF Distinct
<1>3. n \in 1 .. Len(list) /\ list[n].id = id
  BY <1>1, <1>2
<1>4. TakeFrom(list, id) = rest
  BY DEF TakeFrom, RemoveAt
<1> HIDE DEF n
<1>5. /\ rest \in Seq(Entry)
      /\ Len(rest) = Len(list) - 1
      /\ \A j \in 1 .. Len(list) - 1 : rest[j] = IF j < n THEN list[j] ELSE list[j + 1]
  <2>1. /\ SubSeq(list, 1, n - 1) \in Seq(Entry) /\ Len(SubSeq(list, 1, n - 1)) = n - 1
        /\ \A j \in 1 .. n - 1 : SubSeq(list, 1, n - 1)[j] = list[j]
    <3>1. /\ 1 \in Nat /\ n - 1 \in Nat /\ 1 <= (n - 1) + 1 /\ n - 1 <= Len(list)
          /\ (n - 1) - 1 + 1 = n - 1
      BY <1>1, <1>3
    <3>2. \A j \in 1 .. n - 1 : 1 + j - 1 = j
      BY <1>3
    <3> QED BY <1>1, <3>1, <3>2, Part
  <2>2. /\ SubSeq(list, n + 1, Len(list)) \in Seq(Entry)
        /\ Len(SubSeq(list, n + 1, Len(list))) = Len(list) - n
        /\ \A j \in 1 .. Len(list) - n : SubSeq(list, n + 1, Len(list))[j] = list[n + j]
    <3>1. /\ n + 1 \in Nat /\ 1 <= n + 1 /\ n + 1 <= Len(list) + 1
          /\ Len(list) - (n + 1) + 1 = Len(list) - n
      BY <1>1, <1>3
    <3>2. \A j \in 1 .. Len(list) - n : (n + 1) + j - 1 = n + j
      BY <1>1, <1>3
    <3> QED BY <1>1, <3>1, <3>2, Part
  <2>3. /\ rest \in Seq(Entry)
        /\ Len(rest) = (n - 1) + (Len(list) - n)
        /\ \A j \in 1 .. (n - 1) + (Len(list) - n) :
              rest[j] = IF j <= n - 1 THEN SubSeq(list, 1, n - 1)[j]
                        ELSE SubSeq(list, n + 1, Len(list))[j - (n - 1)]
    BY <2>1, <2>2, ConcatProperties
  <2>4. (n - 1) + (Len(list) - n) = Len(list) - 1
    BY <1>1, <1>3
  <2>5. ASSUME NEW j \in 1 .. Len(list) - 1
        PROVE  rest[j] = IF j < n THEN list[j] ELSE list[j + 1]
    <3>1. CASE j < n
      <4>1. j \in 1 .. n - 1 /\ j <= n - 1
        BY <1>1, <1>3, <3>1
      <4> QED BY <2>1, <2>3, <2>4, <3>1, <4>1
    <3>2. CASE ~ (j < n)
      <4>1. ~ (j <= n - 1) /\ j - (n - 1) \in 1 .. Len(list) - n /\ n + (j - (n - 1)) = j + 1
        BY <1>1, <1>3, <3>2
      <4> QED BY <2>2, <2>3, <2>4, <3>2, <4>1
    <3> QED BY <3>1, <3>2
  <2> HIDE DEF rest
  <2> QED BY <2>3, <2>4, <2>5
<1> HIDE DEF rest
<1> DEFINE Source(j) == IF j < n THEN j ELSE j + 1
<1>6. /\ DOMAIN rest = 1 .. Len(list) - 1
      /\ \A j \in 1 .. Len(list) - 1 : rest[j] = list[Source(j)]
  BY <1>1, <1>5
<1>7. /\ \A j \in 1 .. Len(list) - 1 : Source(j) \in 1 .. Len(list) /\ Source(j) # n
      /\ \A j, k \in 1 .. Len(list) - 1 : Source(j) = Source(k) => j = k
      /\ \A k \in 1 .. Len(list) : k # n => \E j \in 1 .. Len(list) - 1 : Source(j) = k
  <2>1. \A k \in 1 .. Len(list) : k # n =>
           LET j == IF k < n THEN k ELSE k - 1
           IN j \in 1 .. Len(list) - 1 /\ Source(j) = k
    BY <1>1, <1>3
  <2> QED BY <1>1, <1>3, <2>1
<1> HIDE DEF Source
<1>8. \A k \in 1 .. Len(list) : list[k].id = id <=> k = n
  BY <1>1, <1>3 DEF Distinct
<1>9. Distinct(rest)
  BY <1>1, <1>6, <1>7 DEF Distinct
<1>10. \A e : e \in Range(rest) <=> e \in Range(list) /\ e.id # id
  <2>1. \A e : e \in Range(rest) <=> \E j \in 1 .. Len(list) - 1 : e = list[Source(j)]
    BY <1>6, Zenon DEF Range
  <2>2. \A e : e \in Range(list) <=> \E k \in 1 .. Len(list) : e = list[k]
    BY <1>1, Zenon DEF Range
  <2>3. ASSUME NEW e, e \in Range(rest)
        PROVE  e \in Range(list) /\ e.id # id
    <3>1. PICK j \in 1 .. Len(list) - 1 : e = list[Source(j)]
      BY <2>1, <2>3
    <3> QED BY <1>7, <1>8, <2>2, <3>1
  <2>4. ASSUME NEW e, e \in Range(list), e.id # id
        PROVE  e \in Range(rest)
    <3>1. PICK k \in 1 .. Len(list) : e = list[k]
      BY <2>2, <2>4
    <3>2. k # n
      BY <1>3, <2>4, <3>1
    <3>3. PICK j \in 1 .. Len(list) - 1 : Source(j) = k
      BY <1>7, <3>2
    <3> QED BY <2>1, <3>1, <3>3
  <2> QED BY <2>3, <2>4, Zenon
<1> QED
  BY <1>4, <1>5, <1>9, <1>10

LEMMA IdsOfRange ==
    ASSUME NEW list, NEW id
    PROVE  id \in Ids(list) <=> \E e \in Range(list) : e.id = id
  BY DEF Ids, Range

-----------------------------------------------------------------------------
\* What the invariant says of the items and of the events of a pass.
LEMMA PassFacts ==
    ASSUME Typed
    PROVE  /\ Len(items) \in Nat /\ DOMAIN items = 1 .. Len(items)
           /\ \A k \in 1 .. Len(items) : items[k] \in Entry /\ items[k].at \in Points
           /\ LootIndices \subseteq Indices /\ Len(items) \in Indices /\ Indices \subseteq Nat
           /\ \A i \in Indices : i # Len(items) <=> i \in LootIndices
           /\ \A i \in LootIndices :
                 i + 1 \in 1 .. Len(items) /\ Place(items, i) = items[i + 1].at
           /\ \A k \in 1 .. Len(items) :
                 k - 1 \in LootIndices /\ Place(items, k - 1) = items[k].at
           /\ Place(items, Len(items)) = Office
           /\ \A i \in Indices : Place(items, i) \in Points
           /\ \A d \in DogIndex : route[d][1] \in Points /\ route[d][2] \in Points
           /\ Points \subseteq Nat /\ Office \in Points
<1>1. /\ Len(items) \in Nat /\ DOMAIN items = 1 .. Len(items)
      /\ \A k \in 1 .. Len(items) : items[k] \in Entry /\ items[k].at \in Points
  <2>1. items \in Seq(Entry)
    BY DEF Typed
  <2>2. /\ Len(items) \in Nat /\ DOMAIN items = 1 .. Len(items)
        /\ \A k \in 1 .. Len(items) : items[k] \in Entry
    BY <2>1
  <2> QED BY <2>2 DEF Entry
<1>2. /\ LootIndices \subseteq Indices /\ Len(items) \in Indices /\ Indices \subseteq Nat
      /\ \A i \in Indices : i # Len(items) <=> i \in LootIndices
  BY <1>1, IndexBounds DEF Indices, LootIndices
<1>3. /\ \A i \in LootIndices : i # Len(items) /\ i + 1 \in 1 .. Len(items)
      /\ \A k \in 1 .. Len(items) : k - 1 \in LootIndices /\ (k - 1) + 1 = k
  BY <1>1, IndexShift DEF LootIndices
<1>4. /\ \A i \in LootIndices : Place(items, i) = items[i + 1].at
      /\ \A k \in 1 .. Len(items) : Place(items, k - 1) = items[k].at
      /\ Place(items, Len(items)) = Office
  <2>1. \A i \in LootIndices : Place(items, i) = items[i + 1].at
    BY <1>3, Zenon DEF Place
  <2>2. \A k \in 1 .. Len(items) : Place(items, k - 1) = items[k].at
    BY <1>3, <2>1
  <2> QED BY <2>1, <2>2 DEF Place
<1>5. Points \subseteq Nat /\ Office \in Points
  BY GatherAssumption DEF Points
<1>6. \A i \in Indices : Place(items, i) \in Points
  BY <1>1, <1>2, <1>3, <1>4, <1>5
<1>7. \A d \in DogIndex : route[d][1] \in Points /\ route[d][2] \in Points
  BY DEF Typed
<1> QED
  BY <1>1, <1>2, <1>3, <1>4, <1>5, <1>6, <1>7

\* While ids and indices agree, the item with index i has the id i.
LEMMA IndexIsId ==
    ASSUME Typed, IdsAreIndices, NEW i \in LootIndices
    PROVE  items[i + 1].id = i /\ i \in Ids(items)
<1>1. i + 1 \in 1 .. Len(items) /\ DOMAIN items = 1 .. Len(items)
  BY PassFacts
<1>2. i \in Nat /\ (i + 1) - 1 = i
  BY PassFacts
<1>3. items[i + 1].id = i
  BY <1>1, <1>2 DEF IdsAreIndices
<1> QED
  BY <1>1, <1>3 DEF Ids

\* An event belongs to one dog and one item.
LEMMA PassEventFields ==
    ASSUME NEW d, NEW i
    PROVE  /\ PassEvent(d, i).gatherer = d
           /\ PassEvent(d, i).item = i
           /\ PassEvent(d, i).type = IF i = Len(items) THEN "office" ELSE "loot"
           /\ PassEvent(d, i).proj
                = (10 * Place(items, i) - 10 * route[d][1]) * (10 * route[d][2] - 10 * route[d][1])
           /\ PassEvent(d, i).length2
                = (10 * route[d][2] - 10 * route[d][1]) * (10 * route[d][2] - 10 * route[d][1])
  BY DEF PassEvent, EventAt

(***************************************************************************)
(* The ways to handle an event: the next one in time, PassEvent(d, i), is  *)
(* that of an office, or an item is taken, or it is passed over.           *)
(***************************************************************************)
HandlesFirst(d, i) ==
    /\ d \in DogIndex /\ i \in Indices /\ Met(d, i)
    /\ PassEvent(d, i) \in events
    /\ \A e \in events : ~ Before(e, PassEvent(d, i))
    /\ events' = events \ {PassEvent(d, i)}
    /\ UNCHANGED <<pos, counter, route, items>>

MakesOffice(d) == HandlesFirst(d, Len(items)) /\ AtOffice(d)

Takes(d, i) ==
    /\ HandlesFirst(d, i) /\ i \in LootIndices
    /\ i \in Ids(items) /\ i \notin collected /\ Len(bag[d]) < BagCapacity
    /\ ground' = TakeFrom(ground, i)
    /\ bag' = [bag EXCEPT ![d] = Append(@, i)]
    /\ collected' = collected \cup {i}
    /\ UNCHANGED score

PassesOver(d, i) ==
    /\ HandlesFirst(d, i) /\ i \in LootIndices
    /\ i \notin Ids(items) \/ i \in collected \/ ~ (Len(bag[d]) < BagCapacity)
    /\ UNCHANGED <<ground, bag, score, collected>>

LEMMA HandleCases ==
    ASSUME Typed, Handle
    PROVE  \/ \E d \in DogIndex : MakesOffice(d)
           \/ \E d \in DogIndex, i \in LootIndices : Takes(d, i)
           \/ \E d \in DogIndex, i \in LootIndices : PassesOver(d, i)
<1>1. PICK e \in Earliest(events) :
         /\ IF e.type = "office" THEN AtOffice(e.gatherer) ELSE AtLoot(e.gatherer, e.item)
         /\ events' = events \ {e}
  BY DEF Handle
<1>2. e \in events /\ \A f \in events : ~ Before(f, e)
  BY DEF Earliest
<1>3. PICK d \in DogIndex, i \in Indices : e = PassEvent(d, i) /\ Met(d, i)
  BY <1>2 DEF Typed, PassEvents
<1>4. HandlesFirst(d, i)
  BY <1>1, <1>2, <1>3 DEF HandlesFirst, Handle
<1>5. /\ e.gatherer = d /\ e.item = i
      /\ e.type = IF i = Len(items) THEN "office" ELSE "loot"
  BY <1>3, PassEventFields
<1>6. CASE i = Len(items)
  BY <1>1, <1>4, <1>5, <1>6 DEF MakesOffice
<1>7. CASE i # Len(items)
  <2>1. i \in LootIndices
    BY <1>7, PassFacts
  <2>2. AtLoot(d, i)
    BY <1>1, <1>5, <1>7
  <2>3. CASE i \in Ids(items) \ collected /\ Len(bag[d]) < BagCapacity
    BY <1>4, <2>1, <2>2, <2>3 DEF AtLoot, ItemId, Takes
  <2>4. CASE ~ (i \in Ids(items) \ collected /\ Len(bag[d]) < BagCapacity)
    BY <1>4, <2>1, <2>2, <2>4 DEF AtLoot, ItemId, PassesOver
  <2> QED BY <2>1, <2>3, <2>4
<1> QED
  BY <1>6, <1>7

\* While a pass runs its items and routes stay, and so does what they say.
LEMMA SamePass ==
    ASSUME UNCHANGED <<route, items>>
    PROVE  /\ Indices' = Indices /\ LootIndices' = LootIndices
           /\ \A i : Place(items, i)' = Place(items, i)
           /\ \A d, i : PassEvent(d, i)' = PassEvent(d, i)
           /\ \A d, x : Reaches(d, x)' = Reaches(d, x)
           /\ \A d, i : Met(d, i)' = Met(d, i)
           /\ PassEvents' = PassEvents
           /\ IdsAreIndices' = IdsAreIndices /\ Ids(items)' = Ids(items)
           /\ Range(items)' = Range(items) /\ Distinct(items)' = Distinct(items)
<1>1. /\ Indices' = Indices /\ LootIndices' = LootIndices
      /\ \A i : Place(items, i)' = Place(items, i)
      /\ \A d, x : Reaches(d, x)' = Reaches(d, x)
  BY DEF Indices, LootIndices, Place, Reaches
<1>2. \A d, i : PassEvent(d, i)' = PassEvent(d, i) /\ Met(d, i)' = Met(d, i)
  BY <1>1 DEF PassEvent, EventAt, Met, Reaches, Place
<1>3. PassEvents' = PassEvents
  BY <1>1, <1>2 DEF PassEvents
<1> QED
  BY <1>1, <1>2, <1>3 DEF IdsAreIndices, Ids, Range, Distinct

LEMMA InitInvariant == Init => IInv
<1> SUFFICES ASSUME Init PROVE IInv
  OBVIOUS
<1>1. 0 \in Points /\ Points \subseteq Nat /\ Office \in Points
  BY GatherAssumption DEF Points
<1>2. Typed
  BY <1>1 DEF Init, Typed
<1>3. /\ items = <<>> /\ ground = <<>> /\ DOMAIN items = {} /\ LootIndices = {}
  BY DEF Init, LootIndices
<1>4. \A d \in DogIndex : ~ Reaches(d, Office)
  BY DEF Init, Reaches
<1> QED
  BY <1>2, <1>3, <1>4 DEF IInv, Numbered, Distinct, PassShape, Ids, Range, MetIsTaken, PastOffice

LEMMA NewLootInvariant ==
    ASSUME IInv, NEW x \in Points, NewLoot(x)
    PROVE  IInv'
<1> DEFINE new == [id |-> counter, at |-> x]
<1>0. Typed
  BY DEF IInv
<1>1. /\ Len(ground) \in Nat /\ DOMAIN ground = 1 .. Len(ground)
      /\ new \in Entry /\ new.id = counter /\ counter \in Nat
      /\ ground \in Seq(Entry)
      /\ \A k \in 1 .. Len(ground) : ground[k] \in Entry
  <2>1. ground \in Seq(Entry) /\ counter \in Nat
    BY <1>0 DEF Typed
  <2>2. new \in Entry /\ new.id = counter
    BY <2>1 DEF Entry
  <2> QED BY <2>1, <2>2
<1>2. /\ ground' = Append(ground, new) /\ counter' = counter + 1
      /\ UNCHANGED <<pos, bag, score, route, items, events, collected>>
  BY DEF NewLoot
<1> HIDE DEF new
<1>3. /\ ground' \in Seq(Entry) /\ Range(ground') = Range(ground) \cup {new}
  BY <1>1, <1>2, RangeOfAppend
<1>4. /\ DOMAIN ground' = 1 .. Len(ground) + 1
      /\ ground'[Len(ground) + 1] = new
      /\ \A k \in 1 .. Len(ground) : ground'[k] = ground[k]
      /\ \A k : k \in 1 .. Len(ground) + 1 <=> k \in 1 .. Len(ground) \/ k = Len(ground) + 1
  BY <1>1, <1>2
<1>5. Typed'
  BY <1>1, <1>2, <1>3, SamePass DEF IInv, Typed
<1>6. Numbered(ground)'
  <2>1. \A k \in 1 .. Len(ground) : ground[k].id \in Nat /\ ground[k].id < counter
    BY <1>1 DEF IInv, Numbered, Entry
  <2>2. \A k \in 1 .. Len(ground) : ground'[k].id = ground[k].id /\ ground'[k].id # counter
    BY <1>1, <1>4, <2>1
  <2>3. Distinct(ground')
    BY <1>1, <1>4, <2>2 DEF Distinct, IInv, Numbered
  <2>4. \A k \in DOMAIN ground' : ground'[k].id < counter'
    BY <1>1, <1>2, <1>4, <2>1
  <2> QED BY <2>3, <2>4 DEF Numbered
<1>7. Numbered(items)' /\ counter \notin Ids(items)
  <2>1. \A k \in DOMAIN items : items[k].id \in Nat /\ items[k].id < counter
    BY PassFacts DEF IInv, Numbered, Entry
  <2> QED BY <1>1, <1>2, <2>1 DEF IInv, Numbered, Distinct, Ids
<1>8. \A id : id \in Ids(ground') <=> id \in Ids(ground) \/ id = counter
  BY <1>1, <1>3, IdsOfRange
<1>9. PassShape'
  BY <1>1, <1>2, <1>3, <1>7, <1>8 DEF IInv, PassShape
<1>10. \A i \in LootIndices : IdsAreIndices => i \in Ids(items)
  BY <1>0, IndexIsId
<1>11. MetIsTaken'
  BY <1>2, <1>7, <1>8, <1>10, SamePass DEF IInv, MetIsTaken
<1>12. PastOffice'
  BY <1>2, SamePass DEF IInv, PastOffice, Before
<1> QED
  BY <1>5, <1>6, <1>7, <1>9, <1>11, <1>12 DEF IInv

LEMMA NewLootElsewhereInvariant == IInv /\ NewLootElsewhere => IInv'
<1> SUFFICES ASSUME IInv, NewLootElsewhere PROVE IInv'
  OBVIOUS
<1>1. /\ counter' = counter + 1
      /\ UNCHANGED <<pos, ground, bag, score, route, items, events, collected>>
  BY DEF NewLootElsewhere
<1>2. Typed'
  BY <1>1, SamePass DEF IInv, Typed
<1>3. /\ \A k \in DOMAIN ground : ground[k].id \in Nat
      /\ \A k \in DOMAIN items : items[k].id \in Nat
      /\ counter \in Nat
  <2>1. ground \in Seq(Entry) /\ items \in Seq(Entry) /\ counter \in Nat
    BY DEF IInv, Typed
  <2>2. \A k \in DOMAIN ground : ground[k] \in Entry
    BY <2>1
  <2>3. \A k \in DOMAIN items : items[k] \in Entry
    BY <2>1
  <2> QED BY <2>1, <2>2, <2>3 DEF Entry
<1>4. Numbered(ground)' /\ Numbered(items)'
  BY <1>1, <1>3 DEF IInv, Numbered, Distinct
<1>5. PassShape' /\ MetIsTaken' /\ PastOffice'
  BY <1>1, SamePass DEF IInv, PassShape, MetIsTaken, PastOffice, Before
<1> QED
  BY <1>2, <1>4, <1>5 DEF IInv

LEMMA TickInvariant ==
    ASSUME IInv, NEW to \in [DogIndex -> Points], Tick(to)
    PROVE  IInv'
<1>1. /\ pos' = to
      /\ route' = [d \in DogIndex |-> <<pos[d], to[d]>>]
      /\ items' = ground /\ collected' = {}
      /\ events' = Events(Append(LootItems(ground), OfficeItem), Gatherers(pos, to))
      /\ UNCHANGED <<ground, counter, bag, score>>
  BY DEF Tick
<1>2. Typed
  BY DEF IInv
<1>3. ground \in Seq(Entry) /\ pos \in [DogIndex -> Points]
  BY <1>2 DEF Typed
<1>4. \A d \in DogIndex : route'[d][1] = pos[d] /\ route'[d][2] = to[d]
  BY <1>1
<1>5. events' = PassEvents'
  <2>1. events' = {EventAt(ground, pos[p[1]], to[p[1]], p[1], p[2]) :
                      p \in {q \in DogIndex \X (0 .. Len(ground)) :
                                /\ pos[q[1]] # to[q[1]]
                                /\ Between(Place(ground, q[2]), pos[q[1]], to[q[1]])}}
    BY <1>1, <1>3, EventsOfAPass
  <2>2. PassEvents' = {EventAt(ground, route'[p[1]][1], route'[p[1]][2], p[1], p[2]) :
                          p \in {q \in DogIndex \X (0 .. Len(ground)) :
                                    /\ route'[q[1]][1] # route'[q[1]][2]
                                    /\ Between(Place(ground, q[2]), route'[q[1]][1], route'[q[1]][2])}}
    BY <1>1 DEF PassEvents, PassEvent, Met, Reaches, Indices
  <2> QED BY <1>4, <2>1, <2>2
<1>6. Typed'
  <2>1. \A d \in DogIndex : <<pos[d], to[d]>> \in Points \X Points
    BY <1>3
  <2>2. route' \in [DogIndex -> Points \X Points]
    BY <1>1, <2>1
  <2> QED BY <1>1, <1>2, <1>5, <2>2 DEF Typed
<1>7. Numbered(ground)' /\ Numbered(items)' /\ PassShape'
  BY <1>1 DEF IInv, Numbered, Distinct, PassShape, Ids, Range
<1>8. /\ \A d \in DogIndex, i \in Indices' : Met(d, i)' => PassEvent(d, i)' \in events'
      /\ LootIndices' \subseteq Indices' /\ Len(items)' \in Indices'
      /\ \A d \in DogIndex : Reaches(d, Office)' => Met(d, Len(items))'
  <2>1. \A d \in DogIndex, i \in Indices' : Met(d, i)' => PassEvent(d, i)' \in events'
    <3> SUFFICES ASSUME NEW d \in DogIndex, NEW i \in Indices', Met(d, i)'
                 PROVE  PassEvent(d, i)' \in PassEvents'
      BY <1>5
    <3>1. /\ <<d, i>> \in DogIndex \X Indices'
          /\ <<d, i>>[1] = d /\ <<d, i>>[2] = i
      OBVIOUS
    <3> QED BY <3>1 DEF PassEvents
  <2>2. Len(ground) \in Nat
    BY <1>3
  <2>3. LootIndices' \subseteq Indices' /\ Len(items)' \in Indices'
    BY <1>1, <2>2, IndexBounds DEF LootIndices, Indices
  <2>4. \A d \in DogIndex : Reaches(d, Office)' => Met(d, Len(items))'
    BY DEF Met, Place
  <2> QED BY <2>1, <2>3, <2>4
<1>9. MetIsTaken'
  BY <1>8 DEF MetIsTaken
<1>10. PastOffice'
  BY <1>8 DEF PastOffice
<1> QED
  BY <1>6, <1>7, <1>9, <1>10 DEF IInv

-----------------------------------------------------------------------------
\* What handling the event of dog d and index i leaves as it was.
LEMMA OneEventLess ==
    ASSUME Typed, NEW d, NEW i, HandlesFirst(d, i)
    PROVE  /\ d \in DogIndex /\ i \in Indices /\ Met(d, i)
           /\ UNCHANGED <<pos, counter, route, items>>
           /\ events' \subseteq PassEvents'
           /\ events' \subseteq events
           /\ PassEvent(d, i) \in events
           /\ \A e \in events : ~ Before(e, PassEvent(d, i))
           /\ \A c, j : PassEvent(c, j) \notin events' =>
                 PassEvent(c, j) \notin events \/ (c = d /\ j = i)
<1>1. UNCHANGED <<pos, counter, route, items>> /\ events' = events \ {PassEvent(d, i)}
  BY DEF HandlesFirst
<1>2. PassEvents' = PassEvents
  BY <1>1, SamePass
<1>3. \A c, j : PassEvent(c, j) = PassEvent(d, i) => c = d /\ j = i
  <2> SUFFICES ASSUME NEW c, NEW j, PassEvent(c, j) = PassEvent(d, i)
               PROVE  c = d /\ j = i
    OBVIOUS
  <2>1. PassEvent(c, j).gatherer = c /\ PassEvent(c, j).item = j
    BY PassEventFields
  <2>2. PassEvent(d, i).gatherer = d /\ PassEvent(d, i).item = i
    BY PassEventFields
  <2> QED BY <2>1, <2>2
<1> QED
  BY <1>1, <1>2, <1>3 DEF HandlesFirst, Typed

\* Of two points on the way, the one whose event is not earlier is not nearer.
LEMMA LaterIsFarther ==
    ASSUME NEW a \in Nat, NEW b \in Nat, NEW x \in Nat, NEW o \in Nat,
           a # b, Between(x, a, b), Between(o, a, b),
           (10 * o - 10 * a) * (10 * b - 10 * a) <= (10 * x - 10 * a) * (10 * b - 10 * a)
    PROVE  Distance(x, a) >= Distance(o, a)
<1> DEFINE v == b - a
           t == x - o
<1>1. (10 * x - 10 * a) * (10 * b - 10 * a) - (10 * o - 10 * a) * (10 * b - 10 * a) = 100 * (v * t)
  BY Z3T(20)
<1>2. v * t \in Int /\ 100 * (v * t) >= 0 => v * t >= 0
  BY Z3T(20)
<1>3. v * t >= 0
  <2>1. /\ (10 * x - 10 * a) * (10 * b - 10 * a) \in Int
        /\ (10 * o - 10 * a) * (10 * b - 10 * a) \in Int
    BY Z3T(20)
  <2>2. ASSUME NEW m \in Int, NEW n \in Int, n <= m
        PROVE  m - n >= 0
    BY <2>2
  <2> HIDE DEF v, t
  <2>3. (10 * x - 10 * a) * (10 * b - 10 * a) - (10 * o - 10 * a) * (10 * b - 10 * a) >= 0
    BY <2>1, <2>2
  <2>4. v * t \in Int
    BY Z3T(20) DEF v, t
  <2> QED BY <1>1, <1>2, <2>3, <2>4
<1>4. CASE b > a
  <2>1. t >= 0
    BY <1>3, <1>4, ProductSign
  <2> QED BY <1>4, <2>1 DEF Between, Distance
<1>5. CASE b < a
  <2>1. (-v) * (-t) = v * t /\ -v > 0 /\ -v \in Int /\ -t \in Int
    BY <1>5, Z3T(20)
  <2>2. -t >= 0
    BY <1>3, <2>1, ProductSign
  <2> QED BY <1>5, <2>2 DEF Between, Distance
<1> QED
  BY <1>4, <1>5

\* Events of one way, of the same length, compare like their projections.
LEMMA SameLengthTimes ==
    ASSUME NEW v \in Int, v # 0, NEW s \in Int, NEW t \in Int,
           ~ (t * (v * v) < s * (v * v))
    PROVE  s <= t
<1>1. v * v \in Int /\ v * v > 0
  <2>1. CASE v > 0
    BY <2>1, ProductSign
  <2>2. CASE v < 0
    <3>1. v * v = (-v) * (-v)
      BY Z3T(20)
    <3> QED BY <2>2, <3>1, ProductSign
  <2> QED BY <2>1, <2>2
<1>2. ASSUME NEW w \in Int, w > 0, ~ (t * w < s * w)
      PROVE  s <= t
  <2>1. s * w \in Int /\ t * w \in Int
    BY Z3T(20)
  <2>2. s * w <= t * w
    <3>1. \A m, n \in Int : ~ (n < m) => m <= n
      OBVIOUS
    <3> QED BY <1>2, <2>1, <3>1, Zenon
  <2> QED BY <1>2, <2>2, ScaleBySquare
<1> QED
  BY <1>1, <1>2

LEMMA OffsetTimes ==
    ASSUME NEW a \in Nat, NEW b \in Nat, NEW x \in Nat, a # b
    PROVE  10 * b - 10 * a \in Int /\ 10 * b - 10 * a # 0
           /\ (10 * x - 10 * a) * (10 * b - 10 * a) \in Int
<1>1. 10 * b - 10 * a \in Int /\ 10 * b - 10 * a # 0 /\ 10 * x - 10 * a \in Int
  OBVIOUS
<1>2. \A m, n \in Int : m * n \in Int
  OBVIOUS
<1> QED
  BY <1>1, <1>2, Zenon

LEMMA NotBeforeOffice ==
    ASSUME Typed, NEW d \in DogIndex, NEW i \in Indices, Met(d, i), Reaches(d, Office),
           ~ Before(PassEvent(d, i), PassEvent(d, Len(items)))
    PROVE  Distance(Place(items, i), route[d][1]) >= Distance(Office, route[d][1])
<1> DEFINE a == route[d][1]
           b == route[d][2]
           x == Place(items, i)
<1>1. /\ a \in Nat /\ b \in Nat /\ x \in Nat /\ Office \in Nat
      /\ Place(items, Len(items)) = Office
  BY PassFacts
<1>2. a # b /\ Between(x, a, b) /\ Between(Office, a, b)
  BY DEF Met, Reaches
<1>3. ~ ( ((10 * x - 10 * a) * (10 * b - 10 * a)) * ((10 * b - 10 * a) * (10 * b - 10 * a))
        < ((10 * Office - 10 * a) * (10 * b - 10 * a)) * ((10 * b - 10 * a) * (10 * b - 10 * a)))
  <2> DEFINE e == PassEvent(d, i)
             f == PassEvent(d, Len(items))
  <2>1. ~ (e.proj * f.length2 < f.proj * e.length2)
    BY DEF Before
  <2>2. /\ e.proj = (10 * x - 10 * a) * (10 * b - 10 * a)
        /\ f.proj = (10 * Office - 10 * a) * (10 * b - 10 * a)
        /\ e.length2 = (10 * b - 10 * a) * (10 * b - 10 * a)
        /\ f.length2 = (10 * b - 10 * a) * (10 * b - 10 * a)
    BY <1>1, PassEventFields
  <2> HIDE DEF a, b, x, e, f
  <2> QED BY <2>1, <2>2, Zenon
<1> HIDE DEF a, b, x
<1>4. (10 * Office - 10 * a) * (10 * b - 10 * a) <= (10 * x - 10 * a) * (10 * b - 10 * a)
  <2>1. /\ 10 * b - 10 * a \in Int /\ 10 * b - 10 * a # 0
        /\ (10 * x - 10 * a) * (10 * b - 10 * a) \in Int
        /\ (10 * Office - 10 * a) * (10 * b - 10 * a) \in Int
    BY <1>1, <1>2, OffsetTimes
  <2> QED BY <1>3, <2>1, SameLengthTimes, Zenon
<1>5. Distance(x, a) >= Distance(Office, a)
  BY <1>1, <1>2, <1>4, LaterIsFarther, Zenon
<1> QED
  BY <1>5 DEF a, x

LEMMA OfficeInvariant ==
    ASSUME IInv, NEW d \in DogIndex, MakesOffice(d)
    PROVE  IInv'
<1>1. Typed
  BY DEF IInv
<1>2. HandlesFirst(d, Len(items)) /\ AtOffice(d)
  BY DEF MakesOffice
<1>3. /\ Met(d, Len(items)) /\ UNCHANGED <<pos, counter, route, items>>
      /\ events' \subseteq PassEvents' /\ events' \subseteq events
      /\ \A e \in events : ~ Before(e, PassEvent(d, Len(items)))
      /\ \A c, j : PassEvent(c, j) \notin events' =>
            PassEvent(c, j) \notin events \/ (c = d /\ j = Len(items))
  BY <1>1, <1>2, OneEventLess
<1>4. /\ bag \in [DogIndex -> Seq(Nat)] /\ score \in [DogIndex -> Nat]
      /\ bag' = [bag EXCEPT ![d] = <<>>]
      /\ score' = [score EXCEPT ![d] = @ + Len(bag[d])]
      /\ UNCHANGED <<ground, collected>>
  BY <1>1, <1>2 DEF Typed, AtOffice
<1>5. /\ bag' \in [DogIndex -> Seq(Nat)] /\ bag'[d] = <<>>
      /\ \A c \in DogIndex : c # d => bag'[c] = bag[c]
  BY <1>4
<1>6. score' \in [DogIndex -> Nat]
  <2>1. Len(bag[d]) \in Nat /\ score[d] \in Nat
    BY <1>4
  <2>2. score[d] + Len(bag[d]) \in Nat
    BY <2>1
  <2> QED BY <1>4, <2>2
<1>7. Typed'
  BY <1>1, <1>3, <1>4, <1>5, <1>6 DEF Typed
<1>8. Numbered(ground)' /\ Numbered(items)' /\ PassShape'
  BY <1>3, <1>4 DEF IInv, Numbered, Distinct, PassShape, Ids, Range
<1>9. Reaches(d, Office)
  BY <1>1, <1>3, PassFacts DEF Met
<1>10. MetIsTaken'
  <2> SUFFICES ASSUME IdsAreIndices, NEW c \in DogIndex, NEW i \in LootIndices,
                      Met(c, i), PassEvent(c, i) \notin events',
                      ~ Reaches(c, Office), Len(bag'[c]) < BagCapacity
               PROVE  i \notin Ids(ground)
    BY <1>3, <1>4, SamePass DEF MetIsTaken
  <2>1. c # d
    BY <1>9
  <2>2. PassEvent(c, i) \notin events /\ bag'[c] = bag[c]
    BY <1>3, <1>5, <2>1
  <2> QED BY <2>2 DEF IInv, MetIsTaken
<1>11. PastOffice'
  <2> SUFFICES ASSUME NEW c \in DogIndex, Reaches(c, Office),
                      PassEvent(c, Len(items)) \notin events'
               PROVE  /\ \A e \in events' :
                            e.gatherer = c => ~ Before(e, PassEvent(c, Len(items)))
                      /\ IdsAreIndices =>
                            \A i \in LootIndices : i \in Range(bag'[c]) =>
                                Distance(Place(items, i), route[c][1]) >= Distance(Office, route[c][1])
    BY <1>3, SamePass DEF PastOffice, Before, Distance
  <2>1. CASE c = d
    <3>1. Range(bag'[c]) = {}
      BY <1>5, <2>1 DEF Range
    <3> QED BY <1>3, <2>1, <3>1
  <2>2. CASE c # d
    <3>1. PassEvent(c, Len(items)) \notin events /\ bag'[c] = bag[c]
      BY <1>3, <1>5, <2>2
    <3> QED BY <1>3, <3>1 DEF IInv, PastOffice
  <2> QED BY <2>1, <2>2
<1> QED
  BY <1>7, <1>8, <1>10, <1>11 DEF IInv

LEMMA PassesOverInvariant ==
    ASSUME IInv, NEW d \in DogIndex, NEW i \in LootIndices, PassesOver(d, i)
    PROVE  IInv'
<1>1. Typed
  BY DEF IInv
<1>2. /\ HandlesFirst(d, i)
      /\ i \notin Ids(items) \/ i \in collected \/ ~ (Len(bag[d]) < BagCapacity)
      /\ UNCHANGED <<ground, bag, score, collected>>
  BY DEF PassesOver
<1>3. /\ UNCHANGED <<pos, counter, route, items>>
      /\ events' \subseteq PassEvents' /\ events' \subseteq events
      /\ \A c, j : PassEvent(c, j) \notin events' =>
            PassEvent(c, j) \notin events \/ (c = d /\ j = i)
  BY <1>1, <1>2, OneEventLess
<1>4. Typed'
  BY <1>1, <1>2, <1>3 DEF Typed
<1>5. Numbered(ground)' /\ Numbered(items)' /\ PassShape'
  BY <1>2, <1>3 DEF IInv, Numbered, Distinct, PassShape, Ids, Range
<1>6. MetIsTaken'
  <2> SUFFICES ASSUME IdsAreIndices, NEW c \in DogIndex, NEW j \in LootIndices,
                      Met(c, j), PassEvent(c, j) \notin events',
                      ~ Reaches(c, Office), Len(bag[c]) < BagCapacity
               PROVE  j \notin Ids(ground)
    BY <1>2, <1>3, SamePass DEF MetIsTaken
  <2>1. CASE PassEvent(c, j) \notin events
    BY <2>1 DEF IInv, MetIsTaken
  <2>2. CASE c = d /\ j = i
    <3>1. i \in Ids(items)
      BY <1>1, IndexIsId
    <3>2. i \in collected
      BY <1>2, <2>2, <3>1
    <3> QED BY <2>2, <3>1, <3>2 DEF IInv, PassShape
  <2> QED BY <1>3, <2>1, <2>2
<1>7. PastOffice'
  <2>1. i # Len(items)
    BY <1>1, PassFacts
  <2>2. \A c \in DogIndex : PassEvent(c, Len(items)) \notin events' =>
                              PassEvent(c, Len(items)) \notin events
    BY <1>3, <2>1
  <2> SUFFICES ASSUME NEW c \in DogIndex, Reaches(c, Office),
                      PassEvent(c, Len(items)) \notin events'
               PROVE  /\ \A e \in events' :
                            e.gatherer = c => ~ Before(e, PassEvent(c, Len(items)))
                      /\ IdsAreIndices =>
                            \A k \in LootIndices : k \in Range(bag[c]) =>
                                Distance(Place(items, k), route[c][1]) >= Distance(Office, route[c][1])
    BY <1>2, <1>3, SamePass DEF PastOffice, Before, Distance
  <2> QED BY <1>3, <2>2 DEF IInv, PastOffice
<1> QED
  BY <1>4, <1>5, <1>6, <1>7 DEF IInv

\* The item of an index is the entry of the list that has the id.
LEMMA EntryOfIndex ==
    ASSUME Typed, IdsAreIndices, NEW entry \in Range(items)
    PROVE  entry.id \in LootIndices /\ Place(items, entry.id) = entry.at
<1>1. PICK k \in 1 .. Len(items) : entry = items[k]
  BY PassFacts DEF Range
<1>2. entry.id = k - 1
  BY <1>1, PassFacts DEF IdsAreIndices
<1> QED
  BY <1>1, <1>2, PassFacts

\* When an item is taken, its id leaves the ground and comes into one bag.
LEMMA TakenFacts ==
    ASSUME IInv, NEW d \in DogIndex, NEW i \in LootIndices, Takes(d, i)
    PROVE  /\ i \in Nat /\ i \in Ids(ground)
           /\ ground' \in Seq(Entry) /\ Distinct(ground')
           /\ \A e : e \in Range(ground') <=> e \in Range(ground) /\ e.id # i
           /\ \A id : id \in Ids(ground') <=> id \in Ids(ground) /\ id # i
           /\ bag' \in [DogIndex -> Seq(Nat)]
           /\ \A c \in DogIndex : c # d => bag'[c] = bag[c]
           /\ Range(bag'[d]) = Range(bag[d]) \cup {i}
           /\ Len(bag'[d]) = Len(bag[d]) + 1
<1>1. Typed
  BY DEF IInv
<1>2. i \in Nat
  BY <1>1, PassFacts
<1>3. /\ i \in Ids(items) /\ i \notin collected
      /\ ground' = TakeFrom(ground, i)
      /\ bag' = [bag EXCEPT ![d] = Append(@, i)]
  BY DEF Takes
<1>4. i \in Ids(ground)
  BY <1>3 DEF IInv, PassShape
<1>5. ground \in Seq(Entry) /\ Distinct(ground)
  BY <1>1 DEF IInv, Typed, Numbered
<1>6. /\ ground' \in Seq(Entry) /\ Distinct(ground')
      /\ \A e : e \in Range(ground') <=> e \in Range(ground) /\ e.id # i
  BY <1>3, <1>4, <1>5, TakenFromList
<1>7. \A id : id \in Ids(ground') <=> id \in Ids(ground) /\ id # i
  BY <1>6, IdsOfRange, Zenon
<1>8. bag \in [DogIndex -> Seq(Nat)] /\ bag[d] \in Seq(Nat)
  BY <1>1 DEF Typed
<1>9. Append(bag[d], i) \in Seq(Nat) /\ Range(Append(bag[d], i)) = Range(bag[d]) \cup {i}
  BY <1>2, <1>8, RangeOfAppend
<1>10. Len(Append(bag[d], i)) = Len(bag[d]) + 1
  BY <1>2, <1>8
<1>11. bag'[d] = Append(bag[d], i) /\ \A c \in DogIndex : c # d => bag'[c] = bag[c]
  BY <1>3, <1>8
<1>12. bag' \in [DogIndex -> Seq(Nat)]
  BY <1>3, <1>8, <1>9
<1> QED
  BY <1>2, <1>4, <1>6, <1>7, <1>9, <1>10, <1>11, <1>12

LEMMA TakesInvariant ==
    ASSUME IInv, NEW d \in DogIndex, NEW i \in LootIndices, Takes(d, i)
    PROVE  IInv'
<1>1. Typed
  BY DEF IInv
<1>2. /\ HandlesFirst(d, i)
      /\ i \in Ids(items) /\ i \notin collected
      /\ collected' = collected \cup {i}
      /\ UNCHANGED score
  BY DEF Takes
<1>3. /\ Met(d, i) /\ i \in Indices
      /\ UNCHANGED <<pos, counter, route, items>>
      /\ events' \subseteq PassEvents' /\ events' \subseteq events
      /\ PassEvent(d, i) \in events
      /\ \A c, j : PassEvent(c, j) \notin events' =>
            PassEvent(c, j) \notin events \/ (c = d /\ j = i)
  BY <1>1, <1>2, OneEventLess
<1>4. /\ ground' \in Seq(Entry) /\ Distinct(ground')
      /\ \A e : e \in Range(ground') <=> e \in Range(ground) /\ e.id # i
      /\ \A id : id \in Ids(ground') <=> id \in Ids(ground) /\ id # i
  BY TakenFacts
<1>5. /\ bag' \in [DogIndex -> Seq(Nat)]
      /\ \A c \in DogIndex : c # d => bag'[c] = bag[c]
      /\ Range(bag'[d]) = Range(bag[d]) \cup {i}
      /\ Len(bag'[d]) = Len(bag[d]) + 1
  BY TakenFacts
<1>6. Typed'
  BY <1>1, <1>2, <1>3, <1>4, <1>5 DEF Typed
<1>7. Numbered(ground)' /\ Numbered(items)'
  <2>1. \A id \in Ids(ground) : id < counter
    BY DEF IInv, Numbered, Ids
  <2>2. \A k \in DOMAIN ground' : ground'[k].id \in Ids(ground')
    BY DEF Ids
  <2>3. \A k \in DOMAIN ground' : ground'[k].id < counter'
    BY <1>3, <1>4, <2>1, <2>2
  <2>4. Numbered(items)'
    BY <1>3 DEF IInv, Numbered, Distinct
  <2> QED BY <1>4, <2>3, <2>4 DEF Numbered
<1>8. PassShape'
  BY <1>2, <1>3, <1>4, SamePass DEF IInv, PassShape
<1>9. MetIsTaken'
  <2> SUFFICES ASSUME IdsAreIndices, NEW c \in DogIndex, NEW j \in LootIndices,
                      Met(c, j), PassEvent(c, j) \notin events',
                      ~ Reaches(c, Office), Len(bag'[c]) < BagCapacity
               PROVE  j \notin Ids(ground')
    BY <1>3, SamePass DEF MetIsTaken
  <2>1. CASE c = d /\ j = i
    BY <1>4, <2>1
  <2>2. CASE PassEvent(c, j) \notin events
    <3>1. Len(bag[c]) < BagCapacity
      <4>1. CASE c = d
        <5>1. \A m \in Nat : m + 1 < BagCapacity => m < BagCapacity
          BY GatherAssumption
        <5>2. Len(bag[d]) \in Nat
          BY <1>1 DEF Typed
        <5> QED BY <1>5, <4>1, <5>1, <5>2
      <4>2. CASE c # d
        BY <1>5, <4>2
      <4> QED BY <4>1, <4>2
    <3>2. j \notin Ids(ground)
      BY <2>2, <3>1 DEF IInv, MetIsTaken
    <3> QED BY <1>4, <3>2
  <2> QED BY <1>3, <2>1, <2>2
<1>10. PastOffice'
  <2> SUFFICES ASSUME NEW c \in DogIndex, Reaches(c, Office),
                      PassEvent(c, Len(items)) \notin events'
               PROVE  /\ \A e \in events' :
                            e.gatherer = c => ~ Before(e, PassEvent(c, Len(items)))
                      /\ IdsAreIndices =>
                            \A k \in LootIndices : k \in Range(bag'[c]) =>
                                Distance(Place(items, k), route[c][1]) >= Distance(Office, route[c][1])
    BY <1>3, SamePass DEF PastOffice, Before, Distance
  <2>1. PassEvent(c, Len(items)) \notin events
    <3>1. i # Len(items)
      BY <1>1, PassFacts
    <3> QED BY <1>3, <3>1
  <2>2. /\ \A e \in events : e.gatherer = c => ~ Before(e, PassEvent(c, Len(items)))
        /\ IdsAreIndices =>
              \A k \in LootIndices : k \in Range(bag[c]) =>
                  Distance(Place(items, k), route[c][1]) >= Distance(Office, route[c][1])
    BY <2>1 DEF IInv, PastOffice
  <2>3. CASE c = d
    <3>1. ~ Before(PassEvent(d, i), PassEvent(d, Len(items)))
      BY <1>3, <2>2, <2>3, PassEventFields
    <3>2. Distance(Place(items, i), route[d][1]) >= Distance(Office, route[d][1])
      BY <1>1, <1>3, <2>3, <3>1, NotBeforeOffice
    <3> QED BY <1>3, <1>5, <2>2, <2>3, <3>2
  <2>4. CASE c # d
    BY <1>3, <1>5, <2>2, <2>4
  <2> QED BY <2>3, <2>4
<1> QED
  BY <1>6, <1>7, <1>8, <1>9, <1>10 DEF IInv

-----------------------------------------------------------------------------
LEMMA StutteringInvariant == IInv /\ UNCHANGED vars => IInv'
<1> SUFFICES ASSUME IInv, UNCHANGED vars PROVE IInv'
  OBVIOUS
<1>1. UNCHANGED <<pos, ground, counter, bag, score, route, items, events, collected>>
  BY DEF vars
<1>2. Typed' /\ Numbered(ground)' /\ Numbered(items)'
  BY <1>1, SamePass DEF IInv, Typed, Numbered, Distinct
<1>3. PassShape' /\ MetIsTaken' /\ PastOffice'
  BY <1>1, SamePass DEF IInv, PassShape, MetIsTaken, PastOffice, Before
<1> QED
  BY <1>2, <1>3 DEF IInv

LEMMA NextInvariant == IInv /\ [Next]_vars => IInv'
<1> SUFFICES ASSUME IInv, [Next]_vars PROVE IInv'
  OBVIOUS
<1>1. ASSUME NEW x \in Points, NewLoot(x) PROVE IInv'
  BY <1>1, NewLootInvariant
<1>2. CASE NewLootElsewhere
  BY <1>2, NewLootElsewhereInvariant
<1>3. ASSUME NEW to \in [DogIndex -> Points], Tick(to) PROVE IInv'
  BY <1>3, TickInvariant
<1>4. CASE Handle
  BY <1>4, HandleCases, OfficeInvariant, TakesInvariant, PassesOverInvariant DEF IInv
<1>5. CASE UNCHANGED vars
  BY <1>5, StutteringInvariant
<1> QED
  BY <1>1, <1>2, <1>3, <1>4, <1>5 DEF Next

LEMMA GatherInvariant == Spec => []IInv
  BY InitInvariant, NextInvariant, PTL DEF Spec

(***************************************************************************)
(* GatherLoot: whatever the moves of the dogs, while the ids of the        *)
(* session's items are their indices a dog picks up only items that its    *)
(* move reached.                                                           *)
(***************************************************************************)
THEOREM TakenWasReached == Spec => InStepTakesReached
<1> DEFINE OnlyReached ==
              \A d \in DogIndex : \A entry \in Range(ground) :
                  IdsAreIndices /\ entry.id \in Taken(d) => Reaches(d, entry.at)
<1>1. IInv /\ [Next]_vars => [OnlyReached]_vars
  <2> SUFFICES ASSUME IInv, Next, NEW c \in DogIndex, NEW entry \in Range(ground),
                      IdsAreIndices, entry.id \in Taken(c)
               PROVE  Reaches(c, entry.at)
    OBVIOUS
  <2>1. Typed /\ bag \in [DogIndex -> Seq(Nat)]
    BY DEF IInv, Typed
  <2>2. bag' # bag
    BY DEF Taken
  <2>3. Handle
    BY <2>2 DEF Next, NewLoot, NewLootElsewhere, Tick
  <2>4. ASSUME NEW d \in DogIndex, MakesOffice(d)
        PROVE  FALSE
    <3>1. bag' = [bag EXCEPT ![d] = <<>>]
      BY <2>4 DEF MakesOffice, AtOffice
    <3>2. bag'[c] = bag[c] \/ bag'[c] = <<>>
      BY <2>1, <3>1
    <3> QED BY <3>2 DEF Taken, Range
  <2>5. ASSUME NEW d \in DogIndex, NEW i \in LootIndices, Takes(d, i)
        PROVE  Reaches(c, entry.at)
    <3>1. c = d /\ entry.id = i
      BY <2>5, TakenFacts DEF Taken
    <3>2. entry \in Range(items)
      BY <2>5, <3>1 DEF Takes, IInv, PassShape
    <3>3. Place(items, i) = entry.at
      BY <2>1, <3>1, <3>2, EntryOfIndex
    <3>4. Met(d, i)
      BY <2>5 DEF Takes, HandlesFirst
    <3> QED BY <3>1, <3>3, <3>4 DEF Met
  <2>6. ASSUME NEW d \in DogIndex, NEW i \in LootIndices, PassesOver(d, i)
        PROVE  FALSE
    BY <2>2, <2>6 DEF PassesOver
  <2> QED BY <2>1, <2>3, <2>4, <2>5, <2>6, HandleCases
<1> QED
  BY <1>1, GatherInvariant, PTL DEF Spec, InStepTakesReached

(***************************************************************************)
(* GatherLoot: when a pass is over, and ids and indices agreed in it, the  *)
(* items that a dog reached are gone, unless its bag is full or it passed  *)
(* the office.                                                             *)
(***************************************************************************)
THEOREM ReachedWasTaken == Spec => []NothingReachedIsLeft
<1>1. IInv => NothingReachedIsLeft
  <2> SUFFICES ASSUME IInv, Idle, IdsAreIndices, NEW d \in DogIndex, NEW entry \in Range(items),
                      Reaches(d, entry.at), ~ Reaches(d, Office), Len(bag[d]) < BagCapacity
               PROVE  entry.id \notin Ids(ground)
    BY DEF NothingReachedIsLeft
  <2>1. entry.id \in LootIndices /\ Place(items, entry.id) = entry.at
    BY EntryOfIndex DEF IInv
  <2>2. Met(d, entry.id) /\ PassEvent(d, entry.id) \notin events
    BY <2>1 DEF Met, Idle
  <2> QED BY <2>1, <2>2 DEF IInv, MetIsTaken
<1> QED
  BY <1>1, GatherInvariant, PTL

(***************************************************************************)
(* GatherLoot: the events of a pass come in the order of the way, so that  *)
(* a dog that passed the office has nothing of this pass in its bag but    *)
(* what lay beyond it.                                                     *)
(***************************************************************************)
THEOREM OfficeEmptiesTheWayBefore == Spec => []BagIsFromBeyondOffice
<1>1. IInv => BagIsFromBeyondOffice
  <2> SUFFICES ASSUME IInv, Idle, IdsAreIndices, NEW d \in DogIndex, NEW entry \in Range(items),
                      Reaches(d, Office), entry.id \in Range(bag[d])
               PROVE  Distance(entry.at, route[d][1]) >= Distance(Office, route[d][1])
    BY DEF BagIsFromBeyondOffice
  <2>1. entry.id \in LootIndices /\ Place(items, entry.id) = entry.at
    BY EntryOfIndex DEF IInv
  <2>2. PassEvent(d, Len(items)) \notin events
    BY DEF Idle
  <2>3. \A i \in LootIndices : i \in Range(bag[d]) =>
           Distance(Place(items, i), route[d][1]) >= Distance(Office, route[d][1])
    BY <2>2 DEF IInv, PastOffice
  <2> QED BY <2>1, <2>3
<1> QED
  BY <1>1, GatherInvariant, PTL
=============================================================================
