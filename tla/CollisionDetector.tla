------------------------- MODULE CollisionDetector -------------------------
(***************************************************************************)
(* The collision detector (collision_detector.h, collision_detector.cpp).  *)
(*                                                                         *)
(* Coordinates and widths are integers, in tenths of the unit of length:   *)
(* the widths of the game (0.6, 0.5, 0.0) and its integer map points are   *)
(* exact.  The ratios and distances of the code, quotients by |v|^2, are   *)
(* compared after multiplication by it, so nothing is rounded.             *)
(***************************************************************************)
EXTENDS Integers, Sequences, FiniteSets

Dot(p, q) == p.x * q.x + p.y * q.y
Vec(p, q) == [x |-> q.x - p.x, y |-> q.y - p.y]

\* TryCollectPoint(a, b, c): proj_ratio is proj / length2, sq_distance is
\* area2 / length2.
TryCollectPoint(a, b, c) ==
    LET u == Vec(a, c)
        v == Vec(a, b)
    IN [proj |-> Dot(u, v),
        length2 |-> Dot(v, v),
        area2 |-> Dot(u, u) * Dot(v, v) - Dot(u, v) * Dot(u, v)]

\* Slip: the distance is compared with the radius, not their squares.
IsCollectedUnsquared(result, radius) ==
    /\ result.proj >= 0
    /\ result.proj <= result.length2
    /\ result.area2 <= radius * result.length2

\* Slip: the ends of the way do not belong to it.
IsCollectedOpen(result, radius) ==
    /\ result.proj > 0
    /\ result.proj < result.length2
    /\ result.area2 <= radius * radius * result.length2

\* CollectionResult::IsCollected.
IsCollected(result, radius) ==
    /\ result.proj >= 0
    /\ result.proj <= result.length2
    /\ result.area2 <= radius * radius * result.length2

\* The event, if any, of gatherer g and item i (indices from 0, as in the
\* code; the sequences count from 1).
Hit(items, gatherers, g, i) ==
    LET gatherer == gatherers[g + 1]
        item == items[i + 1]
    IN /\ gatherer.start # gatherer.end
       /\ IsCollected(TryCollectPoint(gatherer.start, gatherer.end, item.position),
                      gatherer.width + item.width)

\* An event holds the indices of its item and its gatherer, and its time.
Event(items, gatherers, g, i) ==
    LET r == TryCollectPoint(gatherers[g + 1].start, gatherers[g + 1].end, items[i + 1].position)
    IN [item |-> i, gatherer |-> g, proj |-> r.proj, length2 |-> r.length2, type |-> items[i + 1].type]

Events(items, gatherers) ==
    {Event(items, gatherers, gi[1], gi[2]) :
        gi \in {p \in (0 .. Len(gatherers) - 1) \X (0 .. Len(items) - 1) :
                    Hit(items, gatherers, p[1], p[2])}}

\* Slip: the latest event comes first.
BeforeReversed(e, f) == e.proj * f.length2 > f.proj * e.length2

\* The comparison of std::sort.
Before(e, f) == e.proj * f.length2 < f.proj * e.length2

\* FindGatherEvents sorts the events by time.  std::sort is not stable: of a
\* set of events any that is not after another may be next.
Earliest(events) == {e \in events : \A f \in events : ~ Before(f, e)}

-----------------------------------------------------------------------------
\* What the properties say of a move, without projections: x is on the way
\* from p to q.
Between(x, p, q) == (p <= x /\ x <= q) \/ (q <= x /\ x <= p)
=============================================================================
