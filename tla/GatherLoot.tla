----------------------------- MODULE GatherLoot -----------------------------
(***************************************************************************)
(* The gathering pass of Game::Update with positions (model.cpp,           *)
(* GatherLoot and the two functions that fill the provider): the dogs of   *)
(* one session run along a road, loot lies on it, and an office stands at  *)
(* one of its points.                                                      *)
(*                                                                         *)
(* Game has the same pass without positions; here an event comes from the  *)
(* collision detector, so what is reached can be compared with what is     *)
(* collected.                                                              *)
(***************************************************************************)
EXTENDS CollisionDetector, SequencesExt

CONSTANTS
    Dogs,           \* the number of dogs
    RoadLength,     \* the road runs from 0 to RoadLength, in units of length
    Office,         \* the point of the road at which the office stands
    BagCapacity,    \* Map::GetBagCapacity
    MaxLoot         \* bound: ids of loot ever drawn

ASSUME GatherAssumption ==
    /\ Dogs \in Nat \ {0} /\ RoadLength \in Nat /\ Office \in 0 .. RoadLength
    /\ BagCapacity \in Nat /\ MaxLoot \in Nat

DogWidth == 6
LootWidth == 0
OfficeWidth == 5

\* The dogs of the session are known by their index in dogs_.
DogIndex == 0 .. Dogs - 1
Points == 0 .. RoadLength
At(x) == [x |-> 10 * x, y |-> 0]

VARIABLES
    pos,        \* the point each dog is at
    ground,     \* loot_ of the session: [id, at], in the order of the list
    counter,    \* Loot::loot_counter_, shared by all sessions
    bag,        \* the ids in the bag of each dog, in the order collected
    score,      \* the number of items each dog has brought to the office
    route,      \* the last move of each dog
    items,      \* the loot in the provider, by index
    events,     \* collision_events still to be handled
    collected   \* collected_loot_id

vars == <<pos, ground, counter, bag, score, route, items, events, collected>>

Init ==
    /\ pos \in [DogIndex -> {0}]
    /\ ground = <<>> /\ counter = 0
    /\ bag = [d \in DogIndex |-> <<>>] /\ score = [d \in DogIndex |-> 0]
    /\ route = [d \in DogIndex |-> <<0, 0>>]
    /\ items = <<>> /\ events = {} /\ collected = {}

Idle == events = {}

\* UpdateLoot: a new item at the end of the list.
NewLoot(x) ==
    /\ Idle
    /\ counter < MaxLoot
    /\ Len(ground) < Dogs
    /\ ground' = Append(ground, [id |-> counter, at |-> x])
    /\ counter' = counter + 1
    /\ UNCHANGED <<pos, bag, score, route, items, events, collected>>

\* UpdateLoot of another session draws its ids from the same counter.
NewLootElsewhere ==
    /\ Idle
    /\ counter < MaxLoot
    /\ counter' = counter + 1
    /\ UNCHANGED <<pos, ground, bag, score, route, items, events, collected>>

\* What GatherLoot's provider holds: the dogs with their moves, the loot of
\* the session by its place in the list, then the offices.
Gatherers(from, to) ==
    [k \in 1 .. Dogs |-> [start |-> At(from[k - 1]), end |-> At(to[k - 1]), width |-> DogWidth]]
LootItems(list) ==
    [k \in 1 .. Len(list) |-> [position |-> At(list[k].at), width |-> LootWidth, type |-> "loot"]]
OfficeItem == [position |-> At(Office), width |-> OfficeWidth, type |-> "office"]

\* UpdateDogsPosition, the filling of the provider, and FindGatherEvents.
Tick(to) ==
    /\ Idle
    /\ pos' = to
    /\ route' = [d \in DogIndex |-> <<pos[d], to[d]>>]
    /\ items' = ground
    /\ events' = Events(Append(LootItems(ground), OfficeItem), Gatherers(pos, to))
    /\ collected' = {}
    /\ UNCHANGED <<ground, counter, bag, score>>

-----------------------------------------------------------------------------
Ids(list) == {list[k].id : k \in DOMAIN list}

\* GameSession::GatherLoot erases the first item with the id.
TakeFrom(list, id) ==
    RemoveAt(list, CHOOSE k \in DOMAIN list :
                       /\ list[k].id = id
                       /\ \A j \in 1 .. k - 1 : list[j].id # id)

\* Dog::ReleaseLoot.
AtOffice(d) ==
    /\ score' = [score EXCEPT ![d] = @ + Len(bag[d])]
    /\ bag' = [bag EXCEPT ![d] = <<>>]
    /\ UNCHANGED <<ground, collected>>

\* Slip: the place in the list is taken from the wrong end.
ItemIdReversed(index) == Len(items) - 1 - index

\* The id GatherLoot looks for: it takes the event's index for an id.
ItemId(index) == index

\* Slip: the last place of the bag stays empty.
AtLootNarrow(d, index) ==
    LET id == ItemId(index)
    IN IF id \in Ids(items) \ collected /\ Len(bag[d]) + 1 < BagCapacity
       THEN /\ ground' = TakeFrom(ground, id)
            /\ bag' = [bag EXCEPT ![d] = Append(@, id)]
            /\ collected' = collected \cup {id}
            /\ UNCHANGED score
       ELSE UNCHANGED <<ground, bag, score, collected>>

\* A loot event: skipped when no item had that id at the start of the pass,
\* when the id is collected already, or when the bag is full.
AtLoot(d, index) ==
    LET id == ItemId(index)
    IN IF id \in Ids(items) \ collected /\ Len(bag[d]) < BagCapacity
       THEN /\ ground' = TakeFrom(ground, id)
            /\ bag' = [bag EXCEPT ![d] = Append(@, id)]
            /\ collected' = collected \cup {id}
            /\ UNCHANGED score
       ELSE UNCHANGED <<ground, bag, score, collected>>

\* GatherLoot handles the events in the order of their times.
Handle ==
    /\ \E e \in Earliest(events) :
         /\ IF e.type = "office" THEN AtOffice(e.gatherer) ELSE AtLoot(e.gatherer, e.item)
         /\ events' = events \ {e}
    /\ UNCHANGED <<pos, counter, route, items>>

Next ==
    \/ \E x \in Points : NewLoot(x)
    \/ NewLootElsewhere
    \/ \E to \in [DogIndex -> Points] : Tick(to)
    \/ Handle

Spec == Init /\ [][Next]_vars

-----------------------------------------------------------------------------
(* What the rules of the game say of a pass, without the collision         *)
(* detector: on a road a move reaches what lies between its two ends.      *)

Reaches(d, x) == route[d][1] # route[d][2] /\ Between(x, route[d][1], route[d][2])
Distance(x, y) == IF x < y THEN y - x ELSE x - y

\* The n items of a session have the ids 0 to n - 1, in the order of the list.
\* So it is until the first item is collected, if no other session has loot.
IdsAreIndices == \A k \in DOMAIN items : items[k].id = k - 1

\* The items a dog picks up in a step.
Taken(d) == Range(bag'[d]) \ Range(bag[d])

(***************************************************************************)
(* An item is collected only by a dog whose move reaches it ("Too far -    *)
(* should not be collected").  Violated: GatherLoot takes the index of an  *)
(* item in the provider for its id, and picks up another item.             *)
(***************************************************************************)
OnlyReachedLootIsTaken ==
    [][\A d \in DogIndex : \A entry \in Range(ground) :
          entry.id \in Taken(d) => Reaches(d, entry.at)]_vars

(***************************************************************************)
(* While ids and indices agree, the items collected are those reached.     *)
(***************************************************************************)
InStepTakesReached ==
    [][\A d \in DogIndex : \A entry \in Range(ground) :
          IdsAreIndices /\ entry.id \in Taken(d) => Reaches(d, entry.at)]_vars

(***************************************************************************)
(* While ids and indices agree, no item stays on the ground that a dog     *)
(* reached with room in its bag: after the pass a dog that still has room, *)
(* and did not make it at the office, has left nothing on its way, though  *)
(* several dogs compete for the same items.                                *)
(***************************************************************************)
NothingReachedIsLeft ==
    Idle /\ IdsAreIndices =>
        \A d \in DogIndex : \A entry \in Range(items) :
            /\ Reaches(d, entry.at)
            /\ ~ Reaches(d, Office)
            /\ Len(bag[d]) < BagCapacity
            => entry.id \notin Ids(ground)

(***************************************************************************)
(* The events of a pass are handled in the order of the way: a dog that    *)
(* passed the office carries only items from beyond it.                    *)
(***************************************************************************)
BagIsFromBeyondOffice ==
    Idle /\ IdsAreIndices =>
        \A d \in DogIndex : \A entry \in Range(items) :
            Reaches(d, Office) /\ entry.id \in Range(bag[d])
            => Distance(entry.at, route[d][1]) >= Distance(Office, route[d][1])
=============================================================================
