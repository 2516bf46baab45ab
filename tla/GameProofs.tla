----------------------------- MODULE GameProofs -----------------------------
(***************************************************************************)
(* Proofs about Game, for any maps, bounds and capacities: the types, the  *)
(* match of players and dogs, the conservation of loot, the bag capacity,  *)
(* and that no dog vanishes without its score on the leaderboard.          *)
(***************************************************************************)
EXTENDS Game, FiniteSetTheorems, TLAPS

Joined == {d \in DogIds : d < dogCounter}

(* Ids, tokens and UUIDs are below the counters they were drawn from, and  *)
(* no two dogs share a UUID.                                               *)
PeopleNumbered ==
    /\ \A m \in Maps : dogs[m] \subseteq Joined
    /\ \A p \in players : p.id < playerCounter /\ p.token < fresh
    /\ \A d \in Joined : uuid[d] < fresh
    /\ \A d, e \in Joined : uuid[d] = uuid[e] => d = e

(* So are the ids of loot; dogs that have not joined have none.            *)
LootNumbered ==
    /\ \A m \in Maps : \A i \in loot[m] : i < lootCounter
    /\ \A d \in DogIds : \A i \in bag[d] \cup delivered[d] : i < lootCounter
    /\ \A d \in DogIds : d \notin Joined => bag[d] = {} /\ delivered[d] = {}

(* What the phases of Update say about its local variables.  While dogs    *)
(* retire, the ones still to be recorded are exactly the inactive ones     *)
(* left in the session: so the erase at its end removes nobody.            *)
LoopShape ==
    /\ phase \in {"gather", "retire"} => current \in Maps
    /\ phase = "gather" => moved \subseteq dogs[current] /\ leaving = {}
    /\ phase # "gather" => moved = {} /\ offered = {} /\ collected = {}
    /\ phase = "retire" => leaving = Inactive(current)
    /\ phase # "retire" => leaving = {}

IInv ==
    /\ TypeOK
    /\ PeopleNumbered
    /\ LootNumbered
    /\ LoopShape
    /\ PlayersMatchDogs
    /\ LootInOnePlace
    /\ BagWithinCapacity
    /\ GatherFindsLoot
    /\ NobodyVanishes

-----------------------------------------------------------------------------
(* A dog is in one session only: its player points to one.                 *)
LEMMA OneSession ==
    ASSUME PlayersMatchDogs, NEW m \in Maps, NEW n \in Maps, NEW d, d \in dogs[m], d \in dogs[n]
    PROVE  m = n
BY DEF PlayersMatchDogs

LEMMA BagsFinite ==
    ASSUME TypeOK, NEW d \in DogIds
    PROVE  IsFiniteSet(bag[d]) /\ Cardinality(bag[d]) \in Nat
<1>1. IsFiniteSet(LootIds)
  BY BoundsAssumption, FS_Interval DEF LootIds
<1>. QED  BY <1>1, FS_Subset, FS_CardinalityType DEF TypeOK

LEMMA InitIInv == Init => IInv
<1>. SUFFICES ASSUME Init PROVE IInv
  OBVIOUS
<1>. USE DEF Init, NoUpdate
<1>1. TypeOK
  BY BoundsAssumption, TimesAssumption, MapsAssumption
  DEF TypeOK, DogIds, LootIds, Fresh, Phases
<1>2. PeopleNumbered /\ LootNumbered /\ LoopShape
  BY DEF PeopleNumbered, LootNumbered, LoopShape, Joined, DogIds
<1>3. PlayersMatchDogs /\ LootInOnePlace /\ GatherFindsLoot /\ NobodyVanishes
  BY DEF PlayersMatchDogs, LootInOnePlace, GatherFindsLoot, NobodyVanishes, DogIds
<1>4. BagWithinCapacity
  BY DEF BagWithinCapacity
<1>. QED  BY <1>1, <1>2, <1>3, <1>4 DEF IInv

-----------------------------------------------------------------------------
LEMMA JoinIInv == ASSUME IInv, NEW m \in Maps, Join(m) PROVE IInv'
<1>. DEFINE d == dogCounter
<1>1. /\ d \in DogIds /\ d \notin Joined /\ fresh \in Fresh /\ playerCounter \in DogIds
      /\ dogCounter' = d + 1 /\ Joined' = Joined \cup {d}
  BY BoundsAssumption DEF IInv, TypeOK, Join, DogIds, Joined, Fresh
<1>2. \A n \in Maps : d \notin dogs[n]
  BY <1>1 DEF IInv, PeopleNumbered
<1>3. /\ bag' = bag /\ delivered' = delivered
      /\ bag[d] = {} /\ delivered[d] = {}
  BY <1>1 DEF IInv, TypeOK, LootNumbered, Join
<1>. DEFINE new == [id |-> playerCounter, token |-> fresh, dog |-> d, map |-> m]
<1>. HIDE DEF d
<1>a. /\ sessions' = sessions \cup {m} /\ dogs' = [dogs EXCEPT ![m] = @ \cup {d}]
       /\ uuid' = [uuid EXCEPT ![d] = fresh]
       /\ players' = players \cup {new}
       /\ playerCounter' = playerCounter + 1 /\ fresh' = fresh + 1
       /\ fresh < MaxFresh /\ playerCounter < MaxDogs /\ d < MaxDogs
       /\ UNCHANGED <<loot, lootCounter, table, loop>>
  BY DEF Join, NewUuid, d
<1>b. dogs \in [Maps -> SUBSET DogIds] /\ uuid \in [DogIds -> Fresh] /\ d = dogCounter
  BY DEF IInv, TypeOK, d
<1>4. TypeOK'
  <2>1. new \in Players
    BY <1>1 DEF Players
  <2>2. dogs' \in [Maps -> SUBSET DogIds] /\ uuid' \in [DogIds -> Fresh]
    BY <1>1, <1>a, <1>b
  <2>3. /\ moving' \in [DogIds -> BOOLEAN] /\ inactivity' \in [DogIds -> 0 .. RetireAfter]
    BY <1>1, TimesAssumption DEF IInv, TypeOK, Join
  <2>4. dogCounter' \in 0 .. MaxDogs /\ playerCounter' \in 0 .. MaxDogs /\ fresh' \in 0 .. MaxFresh
    BY <1>1, <1>a, <1>b, BoundsAssumption DEF IInv, TypeOK
  <2>5. players' \subseteq Players /\ sessions' \subseteq Maps
    BY <1>a, <2>1 DEF IInv, TypeOK
  <2>. QED
    BY <1>3, <1>a, <2>2, <2>3, <2>4, <2>5 DEF IInv, TypeOK, loop, table
<1>5. PeopleNumbered'
  <2>1. \A n \in Maps : dogs'[n] \subseteq Joined'
    BY <1>1, <1>a, <1>b DEF IInv, PeopleNumbered
  <2>2. \A p \in players' : p.id < playerCounter' /\ p.token < fresh'
    <3>1. \A p \in players : p.id < playerCounter /\ p.token < fresh /\ p.id \in Int /\ p.token \in Int
      BY DEF IInv, TypeOK, PeopleNumbered, Players, DogIds, Fresh
    <3>2. playerCounter \in Int /\ fresh \in Int
      BY DEF IInv, TypeOK
    <3>. QED  BY <1>a, <3>1, <3>2
  <2>3. \A e \in Joined : e # d /\ uuid'[e] = uuid[e] /\ uuid[e] < fresh /\ uuid[e] \in Int
    BY <1>1, <1>a, <1>b DEF IInv, PeopleNumbered, Joined, Fresh
  <2>4. uuid'[d] = fresh /\ fresh \in Int
    BY <1>1, <1>a, <1>b DEF Fresh
  <2>5. \A e \in Joined' : uuid'[e] < fresh'
    BY <1>1, <1>a, <2>3, <2>4
  <2>6. \A e, f \in Joined' : uuid'[e] = uuid'[f] => e = f
    BY <1>1, <2>3, <2>4 DEF IInv, PeopleNumbered
  <2>. QED  BY <2>1, <2>2, <2>5, <2>6 DEF PeopleNumbered
<1>6. LootNumbered'
  BY <1>1, <1>3 DEF IInv, TypeOK, LootNumbered, Join
<1>7. LoopShape'
  BY <1>1 DEF IInv, LoopShape, Join, loop
<1>8. PlayersMatchDogs'
  <2>1. \A p \in players : p.id # playerCounter /\ p.token # fresh /\ p.dog # d
    BY <1>2 DEF IInv, TypeOK, PeopleNumbered, PlayersMatchDogs, Players, Fresh, DogIds
  <2>2. \A p \in players' : p.map \in sessions' /\ p.dog \in dogs'[p.map]
    BY <1>a, <1>b DEF IInv, TypeOK, PlayersMatchDogs, Players
  <2>3. \A n \in Maps : \A e \in dogs'[n] : \E p \in players' : p.dog = e /\ p.map = n
    <3>1. new \in players' /\ new.dog = d /\ new.map = m
      BY <1>a
    <3>2. \A n \in Maps : \A e \in dogs'[n] : e \in dogs[n] \/ (n = m /\ e = d)
      BY <1>a, <1>b
    <3>3. \A n \in Maps : \A e \in dogs[n] : \E p \in players : p.dog = e /\ p.map = n
      BY DEF IInv, PlayersMatchDogs
    <3>4. players \subseteq players'
      BY <1>a
    <3>. SUFFICES ASSUME NEW n \in Maps, NEW e \in dogs'[n]
                  PROVE  \E p \in players' : p.dog = e /\ p.map = n
      OBVIOUS
    <3>5. CASE e \in dogs[n]
      BY <3>3, <3>4, <3>5
    <3>6. CASE n = m /\ e = d
      BY <3>1, <3>6
    <3>. QED  BY <3>2, <3>5, <3>6
  <2>4. \A p, q \in players' : (p.id = q.id \/ p.token = q.token \/ p.dog = q.dog) => p = q
    BY <1>a, <2>1 DEF IInv, PlayersMatchDogs
  <2>. QED  BY <2>2, <2>3, <2>4 DEF PlayersMatchDogs
<1>9. LootInOnePlace' /\ GatherFindsLoot'
  BY <1>3 DEF IInv, LootInOnePlace, GatherFindsLoot, Join, loop
<1>10. BagWithinCapacity'
  <2>1. Cardinality(bag[d]) = 0
    BY <1>3, FS_EmptySet
  <2>2. \A n \in Maps : \A e \in dogs'[n] : e \in dogs[n] \/ e = d
    BY <1>a, <1>b
  <2>3. \A n \in Maps : BagCapacity[n] \in Nat
    BY BagAssumption
  <2>4. \A n \in Maps : \A e \in dogs[n] : Cardinality(bag[e]) <= BagCapacity[n]
    BY DEF IInv, BagWithinCapacity
  <2>5. ASSUME NEW n \in Maps, NEW e \in dogs'[n] PROVE Cardinality(bag'[e]) <= BagCapacity[n]
    <3>1. CASE e = d
      BY <1>3, <2>1, <2>3, <3>1
    <3>2. CASE e \in dogs[n]
      BY <1>3, <2>4, <3>2
    <3>. QED  BY <2>2, <3>1, <3>2
  <2>. QED  BY <2>5 DEF BagWithinCapacity
<1>11. NobodyVanishes'
  BY <1>1, <1>3 DEF IInv, TypeOK, NobodyVanishes, Live, Join, NewUuid, table, Joined
<1>. QED
  BY <1>4, <1>5, <1>6, <1>7, <1>8, <1>9, <1>10, <1>11 DEF IInv

LEMMA ActIInv == ASSUME IInv, NEW p \in players, NEW go \in BOOLEAN, Act(p, go) PROVE IInv'
<1>1. TypeOK'
  BY TimesAssumption DEF IInv, TypeOK, Act, Players, ground, people, goods, table, loop
<1>2. PeopleNumbered' /\ LootNumbered' /\ PlayersMatchDogs' /\ LootInOnePlace' /\ BagWithinCapacity'
  BY DEF IInv, Act, ground, people, goods, table, loop, PeopleNumbered, Joined, LootNumbered,
         PlayersMatchDogs, LootInOnePlace, BagWithinCapacity
<1>3. LoopShape' /\ GatherFindsLoot' /\ NobodyVanishes'
  BY DEF IInv, Act, ground, people, goods, table, loop, LoopShape, GatherFindsLoot,
         NobodyVanishes, Live
<1>. QED  BY <1>1, <1>2, <1>3 DEF IInv

-----------------------------------------------------------------------------
(* What holds after a step of the loop that touches neither the world nor  *)
(* the table.                                                              *)
LEMMA WorldUnchanged ==
    ASSUME IInv, UNCHANGED <<ground, people, goods, motion, table>>
    PROVE  /\ PeopleNumbered' /\ LootNumbered' /\ PlayersMatchDogs'
           /\ LootInOnePlace' /\ BagWithinCapacity' /\ NobodyVanishes'
<1>1. PeopleNumbered' /\ LootNumbered' /\ PlayersMatchDogs'
  BY DEF IInv, ground, people, goods, PeopleNumbered, Joined, LootNumbered, PlayersMatchDogs
<1>2. LootInOnePlace' /\ BagWithinCapacity' /\ NobodyVanishes'
  BY DEF IInv, ground, people, goods, table, LootInOnePlace, BagWithinCapacity,
         NobodyVanishes, Live
<1>. QED  BY <1>1, <1>2

LEMMA BeginUpdateIInv == ASSUME IInv, BeginUpdate PROVE IInv'
<1>1. TypeOK'
  BY DEF IInv, TypeOK, BeginUpdate, gather, ground, people, goods, motion, table, Phases
<1>2. LoopShape' /\ GatherFindsLoot'
  BY DEF IInv, LoopShape, GatherFindsLoot, BeginUpdate, gather
<1>. QED  BY <1>1, <1>2, WorldUnchanged DEF IInv, BeginUpdate

LEMMA VisitSessionIInv == ASSUME IInv, NEW m \in Maps, VisitSession(m) PROVE IInv'
<1>1. PICK go \in SUBSET Running(m) : \E halt \in SUBSET Running(m) : MoveDogs(m, go, halt)
  BY DEF VisitSession
<1>2. PICK halt \in SUBSET Running(m) : MoveDogs(m, go, halt)
  BY <1>1
<1>3. PICK n \in 0 .. Shortage(m) : AddLoot(m, n)
  BY DEF VisitSession
<1>. DEFINE new == lootCounter .. lootCounter + n - 1
<1>4. Shortage(m) \in Int /\ n \in Nat
  <2>1. IsFiniteSet(LootIds) /\ IsFiniteSet(DogIds)
    BY BoundsAssumption, FS_Interval DEF LootIds, DogIds
  <2>2. Cardinality(loot[m]) \in Nat /\ Cardinality(dogs[m]) \in Nat
    BY <2>1, FS_Subset, FS_CardinalityType DEF IInv, TypeOK
  <2>. QED  BY <2>2 DEF Shortage
<1>5. /\ loot' = [loot EXCEPT ![m] = @ \cup new]
      /\ lootCounter' = lootCounter + n /\ lootCounter' \in 0 .. MaxLoot
      /\ new \subseteq LootIds
      /\ \A i \in new : i >= lootCounter /\ i < lootCounter'
  BY <1>3, <1>4, BoundsAssumption DEF IInv, TypeOK, AddLoot, LootIds
<1>6. UNCHANGED <<sessions, dogs, people, goods, table, leaving, saveTimer>>
  BY DEF VisitSession
<1>7. /\ phase = "update" /\ m \in todo
      /\ phase' = "gather" /\ current' = m /\ todo' = todo \ {m}
      /\ moved' = go /\ go \subseteq dogs[m]
      /\ offered' = loot'[m] /\ collected' = {}
  BY <1>2, <1>3 DEF VisitSession, MoveDogs, AddLoot, Running
<1>8. TypeOK'
  <2>1. moving' \in [DogIds -> BOOLEAN] /\ inactivity' \in [DogIds -> 0 .. RetireAfter]
    BY <1>2, TimesAssumption DEF IInv, TypeOK, MoveDogs
  <2>2. loot' \in [Maps -> SUBSET LootIds]
    BY <1>5 DEF IInv, TypeOK
  <2>. QED
    BY <1>5, <1>6, <1>7, <2>1, <2>2 DEF IInv, TypeOK, people, goods, table, Phases
<1>9. PeopleNumbered' /\ PlayersMatchDogs' /\ NobodyVanishes'
  BY <1>6 DEF IInv, people, goods, table, PeopleNumbered, Joined, PlayersMatchDogs,
              NobodyVanishes, Live
<1>10. LootNumbered'
  BY <1>4, <1>5, <1>6 DEF IInv, TypeOK, people, goods, LootNumbered, Joined, LootIds
<1>11. LootInOnePlace'
  <2>1. \A i \in new : (\A q \in Maps : i \notin loot[q])
                    /\ (\A d \in DogIds : i \notin bag[d] \cup delivered[d])
    BY <1>5 DEF IInv, TypeOK, LootNumbered, LootIds
  <2>. QED  BY <1>5, <1>6, <2>1 DEF IInv, TypeOK, goods, LootInOnePlace
<1>12. BagWithinCapacity'
  BY <1>6 DEF IInv, goods, BagWithinCapacity
<1>13. LoopShape' /\ GatherFindsLoot'
  BY <1>6, <1>7 DEF IInv, LoopShape, GatherFindsLoot
<1>. QED
  BY <1>8, <1>9, <1>10, <1>11, <1>12, <1>13 DEF IInv

-----------------------------------------------------------------------------
LEMMA CollectLootIInv ==
    ASSUME IInv, NEW d \in DogIds, NEW i \in LootIds, CollectLoot(d, i)
    PROVE  IInv'
<1>. DEFINE m == current
<1>1. /\ phase = "gather" /\ m \in Maps /\ d \in dogs[m]
      /\ i \in offered /\ i \notin collected /\ i \in loot[m]
  BY DEF IInv, LoopShape, GatherFindsLoot, CollectLoot
<1>2. /\ loot' = [loot EXCEPT ![m] = @ \ {i}]
      /\ bag' = [bag EXCEPT ![d] = @ \cup {i}]
      /\ collected' = collected \cup {i}
      /\ UNCHANGED <<sessions, dogs, lootCounter, people, delivered, motion, table>>
      /\ UNCHANGED <<phase, todo, current, moved, offered, leaving, saveTimer>>
  BY DEF CollectLoot
<1>3. TypeOK'
  BY <1>1, <1>2 DEF IInv, TypeOK, people, motion, table
<1>4. PeopleNumbered' /\ PlayersMatchDogs' /\ NobodyVanishes'
  BY <1>2 DEF IInv, people, table, PeopleNumbered, Joined, PlayersMatchDogs, NobodyVanishes, Live
<1>5. LootNumbered'
  <2>1. d \in Joined /\ i < lootCounter
    BY <1>1 DEF IInv, PeopleNumbered, LootNumbered
  <2>. QED  BY <1>1, <1>2, <2>1 DEF IInv, TypeOK, people, LootNumbered, Joined
<1>6. LootInOnePlace'
  BY <1>1, <1>2 DEF IInv, TypeOK, LootInOnePlace
<1>7. BagWithinCapacity'
  <2>1. Cardinality(bag[d]) < BagCapacity[m]
    BY DEF CollectLoot
  <2>2. i \notin bag[d]
    BY <1>1 DEF IInv, LootInOnePlace
  <2>3. Cardinality(bag[d] \cup {i}) = Cardinality(bag[d]) + 1
    BY <2>2, BagsFinite, FS_AddElement DEF IInv
  <2>4. Cardinality(bag'[d]) <= BagCapacity[m]
    <3>1. bag'[d] = bag[d] \cup {i}
      BY <1>2 DEF IInv, TypeOK
    <3>2. BagCapacity[m] \in Nat /\ Cardinality(bag[d]) \in Nat
      BY <1>1, BagAssumption, BagsFinite DEF IInv
    <3>. QED  BY <2>1, <2>3, <3>1, <3>2
  <2>5. \A n \in Maps : d \in dogs[n] => n = m
    BY <1>1, OneSession DEF IInv
  <2>6. \A e \in DogIds : e # d => bag'[e] = bag[e]
    BY <1>2 DEF IInv, TypeOK
  <2>. QED  BY <1>2, <2>4, <2>5, <2>6 DEF IInv, TypeOK, BagWithinCapacity
<1>8. LoopShape'
  BY <1>1, <1>2 DEF IInv, LoopShape
<1>9. GatherFindsLoot'
  BY <1>1, <1>2 DEF IInv, TypeOK, GatherFindsLoot
<1>. QED
  BY <1>3, <1>4, <1>5, <1>6, <1>7, <1>8, <1>9 DEF IInv

LEMMA ReleaseLootIInv == ASSUME IInv, NEW d \in DogIds, ReleaseLoot(d) PROVE IInv'
<1>. DEFINE m == current
<1>1. phase = "gather" /\ m \in Maps /\ d \in dogs[m] /\ d \in Joined
  BY DEF IInv, LoopShape, PeopleNumbered, ReleaseLoot
<1>2. /\ delivered' = [delivered EXCEPT ![d] = @ \cup bag[d]]
      /\ bag' = [bag EXCEPT ![d] = {}]
      /\ UNCHANGED <<ground, people, motion, table, loop>>
  BY DEF ReleaseLoot
<1>3. TypeOK'
  BY <1>2 DEF IInv, TypeOK, ground, people, motion, table, loop
<1>4. PeopleNumbered' /\ PlayersMatchDogs'
  BY <1>2 DEF IInv, ground, people, PeopleNumbered, Joined, PlayersMatchDogs
<1>5. LootNumbered'
  BY <1>1, <1>2 DEF IInv, TypeOK, ground, people, LootNumbered, Joined
<1>6. LootInOnePlace'
  BY <1>2 DEF IInv, TypeOK, ground, LootInOnePlace
<1>7. BagWithinCapacity'
  <2>1. Cardinality(bag'[d]) = 0
    BY <1>2, FS_EmptySet DEF IInv, TypeOK
  <2>2. \A e \in DogIds : e # d => bag'[e] = bag[e]
    BY <1>2 DEF IInv, TypeOK
  <2>. QED  BY <1>2, <2>1, <2>2, BagAssumption DEF IInv, TypeOK, ground, BagWithinCapacity
<1>8. NobodyVanishes'
  BY <1>1, <1>2 DEF IInv, TypeOK, ground, people, table, NobodyVanishes, Live
<1>9. LoopShape' /\ GatherFindsLoot'
  BY <1>2 DEF IInv, ground, motion, loop, LoopShape, GatherFindsLoot, Inactive
<1>. QED
  BY <1>3, <1>4, <1>5, <1>6, <1>7, <1>8, <1>9 DEF IInv

LEMMA EndGatherIInv == ASSUME IInv, EndGather PROVE IInv'
<1>1. current \in Maps /\ Inactive(current)' = Inactive(current)
  BY DEF IInv, LoopShape, EndGather, Inactive, ground, motion
<1>2. TypeOK'
  BY <1>1 DEF IInv, TypeOK, EndGather, Inactive, ground, people, goods, motion, table, Phases
<1>3. LoopShape' /\ GatherFindsLoot'
  BY <1>1 DEF IInv, LoopShape, GatherFindsLoot, EndGather
<1>. QED  BY <1>2, <1>3, WorldUnchanged DEF IInv, EndGather

-----------------------------------------------------------------------------
LEMMA RetireIInv == ASSUME IInv, NEW d \in DogIds, Retire(d) PROVE IInv'
<1>. DEFINE m == current
<1>1. /\ phase = "retire" /\ m \in Maps /\ d \in dogs[m] /\ d \in Joined
      /\ leaving = Inactive(m)
  BY DEF IInv, LoopShape, PeopleNumbered, Retire, Inactive
<1>2. /\ recorded' = recorded \cup {uuid[d]}
      /\ board' = [board EXCEPT ![uuid[d]] = delivered[d]]
      /\ players' = players \ Owners(d)
      /\ leaving' = leaving \ {d}
      /\ UNCHANGED <<sessions, loot, lootCounter, playerCounter, dogCounter, uuid, fresh>>
      /\ UNCHANGED <<goods, motion, phase, todo, current, gather, saveTimer>>
  BY DEF Retire, SaveRecord, RemovePlayerFromGameByDogId
<1>3. dogs' = [dogs EXCEPT ![m] = @ \ {d}]
  <2>1. \E p \in Owners(d) : p.map = m
    BY <1>1 DEF IInv, PlayersMatchDogs, Owners
  <2>2. \A n \in Maps : n # m => d \notin dogs[n]
    BY <1>1, OneSession DEF IInv
  <2>3. \A n \in Maps : n # m => dogs'[n] = dogs[n]
    BY <2>2 DEF Retire, RemovePlayerFromGameByDogId
  <2>4. dogs'[m] = dogs[m] \ {d} /\ DOMAIN dogs' = Maps /\ dogs' = [n \in Maps |-> dogs'[n]]
    BY <1>1, <2>1 DEF Retire, RemovePlayerFromGameByDogId
  <2>. QED  BY <2>3, <2>4 DEF IInv, TypeOK
<1>4. TypeOK'
  BY <1>1, <1>2, <1>3 DEF IInv, TypeOK, goods, motion, gather
<1>5. PeopleNumbered'
  BY <1>2, <1>3 DEF IInv, TypeOK, PeopleNumbered, Joined
<1>6. LootNumbered' /\ LootInOnePlace'
  BY <1>2 DEF IInv, goods, LootNumbered, Joined, LootInOnePlace
<1>7. PlayersMatchDogs'
  <2>1. \A p \in players : p \in players' <=> p.dog # d
    BY <1>2 DEF Owners
  <2>2. \A p \in players' : p.map \in sessions' /\ p.dog \in dogs'[p.map]
    BY <1>2, <1>3, <2>1 DEF IInv, TypeOK, PlayersMatchDogs, Players
  <2>3. \A n \in Maps : \A e \in dogs'[n] : \E p \in players' : p.dog = e /\ p.map = n
    <3>1. \A n \in Maps : d \notin dogs'[n]
      BY <1>1, <1>3, OneSession DEF IInv, TypeOK
    <3>. QED  BY <1>3, <2>1, <3>1 DEF IInv, TypeOK, PlayersMatchDogs
  <2>. QED  BY <1>2, <2>2, <2>3 DEF IInv, PlayersMatchDogs
<1>8. BagWithinCapacity'
  BY <1>2, <1>3 DEF IInv, TypeOK, goods, BagWithinCapacity
<1>9. NobodyVanishes'
  <2>1. \A e \in Joined : e # d => uuid[e] # uuid[d]
    BY <1>1 DEF IInv, PeopleNumbered
  <2>2. \A e \in DogIds : e # d /\ e \in Live => e \in Live'
    BY <1>3 DEF IInv, TypeOK, Live
  <2>3. uuid[d] \in Fresh
    BY DEF IInv, TypeOK
  <2>4. \A e \in Joined : e # d => (e \in Live' \/ (uuid[e] \in recorded' /\ board'[uuid[e]] = delivered[e]))
    BY <1>2, <2>1, <2>2, <2>3 DEF IInv, TypeOK, NobodyVanishes, Joined
  <2>5. uuid[d] \in recorded' /\ board'[uuid[d]] = delivered[d]
    BY <1>2, <2>3 DEF IInv, TypeOK
  <2>. QED  BY <1>2, <2>4, <2>5 DEF NobodyVanishes, Joined, goods
<1>10. LoopShape'
  <2>1. Inactive(m)' = Inactive(m) \ {d}
    BY <1>1, <1>2, <1>3 DEF IInv, TypeOK, Inactive, motion
  <2>. QED  BY <1>1, <1>2, <2>1 DEF IInv, LoopShape, gather
<1>11. GatherFindsLoot'
  BY <1>1, <1>2 DEF GatherFindsLoot
<1>. QED
  BY <1>4, <1>5, <1>6, <1>7, <1>8, <1>9, <1>10, <1>11 DEF IInv

LEMMA RetireFailsIInv ==
    ASSUME IInv, NEW d \in DogIds, NEW committed \in BOOLEAN, RetireFails(d, committed)
    PROVE  IInv'
<1>1. /\ phase = "retire" /\ current \in Maps /\ d \in dogs[current] /\ d \in Joined
  BY DEF IInv, LoopShape, PeopleNumbered, RetireFails, Inactive
<1>2. /\ phase' = "idle" /\ todo' = {} /\ current' = NoMap /\ leaving' = {}
      /\ UNCHANGED <<gather, saveTimer, ground, people, goods, motion>>
      /\ UNCHANGED table \/ SaveRecord(d)
  BY DEF RetireFails
<1>3. TypeOK'
  BY <1>2 DEF IInv, TypeOK, SaveRecord, gather, ground, people, goods, motion, table, Phases
<1>4. PeopleNumbered' /\ LootNumbered' /\ PlayersMatchDogs'
  BY <1>2 DEF IInv, ground, people, goods, PeopleNumbered, Joined, LootNumbered, PlayersMatchDogs
<1>5. LootInOnePlace' /\ BagWithinCapacity'
  BY <1>2 DEF IInv, ground, goods, LootInOnePlace, BagWithinCapacity
<1>6. NobodyVanishes'
  <2>1. CASE UNCHANGED table
    BY <1>2, <2>1 DEF IInv, ground, people, goods, table, NobodyVanishes, Live
  <2>2. CASE SaveRecord(d)
    <3>1. \A e \in Joined : e # d => uuid[e] # uuid[d]
      BY <1>1 DEF IInv, PeopleNumbered
    <3>2. d \in Live /\ Live' = Live
      BY <1>1, <1>2 DEF Live, ground
    <3>. QED
      BY <1>2, <2>2, <3>1, <3>2 DEF IInv, TypeOK, people, goods, SaveRecord, NobodyVanishes, Joined
  <2>. QED  BY <1>2, <2>1, <2>2
<1>7. LoopShape' /\ GatherFindsLoot'
  BY <1>1, <1>2 DEF IInv, LoopShape, GatherFindsLoot, gather
<1>. QED
  BY <1>3, <1>4, <1>5, <1>6, <1>7 DEF IInv

LEMMA EndSessionIInv == ASSUME IInv, EndSession PROVE IInv'
<1>1. current \in Maps /\ Inactive(current) = {} /\ phase = "retire"
  BY DEF IInv, LoopShape, EndSession
<1>2. dogs' = dogs
  BY <1>1 DEF IInv, TypeOK, EndSession
<1>3. UNCHANGED <<ground, people, goods, motion, table>>
  BY <1>2 DEF EndSession, ground
<1>4. TypeOK'
  BY <1>3 DEF IInv, TypeOK, EndSession, gather, ground, people, goods, motion, table, Phases
<1>5. LoopShape' /\ GatherFindsLoot'
  BY <1>1 DEF IInv, LoopShape, GatherFindsLoot, EndSession, gather
<1>. QED  BY <1>3, <1>4, <1>5, WorldUnchanged DEF IInv

LEMMA FinishIInv ==
    ASSUME IInv, EndUpdate \/ SaveSucceeds \/ SaveFails
    PROVE  IInv'
<1>. USE DEF EndUpdate, SaveSucceeds, SaveFails
<1>1. TypeOK'
  BY TimesAssumption DEF IInv, TypeOK, gather, ground, people, goods, motion, table, Phases
<1>2. LoopShape' /\ GatherFindsLoot'
  BY DEF IInv, LoopShape, GatherFindsLoot, gather
<1>3. UNCHANGED <<ground, people, goods, motion, table>>
  OBVIOUS
<1>. QED  BY <1>1, <1>2, <1>3, WorldUnchanged DEF IInv

LEMMA NextIInv == IInv /\ [Next]_vars => IInv'
<1>. SUFFICES ASSUME IInv, [Next]_vars PROVE IInv'
  OBVIOUS
<1>1. ASSUME Requests PROVE IInv'
  BY <1>1, JoinIInv, ActIInv DEF Requests
<1>2. ASSUME UpdateStep PROVE IInv'
  BY <1>2, BeginUpdateIInv, VisitSessionIInv, CollectLootIInv, ReleaseLootIInv, EndGatherIInv,
     RetireIInv, RetireFailsIInv, EndSessionIInv, FinishIInv DEF UpdateStep
<1>3. CASE UNCHANGED vars
  <2>1. UNCHANGED <<ground, people, goods, motion, table, loop>>
    BY <1>3 DEF vars
  <2>2. TypeOK'
    BY <2>1 DEF IInv, TypeOK, ground, people, goods, motion, table, loop
  <2>3. LoopShape' /\ GatherFindsLoot'
    BY <2>1 DEF IInv, LoopShape, GatherFindsLoot, Inactive, ground, motion, loop
  <2>. QED  BY <2>1, <2>2, <2>3, WorldUnchanged DEF IInv
<1>. QED  BY <1>1, <1>2, <1>3, FinishIInv DEF Next

LEMMA Invariance == Spec => []IInv
BY InitIInv, NextIInv, PTL DEF Spec

-----------------------------------------------------------------------------
(* The variables keep their types.                                         *)
THEOREM GameTypeCorrect == Spec => []TypeOK
<1>1. IInv => TypeOK
  BY DEF IInv
<1>. QED  BY <1>1, Invariance, PTL

(* Players::players_ and the dogs of the sessions match one to one at      *)
(* every step of joins, updates, retirements and failures.                 *)
THEOREM PlayersAlwaysMatchDogs == Spec => []PlayersMatchDogs
<1>1. IInv => PlayersMatchDogs
  BY DEF IInv
<1>. QED  BY <1>1, Invariance, PTL

(* No item of loot is duplicated by GatherLoot or ReleaseLoot.             *)
THEOREM LootConserved == Spec => []LootInOnePlace
<1>1. IInv => LootInOnePlace
  BY DEF IInv
<1>. QED  BY <1>1, Invariance, PTL

(* No bag exceeds the capacity of its map.                                 *)
THEOREM CapacityKept == Spec => []BagWithinCapacity
<1>1. IInv => BagWithinCapacity
  BY DEF IInv
<1>. QED  BY <1>1, Invariance, PTL

(* GameSession::GatherLoot never throws in Game::GatherLoot.               *)
THEOREM GatherNeverThrows == Spec => []GatherFindsLoot
<1>1. IInv => GatherFindsLoot
  BY DEF IInv
<1>. QED  BY <1>1, Invariance, PTL

(* A dog that joined is in a session or its score is on the leaderboard,   *)
(* whichever SaveRecord failed.                                            *)
THEOREM NobodyEverVanishes == Spec => []NobodyVanishes
<1>1. IInv => NobodyVanishes
  BY DEF IInv
<1>. QED  BY <1>1, Invariance, PTL

-----------------------------------------------------------------------------
(* The table changes only by SaveRecord, for a dog that is in a session.   *)
LEMMA TableStep ==
    ASSUME IInv, [Next]_vars
    PROVE  UNCHANGED table \/ \E e \in Joined : e \in Live /\ SaveRecord(e)
<1>1. ASSUME NEW e \in DogIds, phase = "retire", e \in leaving
      PROVE  e \in Joined /\ e \in Live
  BY <1>1 DEF IInv, LoopShape, PeopleNumbered, Inactive, Live
<1>2. ASSUME Requests PROVE UNCHANGED table
  BY <1>2 DEF Requests, Join, Act
<1>3. ASSUME UpdateStep
      PROVE  UNCHANGED table \/ \E e \in Joined : e \in Live /\ SaveRecord(e)
  <2>1. ASSUME NEW e \in DogIds, Retire(e) PROVE e \in Joined /\ e \in Live /\ SaveRecord(e)
    BY <1>1, <2>1 DEF Retire
  <2>2. ASSUME NEW e \in DogIds, NEW committed \in BOOLEAN, RetireFails(e, committed)
        PROVE  UNCHANGED table \/ (e \in Joined /\ e \in Live /\ SaveRecord(e))
    BY <1>1, <2>2 DEF RetireFails
  <2>3. ASSUME \/ BeginUpdate \/ \E m \in Maps : VisitSession(m)
               \/ \E d \in DogIds, i \in LootIds : CollectLoot(d, i)
               \/ \E d \in DogIds : ReleaseLoot(d)
               \/ EndGather \/ EndSession \/ EndUpdate
        PROVE  UNCHANGED table
    BY <2>3 DEF BeginUpdate, VisitSession, CollectLoot, ReleaseLoot, EndGather, EndSession, EndUpdate
  <2>. QED  BY <1>3, <2>1, <2>2, <2>3 DEF UpdateStep
<1>4. ASSUME SaveSucceeds \/ SaveFails \/ UNCHANGED vars PROVE UNCHANGED table
  BY <1>4 DEF SaveSucceeds, SaveFails, vars
<1>. QED  BY <1>2, <1>3, <1>4 DEF Next

(* The row of a dog other than the one recorded stays.                     *)
LEMMA OtherRowsStay ==
    ASSUME IInv, NEW d \in Joined, NEW e \in Joined, d # e, SaveRecord(e)
    PROVE  /\ uuid[d] \in recorded => uuid[d] \in recorded'
           /\ board'[uuid[d]] = board[uuid[d]]
<1>1. uuid[d] # uuid[e]
  BY DEF IInv, PeopleNumbered
<1>. QED  BY <1>1 DEF IInv, TypeOK, SaveRecord, Joined

(* The score of a dog that has left the game is not touched any more.      *)
THEOREM LeaderboardRowsAreFinal == Spec => RowsAreFinal
<1>. DEFINE A == \A d \in DogIds : d < dogCounter /\ d \notin Live =>
                     uuid[d] \in recorded' /\ board'[uuid[d]] = board[uuid[d]]
<1>1. IInv /\ [Next]_vars => A
  <2>. SUFFICES ASSUME IInv, [Next]_vars, NEW d \in DogIds, d < dogCounter, d \notin Live
                PROVE  uuid[d] \in recorded' /\ board'[uuid[d]] = board[uuid[d]]
    OBVIOUS
  <2>1. d \in Joined /\ uuid[d] \in recorded
    BY DEF IInv, NobodyVanishes, Joined
  <2>2. CASE UNCHANGED table
    BY <2>1, <2>2 DEF table
  <2>3. CASE \E e \in Joined : e \in Live /\ SaveRecord(e)
    BY <2>1, <2>3, OtherRowsStay
  <2>. QED  BY <2>2, <2>3, TableStep
<1>2. IInv /\ [Next]_vars => [A]_vars
  BY <1>1
<1>. QED  BY <1>2, Invariance, PTL DEF Spec, RowsAreFinal

-----------------------------------------------------------------------------
(* Game implements Career: joining enters, bringing loot to an office      *)
(* earns, Retire retires, and nothing else shows.                          *)
Statuses == [d \in DogIds |-> Status(d)]
Result(d) == IF Status(d) = "retired" THEN board[uuid[d]] ELSE {}
Results == [d \in DogIds |-> Result(d)]

LEMMA CareerInit == Init => PlayerCareer!Init
BY DEF Init, PlayerCareer!Init, Status, DogIds

(* A step that changes neither the dogs, nor the scores, nor the rows of   *)
(* dogs that have left, does not show.                                     *)
LEMMA CareerStutter ==
    ASSUME IInv, [Next]_vars, UNCHANGED <<dogs, dogCounter, uuid, delivered>>
    PROVE  UNCHANGED <<Statuses, delivered, Results>>
<1>1. \A d \in DogIds : Status(d)' = Status(d)
  BY DEF Status, Live
<1>2. \A d \in DogIds : Result(d)' = Result(d)
  <2>. SUFFICES ASSUME NEW d \in DogIds, Status(d) = "retired"
                PROVE  board'[uuid[d]] = board[uuid[d]]
    BY <1>1 DEF Result
  <2>1. d \in Joined /\ d \notin Live
    BY DEF Status, Joined, IInv, TypeOK, DogIds
  <2>2. CASE UNCHANGED table
    BY <2>2 DEF table
  <2>3. CASE \E e \in Joined : e \in Live /\ SaveRecord(e)
    BY <2>1, <2>3, OtherRowsStay
  <2>. QED  BY <2>2, <2>3, TableStep
<1>. QED  BY <1>1, <1>2 DEF Statuses, Results

LEMMA CareerEnter ==
    ASSUME IInv, NEW m \in Maps, Join(m)
    PROVE  PlayerCareer!Enter(dogCounter) /\ dogCounter \in DogIds
<1>. DEFINE d == dogCounter
<1>1. /\ d \in DogIds /\ dogCounter' = d + 1 /\ dogs' = [dogs EXCEPT ![m] = @ \cup {d}]
      /\ delivered' = [delivered EXCEPT ![d] = {}]
      /\ uuid' = [uuid EXCEPT ![d] = fresh] /\ UNCHANGED table
  BY BoundsAssumption DEF IInv, TypeOK, Join, NewUuid, DogIds
<1>2. \A e \in DogIds : e # d => (e \in Live' <=> e \in Live)
  BY <1>1 DEF IInv, TypeOK, Live
<1>3. d \in Live'
  BY <1>1 DEF IInv, TypeOK, Live
<1>4. \A e \in DogIds : Status(e)' = IF e = d THEN "playing" ELSE Status(e)
  BY <1>1, <1>2, <1>3 DEF Status, IInv, TypeOK, DogIds
<1>5. Status(d) = "absent"
  BY <1>1 DEF Status, DogIds
<1>6. delivered' = delivered
  BY <1>1 DEF IInv, TypeOK, LootNumbered, Joined
<1>7. \A e \in DogIds : Result(e)' = Result(e)
  BY <1>1, <1>4, <1>5 DEF Result, table, IInv, TypeOK
<1>8. Statuses' = [Statuses EXCEPT ![d] = "playing"]
  BY <1>1, <1>4 DEF Statuses
<1>9. Results' = Results
  BY <1>7 DEF Results
<1>. QED  BY <1>1, <1>5, <1>6, <1>8, <1>9 DEF PlayerCareer!Enter, Statuses, Results, Result

LEMMA CareerEarn ==
    ASSUME IInv, [Next]_vars, NEW d \in DogIds, ReleaseLoot(d)
    PROVE  PlayerCareer!Earn(d, bag[d]) /\ bag[d] \in SUBSET LootIds
<1>1. d \in Live /\ d \in Joined /\ d \in Int /\ dogCounter \in Int
  BY DEF IInv, TypeOK, LoopShape, PeopleNumbered, ReleaseLoot, Live, DogIds
<1>2. Status(d) = "playing"
  BY <1>1 DEF Status, Joined
<1>3. \A e \in DogIds : bag[d] \cap delivered[e] = {}
  BY DEF IInv, LootInOnePlace
<1>4. \A e \in DogIds : Status(e)' = Status(e) /\ Result(e)' = Result(e)
  BY DEF ReleaseLoot, Status, Result, Live, ground, people, table
<1>5. Statuses' = Statuses /\ Results' = Results
  BY <1>4 DEF Statuses, Results
<1>. QED
  BY <1>2, <1>3, <1>5 DEF PlayerCareer!Earn, ReleaseLoot, Statuses, Results, Result, IInv, TypeOK

LEMMA CareerRetire ==
    ASSUME IInv, NEW d \in DogIds, Retire(d)
    PROVE  PlayerCareer!Retire(d)
<1>1. /\ d \in Live /\ d \in Joined /\ d \in Int /\ dogCounter \in Int
  BY DEF IInv, TypeOK, LoopShape, PeopleNumbered, Inactive, Retire, Live, DogIds
<1>2. SaveRecord(d) /\ UNCHANGED <<delivered, uuid, dogCounter>>
  BY DEF Retire, goods
<1>3. d \notin Live'
  <2>1. \A n \in Maps : d \in dogs[n] => \E p \in Owners(d) : p.map = n
    BY DEF IInv, PlayersMatchDogs, Owners
  <2>2. \A n \in Maps : d \notin dogs'[n]
    BY <2>1 DEF Retire, RemovePlayerFromGameByDogId
  <2>. QED  BY <2>2 DEF Live
<1>4. \A e \in DogIds : e # d => (e \in Live' <=> e \in Live)
  BY DEF Retire, RemovePlayerFromGameByDogId, Live
<1>5. /\ Status(d) = "playing" /\ Status(d)' = "retired"
      /\ \A e \in DogIds : e # d => Status(e)' = Status(e)
  BY <1>1, <1>2, <1>3, <1>4 DEF Status, Joined
<1>6. Result(d)' = delivered[d]
  BY <1>2, <1>5 DEF Result, SaveRecord, IInv, TypeOK
<1>7. ASSUME NEW e \in DogIds, e # d PROVE Result(e)' = Result(e)
  <2>1. CASE Status(e) = "retired"
    <3>1. e \in Joined
      BY <2>1 DEF Status, Joined, IInv, TypeOK, DogIds
    <3>. QED  BY <1>1, <1>2, <1>5, <1>7, <2>1, <3>1, OtherRowsStay DEF Result
  <2>2. CASE Status(e) # "retired"
    BY <1>5, <1>7, <2>2 DEF Result
  <2>. QED  BY <2>1, <2>2
<1>8. Statuses' = [Statuses EXCEPT ![d] = "retired"]
  BY <1>5 DEF Statuses
<1>9. Results' = [Results EXCEPT ![d] = delivered[d]]
  BY <1>6, <1>7 DEF Results
<1>. QED  BY <1>2, <1>5, <1>8, <1>9 DEF PlayerCareer!Retire, Statuses, Results, Result

LEMMA CareerStep ==
    IInv /\ [Next]_vars => [PlayerCareer!Next]_<<Statuses, delivered, Results>>
<1>. SUFFICES ASSUME IInv, [Next]_vars
              PROVE  PlayerCareer!Next \/ UNCHANGED <<Statuses, delivered, Results>>
  OBVIOUS
<1>1. ASSUME NEW m \in Maps, Join(m) PROVE PlayerCareer!Next
  BY <1>1, CareerEnter DEF PlayerCareer!Next
<1>2. ASSUME NEW d \in DogIds, ReleaseLoot(d) PROVE PlayerCareer!Next
  BY <1>2, CareerEarn DEF PlayerCareer!Next
<1>3. ASSUME NEW d \in DogIds, Retire(d) PROVE PlayerCareer!Next
  BY <1>3, CareerRetire DEF PlayerCareer!Next
<1>4. ASSUME EndSession PROVE UNCHANGED dogs
  BY <1>4 DEF EndSession, IInv, TypeOK, LoopShape
<1>5. ASSUME \/ \E p \in players, go \in BOOLEAN : Act(p, go)
             \/ BeginUpdate \/ \E m \in Maps : VisitSession(m)
             \/ \E d \in DogIds, i \in LootIds : CollectLoot(d, i)
             \/ EndGather
             \/ \E d \in DogIds, committed \in BOOLEAN : RetireFails(d, committed)
             \/ EndSession \/ EndUpdate \/ SaveSucceeds \/ SaveFails \/ UNCHANGED vars
      PROVE  UNCHANGED <<dogs, dogCounter, uuid, delivered>>
  BY <1>4, <1>5 DEF Act, BeginUpdate, VisitSession, CollectLoot, EndGather, RetireFails,
     EndSession, EndUpdate, SaveSucceeds, SaveFails, vars, ground, people, goods
<1>. QED
  BY <1>1, <1>2, <1>3, <1>5, CareerStutter DEF Next, Requests, UpdateStep

(* Every dog has a career: it enters once, earns loot that nobody else     *)
(* earned, and retires once with all of it on the leaderboard.             *)
THEOREM GameImplementsCareer == Spec => CareerSpec
<1>1. Init => PlayerCareer!Init
  BY CareerInit
<1>2. IInv /\ [Next]_vars => [PlayerCareer!Next]_<<Statuses, delivered, Results>>
  BY CareerStep
<1>. QED
  BY <1>1, <1>2, Invariance, PTL
  DEF Spec, CareerSpec, PlayerCareer!Spec, PlayerCareer!vars, Statuses, Results, Result
=============================================================================
