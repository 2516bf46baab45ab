-------------------------------- MODULE Game --------------------------------
(***************************************************************************)
(* The game on the API strand (model.cpp, application.cpp): sessions with  *)
(* their dogs and loot, the players that own the dogs, and Game::Update    *)
(* with the retirement of inactive dogs into the database.                 *)
(*                                                                         *)
(* Every handler runs to its end on one strand, so Join and Act find the   *)
(* strand idle.  Update is cut into the steps between which an exception   *)
(* may end it or which other code observes: one step per session for       *)
(* movement and new loot, one per gathering event, one per SaveRecord, and *)
(* the periodic save.                                                      *)
(*                                                                         *)
(* Positions are abstracted: a dog with a speed moves, stops, or both or   *)
(* neither, and a dog that moved may meet any item of the provider, in any *)
(* order.  The value of loot is abstracted: a score is the set of items a  *)
(* dog has brought to an office.  One tick is one unit of time.            *)
(***************************************************************************)
EXTENDS Integers, FiniteSets

CONSTANTS
    Maps,           \* the maps of the configuration
    NoMap,          \* "no session is being updated"
    BagCapacity,    \* Map::GetBagCapacity, for each map
    RetireAfter,    \* dog_retirement_time_seconds_, in ticks
    SaveInterval,   \* save_interval_, in ticks
    MaxDogs,        \* bound: joins
    MaxLoot,        \* bound: items of loot ever created
    MaxFresh        \* bound: UUIDs and tokens ever drawn

ASSUME MapsAssumption == NoMap \notin Maps
ASSUME BagAssumption == BagCapacity \in [Maps -> Nat]
ASSUME TimesAssumption == RetireAfter \in Nat \ {0} /\ SaveInterval \in Nat
ASSUME BoundsAssumption == MaxDogs \in Nat /\ MaxLoot \in Nat /\ MaxFresh \in Nat \ {0}

DogIds == 0 .. MaxDogs - 1
LootIds == 0 .. MaxLoot - 1
\* Values drawn from the random generators, numbered in the order drawn.
Fresh == 0 .. MaxFresh - 1

VARIABLES
    sessions,       \* the maps that have a session
    dogs,           \* dogs_ of each session
    loot,           \* loot_ of each session: the items on the ground
    lootCounter     \* Loot::loot_counter_

VARIABLES
    players,        \* Players::players_
    playerCounter,  \* Player::player_counter_
    dogCounter,     \* Dog::dog_counter_
    uuid,           \* uuid_ of each dog
    fresh           \* the next random value

VARIABLES
    bag,            \* bag_ of each dog
    delivered       \* score_ of each dog, as the items it counts

VARIABLES
    moving,         \* whether speed_ is not zero
    inactivity      \* inactivity_time_, up to RetireAfter

VARIABLES
    recorded,       \* the ids in table retired_players
    board           \* the score in the row of each of them

VARIABLES
    phase,          \* what the strand is doing
    todo,           \* the sessions the loop of Update has still to visit
    current,        \* the session it visits
    moved,          \* the gatherers of this session with a non-zero move
    offered,        \* existing_loot_ids in GatherLoot
    collected,      \* collected_loot_id in GatherLoot
    leaving,        \* inactive_dogs still to be recorded
    saveTimer       \* save_test_timer_, up to SaveInterval

ground == <<sessions, dogs, loot, lootCounter>>
people == <<players, playerCounter, dogCounter, uuid, fresh>>
goods == <<bag, delivered>>
motion == <<moving, inactivity>>
table == <<recorded, board>>
gather == <<moved, offered, collected>>
loop == <<phase, todo, current, moved, offered, collected, leaving, saveTimer>>
vars == <<ground, people, goods, motion, table, loop>>

Phases == {"idle", "update", "gather", "retire", "save"}
Players == [id : DogIds, token : Fresh, dog : DogIds, map : Maps]

TypeOK ==
    /\ sessions \subseteq Maps
    /\ dogs \in [Maps -> SUBSET DogIds]
    /\ loot \in [Maps -> SUBSET LootIds]
    /\ lootCounter \in 0 .. MaxLoot
    /\ players \subseteq Players
    /\ playerCounter \in 0 .. MaxDogs /\ dogCounter \in 0 .. MaxDogs
    /\ uuid \in [DogIds -> Fresh] /\ fresh \in 0 .. MaxFresh
    /\ bag \in [DogIds -> SUBSET LootIds] /\ delivered \in [DogIds -> SUBSET LootIds]
    /\ moving \in [DogIds -> BOOLEAN] /\ inactivity \in [DogIds -> 0 .. RetireAfter]
    /\ recorded \subseteq Fresh /\ board \in [Fresh -> SUBSET LootIds]
    /\ phase \in Phases /\ todo \subseteq Maps /\ current \in Maps \cup {NoMap}
    /\ moved \subseteq DogIds /\ leaving \subseteq DogIds
    /\ offered \subseteq LootIds /\ collected \subseteq LootIds
    /\ saveTimer \in 0 .. SaveInterval

NoUpdate ==
    /\ phase = "idle" /\ todo = {} /\ current = NoMap
    /\ moved = {} /\ offered = {} /\ collected = {} /\ leaving = {}

\* The server's start without a state file, on an empty database.
Init ==
    /\ sessions = {} /\ dogs = [m \in Maps |-> {}] /\ loot = [m \in Maps |-> {}]
    /\ lootCounter = 0
    /\ players = {} /\ playerCounter = 0 /\ dogCounter = 0
    /\ uuid = [d \in DogIds |-> 0] /\ fresh = 0
    /\ bag = [d \in DogIds |-> {}] /\ delivered = [d \in DogIds |-> {}]
    /\ moving = [d \in DogIds |-> FALSE] /\ inactivity = [d \in DogIds |-> 0]
    /\ recorded = {} /\ board = [u \in Fresh |-> {}]
    /\ NoUpdate /\ saveTimer = 0

-----------------------------------------------------------------------------
(* Requests.                                                               *)

\* The constructor of Dog draws its UUID.
NewUuid == uuid' = [uuid EXCEPT ![dogCounter] = fresh]

\* JoinGameUseCase::execute: a new dog in the session of the map, which is
\* created for the first dog, and a new player that owns it.
Join(m) ==
    /\ phase = "idle"
    /\ dogCounter < MaxDogs /\ playerCounter < MaxDogs /\ fresh < MaxFresh
    /\ sessions' = sessions \cup {m}
    /\ dogs' = [dogs EXCEPT ![m] = @ \cup {dogCounter}]
    /\ NewUuid
    /\ bag' = [bag EXCEPT ![dogCounter] = {}]
    /\ delivered' = [delivered EXCEPT ![dogCounter] = {}]
    /\ moving' = [moving EXCEPT ![dogCounter] = FALSE]
    /\ inactivity' = [inactivity EXCEPT ![dogCounter] = 0]
    /\ players' = players \cup
         {[id |-> playerCounter, token |-> fresh, dog |-> dogCounter, map |-> m]}
    /\ dogCounter' = dogCounter + 1
    /\ playerCounter' = playerCounter + 1
    /\ fresh' = fresh + 1
    /\ UNCHANGED <<loot, lootCounter, table, loop>>

\* Player::MakeAction: a direction sets the speed, an empty move stops; both
\* reset the inactivity of the dog.
Act(p, go) ==
    /\ phase = "idle"
    /\ moving' = [moving EXCEPT ![p.dog] = go]
    /\ inactivity' = [inactivity EXCEPT ![p.dog] = 0]
    /\ UNCHANGED <<ground, people, goods, table, loop>>

-----------------------------------------------------------------------------
(* Game::Update.                                                           *)

BeginUpdate ==
    /\ phase = "idle"
    /\ phase' = "update"
    /\ todo' = sessions
    /\ UNCHANGED <<current, gather, leaving, saveTimer, ground, people, goods, motion, table>>

Running(m) == {d \in dogs[m] : moving[d]}

\* UpdateDogsPosition for the dogs of m: of those with a speed, `go` change
\* their position and `halt` lose their speed.  A dog that kept its position
\* has been inactive for one more tick, one that moved has not.
MoveDogs(m, go, halt) ==
    /\ moving' = [d \in DogIds |-> moving[d] /\ d \notin halt]
    /\ inactivity' = [d \in DogIds |->
         IF d \notin dogs[m] THEN inactivity[d]
         ELSE IF d \in go THEN 0
         ELSE IF inactivity[d] < RetireAfter THEN inactivity[d] + 1
         ELSE RetireAfter]
    /\ moved' = go

\* What LootGenerator::Generate never exceeds: one item for every looter.
Shortage(m) ==
    IF Cardinality(loot[m]) > Cardinality(dogs[m]) THEN 0
    ELSE Cardinality(dogs[m]) - Cardinality(loot[m])

\* UpdateLoot: n new items, numbered from the counter, and
\* AddLootToGathererProvider, which offers everything on the ground.
AddLoot(m, n) ==
    /\ lootCounter + n <= MaxLoot
    /\ loot' = [loot EXCEPT ![m] = @ \cup lootCounter .. lootCounter + n - 1]
    /\ lootCounter' = lootCounter + n
    /\ offered' = loot'[m]
    /\ collected' = {}

VisitSession(m) ==
    /\ phase = "update"
    /\ m \in todo
    /\ phase' = "gather" /\ current' = m /\ todo' = todo \ {m}
    /\ \E go \in SUBSET Running(m) : \E halt \in SUBSET Running(m) : MoveDogs(m, go, halt)
    /\ \E n \in 0 .. Shortage(m) : AddLoot(m, n)
    /\ UNCHANGED <<sessions, dogs, people, goods, table, leaving, saveTimer>>

-----------------------------------------------------------------------------
(* Slips in the rest of Update, for comparison with the code below.        *)

\* GatherLoot forgets what it has collected in this pass.
CollectLootTwice(d, i) ==
    /\ phase = "gather"
    /\ d \in moved
    /\ i \in 0 .. Cardinality(offered) - 1
    /\ i \in offered \ collected
    /\ Cardinality(bag[d]) < BagCapacity[current]
    /\ loot' = [loot EXCEPT ![current] = @ \ {i}]
    /\ bag' = [bag EXCEPT ![d] = @ \cup {i}]
    /\ UNCHANGED <<sessions, dogs, lootCounter, people, delivered, motion, table, loop>>

\* ReleaseLoot scores the bag but does not clear it.
ReleaseLootKeepBag(d) ==
    /\ phase = "gather"
    /\ d \in moved
    /\ bag[d] # {}
    /\ delivered' = [delivered EXCEPT ![d] = @ \cup bag[d]]
    /\ UNCHANGED <<ground, people, bag, motion, table, loop>>

-----------------------------------------------------------------------------
\* GatherLoot, an event of a dog and a piece of loot.  The event carries the
\* index of the item in the provider; the code takes it for the item's id and
\* skips the event when no item on the ground had that id, when it is already
\* collected, or when the bag is full.
CollectLoot(d, i) ==
    /\ phase = "gather"
    /\ d \in moved
    /\ i \in 0 .. Cardinality(offered) - 1
    /\ i \in offered \ collected
    /\ Cardinality(bag[d]) < BagCapacity[current]
    /\ loot' = [loot EXCEPT ![current] = @ \ {i}]
    /\ bag' = [bag EXCEPT ![d] = @ \cup {i}]
    /\ collected' = collected \cup {i}
    /\ UNCHANGED <<sessions, dogs, lootCounter, people, delivered, motion, table>>
    /\ UNCHANGED <<phase, todo, current, moved, offered, leaving, saveTimer>>

\* GatherLoot, an event of a dog and an office: Dog::ReleaseLoot.
ReleaseLoot(d) ==
    /\ phase = "gather"
    /\ d \in moved
    /\ bag[d] # {}
    /\ delivered' = [delivered EXCEPT ![d] = @ \cup bag[d]]
    /\ bag' = [bag EXCEPT ![d] = {}]
    /\ UNCHANGED <<ground, people, motion, table, loop>>

\* Slip: the retirement time must be exceeded.
InactiveStrict(m) == {d \in dogs[m] : inactivity[d] > RetireAfter}

\* RemoveInactiveDogs picks the dogs to retire.
Inactive(m) == {d \in dogs[m] : inactivity[d] >= RetireAfter}

EndGather ==
    /\ phase = "gather"
    /\ phase' = "retire"
    /\ leaving' = Inactive(current)
    /\ moved' = {} /\ offered' = {} /\ collected' = {}
    /\ UNCHANGED <<todo, current, saveTimer, ground, people, goods, motion, table>>

\* Database::SaveRecord: INSERT ... ON CONFLICT (id) DO UPDATE.
SaveRecord(d) ==
    /\ recorded' = recorded \cup {uuid[d]}
    /\ board' = [board EXCEPT ![uuid[d]] = delivered[d]]

\* Players::RemovePlayerFromGameByDogId: the player's session loses the dog,
\* and the player is erased.  (There is one, by PlayersMatchDogs.)
Owners(d) == {p \in players : p.dog = d}
RemovePlayerFromGameByDogId(d) ==
    /\ dogs' = [m \in Maps |-> IF \E p \in Owners(d) : p.map = m THEN dogs[m] \ {d} ELSE dogs[m]]
    /\ players' = players \ Owners(d)

\* Slips: the player is erased before its record is safe; the record is
\* written and the player stays.
RetireUnrecorded(d) ==
    /\ phase = "retire"
    /\ d \in leaving
    /\ \/ SaveRecord(d)
       \/ UNCHANGED table
    /\ RemovePlayerFromGameByDogId(d)
    /\ leaving' = leaving \ {d}
    /\ UNCHANGED <<sessions, loot, lootCounter, playerCounter, dogCounter, uuid, fresh>>
    /\ UNCHANGED <<goods, motion, phase, todo, current, gather, saveTimer>>

RetirePlayerStays(d) ==
    /\ phase = "retire"
    /\ d \in leaving
    /\ SaveRecord(d)
    /\ dogs' = [dogs EXCEPT ![current] = @ \ {d}]
    /\ leaving' = leaving \ {d}
    /\ UNCHANGED <<sessions, loot, lootCounter, people>>
    /\ UNCHANGED <<goods, motion, phase, todo, current, gather, saveTimer>>

\* RemoveInactiveDogs, one dog: its record is committed, then its player and
\* the dog are removed.
Retire(d) ==
    /\ phase = "retire"
    /\ d \in leaving
    /\ SaveRecord(d)
    /\ RemovePlayerFromGameByDogId(d)
    /\ leaving' = leaving \ {d}
    /\ UNCHANGED <<sessions, loot, lootCounter, playerCounter, dogCounter, uuid, fresh>>
    /\ UNCHANGED <<goods, motion, phase, todo, current, gather, saveTimer>>

\* SaveRecord throws, and Update rethrows: the rest of the inactive dogs, of
\* the sessions and the periodic save are skipped.  The row may be there
\* nevertheless, when the answer to the commit is what got lost.
RetireFails(d, committed) ==
    /\ phase = "retire"
    /\ d \in leaving
    /\ IF committed THEN SaveRecord(d) ELSE UNCHANGED table
    /\ phase' = "idle" /\ todo' = {} /\ current' = NoMap /\ leaving' = {}
    /\ UNCHANGED <<gather, saveTimer, ground, people, goods, motion>>

\* The erase at the end of RemoveInactiveDogs, and on to the next session.
EndSession ==
    /\ phase = "retire"
    /\ leaving = {}
    /\ dogs' = [dogs EXCEPT ![current] = @ \ Inactive(current)]
    /\ phase' = "update" /\ current' = NoMap
    /\ UNCHANGED <<sessions, loot, lootCounter, people, goods, motion, table>>
    /\ UNCHANGED <<todo, gather, leaving, saveTimer>>

\* Slip: the timer is compared before it is advanced and starts again at once.
EndUpdateResetEarly ==
    /\ phase = "update"
    /\ todo = {}
    /\ saveTimer' = IF saveTimer + 1 >= SaveInterval THEN 0 ELSE saveTimer + 1
    /\ phase' = "idle"
    /\ UNCHANGED <<todo, current, gather, leaving, ground, people, goods, motion, table>>

\* After the loop: the save timer advances, and a save is due or not.
EndUpdate ==
    /\ phase = "update"
    /\ todo = {}
    /\ saveTimer' = IF saveTimer < SaveInterval THEN saveTimer + 1 ELSE SaveInterval
    /\ phase' = IF saveTimer' >= SaveInterval THEN "save" ELSE "idle"
    /\ UNCHANGED <<todo, current, gather, leaving, ground, people, goods, motion, table>>

\* SaveState returns; the timer starts again.
SaveSucceeds ==
    /\ phase = "save"
    /\ phase' = "idle" /\ saveTimer' = 0
    /\ UNCHANGED <<todo, current, gather, leaving, ground, people, goods, motion, table>>

\* SaveState throws, and Update with it: the timer keeps its value.
SaveFails ==
    /\ phase = "save"
    /\ phase' = "idle"
    /\ UNCHANGED <<todo, current, gather, leaving, saveTimer, ground, people, goods, motion, table>>

-----------------------------------------------------------------------------
Requests ==
    \/ \E m \in Maps : Join(m)
    \/ \E p \in players, go \in BOOLEAN : Act(p, go)

\* Update up to, and without, the periodic save.
UpdateStep ==
    \/ BeginUpdate
    \/ \E m \in Maps : VisitSession(m)
    \/ \E d \in DogIds, i \in LootIds : CollectLoot(d, i)
    \/ \E d \in DogIds : ReleaseLoot(d)
    \/ EndGather
    \/ \E d \in DogIds : Retire(d)
    \/ \E d \in DogIds, committed \in BOOLEAN : RetireFails(d, committed)
    \/ EndSession
    \/ EndUpdate

Next == Requests \/ UpdateStep \/ SaveSucceeds \/ SaveFails

Spec == Init /\ [][Next]_vars

(***************************************************************************)
(* The ticker calls Update again and again, and Update runs to its end; a  *)
(* file system that is asked again and again takes the state at some time  *)
(* (strong fairness of SaveSucceeds).                                      *)
(***************************************************************************)
ServerFairness ==
    /\ WF_vars(BeginUpdate)
    /\ WF_vars(\E m \in Maps : VisitSession(m))
    /\ WF_vars(EndGather)
    /\ WF_vars(EndSession)
    /\ WF_vars(EndUpdate)
    /\ SF_vars(SaveSucceeds)

\* The database takes every record at some time, if it is asked for it again
\* and again.
FairSpec == Spec /\ ServerFairness /\ \A d \in DogIds : SF_vars(Retire(d))

(***************************************************************************)
(* The first player has a name that column `name` does not take; nothing   *)
(* tests its length when the player joins.  The record of this player is   *)
(* refused each time, and every other one is taken.                        *)
(***************************************************************************)
LongNamed == 0
NextLongName == Next /\ uuid[LongNamed] \notin recorded'

LongNameSpec ==
    /\ Init /\ [][NextLongName]_vars
    /\ ServerFairness /\ \A d \in DogIds \ {LongNamed} : SF_vars(Retire(d))

-----------------------------------------------------------------------------
(* Safety.                                                                 *)

Live == {d \in DogIds : \E m \in Maps : d \in dogs[m]}

(***************************************************************************)
(* Players_ and the sessions' dogs, kept in two places, match one to one   *)
(* at every step: each player owns a dog that is in the session it points  *)
(* to, each dog has a player, no two players share an id, a token or a     *)
(* dog.  Join and RemovePlayerFromGameByDogId must change both sides.      *)
(***************************************************************************)
PlayersMatchDogs ==
    /\ \A p \in players : p.map \in sessions /\ p.dog \in dogs[p.map]
    /\ \A m \in Maps : \A d \in dogs[m] : \E p \in players : p.dog = d /\ p.map = m
    /\ \A p, q \in players : (p.id = q.id \/ p.token = q.token \/ p.dog = q.dog) => p = q

(***************************************************************************)
(* Every item of loot is in one place: on the ground of one session, in    *)
(* one bag, or counted in one score.  UpdateLoot, GatherLoot and           *)
(* ReleaseLoot move it; two dogs that reach it in one tick do not both     *)
(* get it.                                                                 *)
(***************************************************************************)
LootInOnePlace ==
    /\ \A m, n \in Maps : m # n => loot[m] \cap loot[n] = {}
    /\ \A m \in Maps, d \in DogIds : loot[m] \cap (bag[d] \cup delivered[d]) = {}
    /\ \A d, e \in DogIds : d # e => (bag[d] \cup delivered[d]) \cap (bag[e] \cup delivered[e]) = {}
    /\ \A d \in DogIds : bag[d] \cap delivered[d] = {}

\* No dog carries more than the bag capacity of the map it plays on.
BagWithinCapacity ==
    \A m \in Maps : \A d \in dogs[m] : Cardinality(bag[d]) <= BagCapacity[m]

(***************************************************************************)
(* GameSession::GatherLoot throws when it does not find the item.  The     *)
(* lists of existing and collected ids, taken before and kept during the   *)
(* pass, must therefore stay in step with what is on the ground.           *)
(***************************************************************************)
GatherFindsLoot == phase = "gather" => offered \ collected \subseteq loot[current]

(***************************************************************************)
(* Nobody vanishes: a dog that ever joined is in a session, or its final   *)
(* score is in the database.  Failures of SaveRecord after some of the     *)
(* inactive dogs, and the second removal at the end of RemoveInactiveDogs, *)
(* must not lose one.                                                      *)
(***************************************************************************)
NobodyVanishes ==
    \A d \in DogIds : d < dogCounter =>
        d \in Live \/ (uuid[d] \in recorded /\ board[uuid[d]] = delivered[d])

-----------------------------------------------------------------------------
(* Action properties.                                                      *)

(***************************************************************************)
(* A row of the leaderboard is final once its dog has left: no later       *)
(* retirement, failed or not, overwrites it.                               *)
(***************************************************************************)
RowsAreFinal ==
    [][\A d \in DogIds : d < dogCounter /\ d \notin Live =>
          uuid[d] \in recorded' /\ board'[uuid[d]] = board[uuid[d]]]_vars

-----------------------------------------------------------------------------
(* Liveness.                                                               *)

(***************************************************************************)
(* A dog that has reached the retirement time is removed from the game or  *)
(* acts again, although failures of other dogs' records end the update     *)
(* before its turn.  It rests on a database that takes every record at     *)
(* some time and on joins that come to an end: newcomers whose records     *)
(* fail may otherwise keep the update from the dog for ever.               *)
(***************************************************************************)
InactiveLeave ==
    \A d \in DogIds :
        (d \in Live /\ inactivity[d] >= RetireAfter) ~> (d \notin Live \/ inactivity[d] = 0)

(***************************************************************************)
(* What the option --save-state-period ("set save state period") promises: *)
(* as long as the game is updated its state is saved again and again, or   *)
(* the attempt is made.                                                    *)
(***************************************************************************)
SavesAttempted == []<>(phase = "save")

-----------------------------------------------------------------------------
(* The game implements Career.                                             *)
Status(d) == IF d >= dogCounter THEN "absent" ELSE IF d \in Live THEN "playing" ELSE "retired"
PlayerCareer == INSTANCE Career
    WITH status <- [d \in DogIds |-> Status(d)],
         earned <- delivered,
         result <- [d \in DogIds |-> IF Status(d) = "retired" THEN board[uuid[d]] ELSE {}]

CareerSpec == PlayerCareer!Spec
=============================================================================
