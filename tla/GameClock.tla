------------------------------ MODULE GameClock ------------------------------
(***************************************************************************)
(* The times of the game (main.cpp, model.cpp): the ticker that cuts the   *)
(* real time into ticks of whole milliseconds, the accumulated time of the *)
(* test mode, and what is computed from them: the inactivity that retires  *)
(* a dog, its play time in the database, the periodic save, and new loot.  *)
(*                                                                         *)
(* The steady clock is counted in units, `Unit' to a millisecond, from     *)
(* start_time_ on, which is also the first last_tick_ (the ticker starts a *)
(* moment later, before any request); it goes on between any two steps of  *)
(* the program.  All other times are in milliseconds.  Which dogs move,    *)
(* and what they pick up, is left open; their doubles of seconds are whole *)
(* milliseconds here.                                                      *)
(***************************************************************************)
EXTENDS Integers, FiniteSets, LootGenerator

CONSTANTS
    Maps, Dogs,
    NoMap,          \* the map of a dog that is not in the game
    NoTick,         \* "Update is not running"
    Unit,           \* units of the steady clock in a millisecond
    RetireTime,     \* dog_retirement_time_seconds_, in milliseconds
    SaveInterval,   \* save_interval_, of a server that saves
    MaxPlayTime,    \* the greatest play_time of table retired_players
    BaseInterval,   \* base_interval_ of the loot generator
    JoinTimes,      \* what join_time_ may hold where nothing has set it
    TestDeltas,     \* timeDelta of the tick requests
    MaxNow,         \* bound: units of real time
    MaxTicks,       \* bound: ticks
    MaxFaults       \* bound: records and saves that fail

ASSUME NamesAssumption == NoMap \notin Maps /\ NoTick \notin Int
ASSUME FiniteAssumption == IsFiniteSet(Dogs)
ASSUME UnitAssumption == Unit \in Nat \ {0}
ASSUME TimesAssumption ==
    /\ RetireTime \in Nat \ {0} /\ SaveInterval \in Nat \ {0} /\ MaxPlayTime \in Nat
    /\ BaseInterval \in Nat \ {0} /\ 1000 % BaseInterval = 0
ASSUME InputAssumption == JoinTimes \subseteq Int /\ TestDeltas \subseteq Int
ASSUME BoundsAssumption == MaxNow \in Nat /\ MaxTicks \in Nat /\ MaxFaults \in Nat

VARIABLES
    mode,           \* game_mode_
    now,            \* steady_clock::now() - start_time_
    lastTick,       \* last_tick_ - start_time_
    accumulated     \* accumulated_time_

VARIABLES
    sessions,       \* the maps that have a session
    map,            \* of each dog
    joinTime,       \* join_time_
    inactivity,     \* inactivity_time_
    loot,           \* the number of items on the ground of each map
    withoutLoot     \* time_without_loot_

VARIABLES
    delta,          \* the argument of Update while it runs
    todo,           \* the sessions it has still to visit
    saveTimer       \* save_test_timer_

\* What happened, for the properties.
VARIABLES
    gameTime,       \* the sum of the ticks
    ticks,          \* the number of ticks
    backwards,      \* a tick was negative
    joinedAt,       \* when a dog joined
    here,           \* the dogs that joined in this process
    since,          \* the last tick before a dog did something
    most,           \* the greatest number of dogs of a map at once
    unsaved,        \* the sum of the ticks since the last save
    missed,         \* the part of it whose Update threw
    faults

clocks == <<mode, now, lastTick, accumulated>>
dogs == <<sessions, map, joinTime, inactivity>>
ground == <<loot, withoutLoot>>
update == <<delta, todo, saveTimer>>
past == <<joinedAt, here, since, most>>
count == <<gameTime, ticks, backwards, unsaved>>
trouble == <<missed, faults>>
vars == <<clocks, dogs, ground, update, past, count, trouble>>

DogsOn(m) == {d \in Dogs : map[d] = m}
Playing == {d \in Dogs : map[d] # NoMap}

TypeOK ==
    /\ mode \in {"normal", "test"} /\ now \in Nat /\ lastTick \in Nat /\ accumulated \in Int
    /\ sessions \subseteq Maps /\ map \in [Dogs -> Maps \cup {NoMap}]
    /\ joinTime \in [Dogs -> Int] /\ inactivity \in [Dogs -> Int]
    /\ loot \in [Maps -> Int] /\ withoutLoot \in Int
    /\ delta \in Int \cup {NoTick} /\ todo \subseteq sessions /\ saveTimer \in Int
    /\ gameTime \in Int /\ ticks \in Nat /\ backwards \in BOOLEAN
    /\ joinedAt \in [Dogs -> Int] /\ here \subseteq Dogs /\ since \in [Dogs -> Int]
    /\ most \in [Maps -> Nat] /\ unsaved \in Int /\ missed \in Int /\ faults \in Nat

\* A process starts, maybe with dogs of a state file: their inactivity is 0,
\* and nothing sets their join time.
Init ==
    /\ mode \in {"normal", "test"} /\ now = 0 /\ lastTick = 0 /\ accumulated = 0
    /\ map \in [Dogs -> Maps \cup {NoMap}]
    /\ sessions = {m \in Maps : DogsOn(m) # {}}
    /\ \E t \in JoinTimes : joinTime = [d \in Dogs |-> t]
    /\ inactivity = [d \in Dogs |-> 0]
    /\ loot = [m \in Maps |-> 0] /\ withoutLoot = 0
    /\ delta = NoTick /\ todo = {} /\ saveTimer = 0
    /\ gameTime = 0 /\ ticks = 0 /\ backwards = FALSE
    /\ joinedAt = [d \in Dogs |-> 0] /\ here = {} /\ since = [d \in Dogs |-> 0]
    /\ most = [m \in Maps |-> Cardinality(DogsOn(m))]
    /\ unsaved = 0 /\ missed = 0 /\ faults = 0

\* Slip: the time of the test mode in every mode.
GetTestTimeAlways == accumulated

\* GetCurrentTime: GetTestTime or GetRealTime.
GetCurrentTime == IF mode = "test" THEN accumulated ELSE now \div Unit

\* The time that GetCurrentTime stands for, and the last tick, in units.
Elapsed == IF mode = "test" THEN Unit * accumulated ELSE now
ElapsedAtTick == IF mode = "test" THEN Unit * accumulated ELSE lastTick

-----------------------------------------------------------------------------
(* The clock, and the requests.                                            *)

TimePasses(t) ==
    /\ mode = "normal"
    /\ now + t <= MaxNow
    /\ now' = now + t
    /\ UNCHANGED <<mode, lastTick, accumulated, dogs, ground, update, past, count, trouble>>

Idle == delta = NoTick

\* JoinGameUseCase::execute sets the join time of a new dog.
Join(d, m) ==
    /\ Idle
    /\ map[d] = NoMap
    /\ map' = [map EXCEPT ![d] = m]
    /\ sessions' = sessions \cup {m}
    /\ joinTime' = [joinTime EXCEPT ![d] = GetCurrentTime]
    /\ inactivity' = [inactivity EXCEPT ![d] = 0]
    /\ joinedAt' = [joinedAt EXCEPT ![d] = Elapsed]
    /\ here' = here \cup {d}
    /\ since' = [since EXCEPT ![d] = ElapsedAtTick]
    /\ most' = IF Cardinality(DogsOn(m)) + 1 > most[m]
               THEN [most EXCEPT ![m] = Cardinality(DogsOn(m)) + 1] ELSE most
    /\ UNCHANGED <<clocks, ground, update, count, trouble>>

\* Player::MakeAction resets the inactivity, whatever the move is.
MakeAction(d) ==
    /\ Idle
    /\ d \in Playing
    /\ inactivity' = [inactivity EXCEPT ![d] = 0]
    /\ since' = [since EXCEPT ![d] = ElapsedAtTick]
    /\ UNCHANGED <<clocks, sessions, map, joinTime, ground, update, joinedAt, here, most>>
    /\ UNCHANGED <<count, trouble>>

-----------------------------------------------------------------------------
(* Ticks.                                                                  *)

BeginUpdate(t) ==
    /\ Idle
    /\ ticks < MaxTicks
    /\ delta' = t /\ todo' = sessions
    /\ gameTime' = gameTime + t /\ unsaved' = unsaved + t /\ ticks' = ticks + 1
    /\ backwards' = (backwards \/ t < 0)

\* Slip: the delta is rounded up.
WholeMillisecondsUp(t) == (t + Unit - 1) \div Unit

\* duration_cast<milliseconds>.
WholeMilliseconds(t) == t \div Unit

\* Ticker::OnTick, in the normal mode.
OnTick ==
    /\ mode = "normal"
    /\ BeginUpdate(WholeMilliseconds(now - lastTick))
    /\ lastTick' = now
    /\ UNCHANGED <<mode, now, accumulated, dogs, ground, saveTimer, past, trouble>>

\* ApiRequestHandler::TickResponse, in the test mode: any number is accepted.
TickResponse(t) ==
    /\ mode = "test"
    /\ BeginUpdate(t)
    /\ accumulated' = accumulated + t
    /\ UNCHANGED <<mode, now, lastTick, dogs, ground, saveTimer, past, trouble>>

-----------------------------------------------------------------------------
(* Game::Update.                                                           *)

\* UpdateDogsPosition: the tick is added to the inactivity of the dogs that
\* kept their position, and those in `go' start from 0.
UpdateInactivity(m, go) ==
    [d \in Dogs |-> IF map[d] # m THEN inactivity[d]
                    ELSE IF d \in go THEN 0 ELSE inactivity[d] + delta]

\* The time that UpdateLoot hands to the generator: the delta taken for
\* seconds.
LootTime == withoutLoot + 1000 * delta

\* UpdateLoot, and then GatherLoot in which dogs that move take some items.
\* The generator is shared by the sessions and starts again for all of them.
UpdateLoot(m, go) ==
    LET n == Generated(loot[m], Cardinality(DogsOn(m)), LootTime \div BaseInterval) IN
    /\ withoutLoot' = IF n > 0 THEN 0 ELSE LootTime
    /\ \E left \in 0 .. loot[m] + n :
          /\ go = {} => left = loot[m] + n
          /\ loot' = [loot EXCEPT ![m] = left]

PlayTime(d) == GetCurrentTime - joinTime[d]

\* What SaveRecord can insert: the cast to uint64 makes a negative time a huge
\* one, which the column does not take.
Recordable(d) == PlayTime(d) \in 0 .. MaxPlayTime

\* The part of a visit before the retirements.
MoveAndGather(m, go) ==
    /\ m \in todo
    /\ go \subseteq DogsOn(m) /\ (delta = 0 => go = {})
    /\ inactivity' = UpdateInactivity(m, go)
    /\ since' = [d \in Dogs |-> IF d \in go THEN ElapsedAtTick ELSE since[d]]
    /\ UpdateLoot(m, go)

\* Slip: another unit for the inactivity than for the retirement time.
RetiringInSeconds(m) == {d \in DogsOn(m) : 1000 * inactivity'[d] >= RetireTime}

\* RemoveInactiveDogs picks these dogs after they have been moved.
Retiring(m) == {d \in DogsOn(m) : inactivity'[d] >= RetireTime}

Remove(leaving) == map' = [d \in Dogs |-> IF d \in leaving THEN NoMap ELSE map[d]]

\* A session is visited and all its inactive dogs are recorded.
VisitSession(m, go) ==
    /\ ~ Idle
    /\ MoveAndGather(m, go)
    /\ \A d \in Retiring(m) : Recordable(d)
    /\ Remove(Retiring(m))
    /\ todo' = todo \ {m}
    /\ UNCHANGED <<clocks, sessions, joinTime, delta, saveTimer, joinedAt, here, most>>
    /\ UNCHANGED <<count, trouble>>

\* A record fails, after those in `leaving': Update throws, and the other
\* sessions and the save wait for the next tick.
VisitFails(m, go, leaving) ==
    /\ ~ Idle
    /\ MoveAndGather(m, go)
    /\ leaving \subseteq Retiring(m) /\ leaving # Retiring(m)
    /\ \A d \in leaving : Recordable(d)
    /\ IF \A d \in Retiring(m) : Recordable(d)
       THEN faults < MaxFaults /\ faults' = faults + 1
       ELSE UNCHANGED faults
    /\ Remove(leaving)
    /\ delta' = NoTick /\ todo' = {} /\ missed' = missed + delta
    /\ UNCHANGED <<clocks, sessions, joinTime, saveTimer, joinedAt, here, most, count>>

\* Slip: the timer is looked at before it is advanced.
SaveDueBefore == saveTimer >= SaveInterval

SaveDue == saveTimer + delta >= SaveInterval

\* The end of Update: the timer advances, and SaveState returns when it is due.
EndUpdate ==
    /\ ~ Idle /\ todo = {}
    /\ saveTimer' = IF SaveDue THEN 0 ELSE saveTimer + delta
    /\ unsaved' = IF SaveDue THEN 0 ELSE unsaved
    /\ missed' = IF SaveDue THEN 0 ELSE missed
    /\ delta' = NoTick
    /\ UNCHANGED <<clocks, dogs, ground, todo, past, gameTime, ticks, backwards, faults>>

\* SaveState throws: the timer has been advanced and is not set back.
SaveFails ==
    /\ ~ Idle /\ todo = {} /\ SaveDue
    /\ faults < MaxFaults /\ faults' = faults + 1
    /\ saveTimer' = saveTimer + delta
    /\ missed' = missed + delta
    /\ delta' = NoTick
    /\ UNCHANGED <<clocks, dogs, ground, todo, past, count>>

Next ==
    \/ \E t \in 1 .. MaxNow : TimePasses(t)
    \/ \E d \in Dogs, m \in Maps : Join(d, m)
    \/ \E d \in Dogs : MakeAction(d)
    \/ OnTick
    \/ \E t \in TestDeltas : TickResponse(t)
    \/ \E m \in Maps : \E go \in SUBSET DogsOn(m) : VisitSession(m, go)
    \/ \E m \in Maps : \E go, leaving \in SUBSET DogsOn(m) : VisitFails(m, go, leaving)
    \/ EndUpdate
    \/ SaveFails

Spec == Init /\ [][Next]_vars

-----------------------------------------------------------------------------
(* Safety.                                                                 *)

(***************************************************************************)
(* The game keeps up with the real time: all ticks together are not longer *)
(* than the time between the first and the last, and shorter by less than  *)
(* a millisecond for each of them.                                         *)
(***************************************************************************)
GameKeepsUp ==
    mode = "normal" => lastTick - Unit * gameTime \in 0 .. (Unit - 1) * ticks

(***************************************************************************)
(* Nobody leaves early: a dog retires only when the retirement time has    *)
(* passed since the last tick before it moved, acted or joined.  (A dog    *)
(* that acts within a tick is charged with all of it, so since the action  *)
(* itself it may be less.)                                                 *)
(***************************************************************************)
NobodyLeavesEarly ==
    [][\A d \in Dogs :
          map[d] # NoMap /\ map'[d] = NoMap /\ ~ backwards =>
              ElapsedAtTick - since[d] >= Unit * RetireTime]_vars

(***************************************************************************)
(* The play time that would be recorded is true to a millisecond for every *)
(* dog that joined in this process, and it can be recorded, as long as the *)
(* time does not go backwards or beyond the column.                        *)
(***************************************************************************)
PlayTimeIsTrue ==
    \A d \in Playing \cap here :
        /\ Unit * PlayTime(d) - (Elapsed - joinedAt[d]) \in 1 - Unit .. Unit - 1
        /\ ~ backwards /\ Elapsed <= Unit * MaxPlayTime => Recordable(d)

(***************************************************************************)
(* Less than the save interval is lost by a crash between two ticks,       *)
(* except for the ticks that threw.  (A failed save keeps its timer, a     *)
(* failed record does not advance it.)                                     *)
(***************************************************************************)
UnsavedIsBounded == Idle /\ ~ backwards => unsaved - missed < SaveInterval

(***************************************************************************)
(* A map never has more loot than it ever had dogs at once, although loot  *)
(* outlives the dogs it was made for.                                      *)
(***************************************************************************)
LootFollowsDogs == \A m \in Maps : loot[m] \in 0 .. most[m]

(***************************************************************************)
(* In less than the base interval no more than the share of the            *)
(* probability is made (tests/loot_generator_tests.cpp: "time is less than *)
(* base interval", "number of generated loot is decreased").               *)
(***************************************************************************)
LootTakesItsTime ==
    gameTime < BaseInterval => \A m \in Maps : loot[m] <= Share(most[m], 1)
=============================================================================
