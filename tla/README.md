# A TLA+ model of the game server

The repository is the back end of a browser game: an HTTP server (Boost.Beast)
in which players join a map, run with their dogs along its roads, collect lost
things into a bag, bring them to offices for a score, and, when they have been
inactive for long enough, leave the game for a leaderboard in PostgreSQL.  The
modules in this directory model the program in `src/src`, TLC checks them on
small instances, and TLAPS proves the main theorems for every instance.

Paths below are relative to the repository; `PROJECT.json` names, for every
definition, the lines it is translated from.

## 1. The system

### Threads and scheduling

`main` starts `num_threads` threads in `io_context::run`, the main thread among
them.  Accepting, reading, writing and serving files happen on any of them.
Requests to the API are dispatched to one strand, and the ticker's timer is
bound to the same strand: everything that touches the game (`Game`, `Players`,
sessions, dogs, loot) runs there, one handler at a time, to its end.  There is
no other lock around the game.  The connection pool has a mutex and a condition
variable, but all who use it run on the API strand, or in `main` before the
threads start.  A handler may leave by an exception in the middle: `Database`,
`Game::SaveState` and several library calls throw.

### Components

| Component | State | Operations | Module |
|---|---|---|---|
| Connection pool (`database.*`) | slots, number of connections handed out, waiting threads | `GetConnection`, `ReturnConnection`, destructor of the wrapper | `ConnectionPool`, `ConnectionLease` |
| Database (`database.*`) | table `retired_players` | `SaveRecord` (upsert), `GetPlayersRecords`, `Initialize` | in `Game`, `SaveRestore`, `GameClock` |
| Game (`model.*`) | sessions, their dogs and loot, bags, scores, inactivity, id counters, save timer | `AddDogToSession`, `Update`: movement, new loot, gathering, `RemoveInactiveDogs`, periodic save | `Game`, `Career` |
| Application (`application.*`) | players and tokens | `JoinGameUseCase`, `Player::MakeAction`, `RemovePlayerFromGameByDogId` | in `Game`, `SaveRestore` |
| Times (`main.cpp`, `model.*`) | `start_time_`, `last_tick_`, `accumulated_time_`, join times, inactivity, save timer | `Ticker::OnTick`, `TickResponse`, `GetCurrentTime`, what `Update` computes from its delta | `GameClock` |
| Gathering (`model.cpp`) | provider, events, collected ids | `Game::GatherLoot` | `GatherLoot` |
| Collision detector (`collision_detector.*`) | none (pure) | `TryCollectPoint`, `IsCollected`, `FindGatherEvents` | `CollisionDetector`, `DogSweep` |
| Movement (`model.cpp`) | position, direction, speed | `CalculateNewDogPosition`, `IsPointOnRoad`, `FindStopPoint`, R-tree query | `DogMovement` |
| State file (`model.cpp`, `model_serialization.h`) | `<state>` and `<state>.tmp` | `SaveState`, `LoadState` | `SaveRestore` |
| HTTP server (`http_server.*`) | listener, sessions, deadlines | accept, read, write, close | `HttpServer` |
| Dispatch (`request_handler.h`) | API strand | to the strand, or a file in place | `HttpServer` |
| Ticker, signals, `main` | timer, `io_context` | start, tick, stop, final save | `HttpServer`, `SaveRestore`, `GameClock` |
| API handler (`api_handler.*`) | none of its own; answers | routing, authorisation, checks of arguments, one handler per request | `ApiHandler` |
| Loot generator (`loot_generator.*`) | time without loot | `Generate` | `LootGenerator`, in `GameClock`; its bound in `Game` |
| Configuration loader (`json_loader.cpp`) | the maps of the game | `LoadGame`, `AddMap`, `AddOffice` | `ConfigLoader`, in `SaveRestore` |
| Extra data, logging, helpers | filled once, or none | | not modelled |

### Interaction

A request is read by a session, dispatched to the strand, and handled by the
API handler, which calls the application; the answer is written by the session,
which reads the next request only afterwards.  The ticker calls `Game::Update`
on the strand.  `Update` calls the collision detector and the loot generator
and, for inactive dogs, `Database::SaveRecord`, which takes a connection from
the pool and blocks the strand; when the record is committed the player is
removed from the application through a callback into `Players`.  At the end it
may call `SaveState`, which serialises `Game` and `Players` to a temporary file
and renames it.  On a signal `io_context::stop` ends the threads, and `main`
saves once more.  At the next start `LoadState` restores the game; the
leaderboard lives in the database.

### What is hard here, and what makes it correct

- *Pool*: connections return to other slots than they left, a notification is
  sent after the unlock, new callers overtake woken ones.  No connection is
  shared or lost and nobody sleeps beside a free connection.  These are promises
  of the class: this program gives it one connection (`main.cpp:30`) and calls it
  from one strand, so that it never has two holders, nor a waiter.
- *Update*: it can end at any dog whose record fails, with earlier dogs gone and
  later sessions unvisited.  Players and dogs match at every step, an item is in
  one place, nobody vanishes without a row in the leaderboard, a row is final.
  An early end also passes over the periodic save.
- *Gathering*: ids read before the loop are used while items disappear; two dogs
  compete for one item; events carry indices and not ids.
- *Movement*: boxes of the R-tree end earlier than the roads; a long tick passes
  several roads.  A dog stays on roads and is never trapped.
- *State file*: the process can end between any two steps; ids must stay unique
  over restarts although counters are restored from elements only; the database
  and the file are not written together; the configuration may be another one
  at the next start.  Who was saved is not lost, in whichever order this goes
  wrong, and comes back as it was.
- *Times*: each tick is cut to milliseconds; the test mode adds up what it is
  told, negative numbers too; a dog is charged with the whole of a tick it acted
  in; join times are not saved.  The game keeps up with the clock, nobody is
  retired early, play times are true, and the unsaved time is bounded.
- *Server*: files are answered outside the strand; exceptions leave
  `io_context::run`; a signal comes while handlers work.  The strand serialises,
  answers are in order, the final save is complete, requests end, ticks go on.
- *API*: an iterator is read before it is compared with the end; tokens of players
  that have left come in late; an update fails inside a tick request.  Only valid
  requests reach the game, and what a client is told is true.

All 38 points are listed with their lines under "hazards" in `PROJECT.json`,
also those that no property covers yet, with the reason.

## 2. Modules and their correspondence to the code

Order of writing: pool, game, gathering with its geometry, movement, state file,
server, API, times, configuration.  Each `...Proofs` module holds the theorems of the module it extends;
the `MC...` modules and `.cfg` files are the instances for TLC.  Definitions
whose comment says *Slip* are not part of the specification: they are plausible
mistakes in the code, and `PROJECT.json` ("mutants") says which definition each
of them replaces and which property then fails.

**ConnectionPool**.  One action per critical section of the mutex.  `Call`,
`Take`, `Block` are `GetConnection`; `Return` and `Notify` are
`ReturnConnection`, in two steps as `notify_one` comes after the unlock;
`SpuriousWakeup` is what a condition variable may do.  The model is
of the class, with any number of threads and connections, and not of the one
strand and the one connection this program has.  *ConnectionLease* is the
abstract promise: a connection nobody has is leased to one thread.

**Game**.  `Join` and `Act` are whole handlers.  `Game::Update` is cut where an
exception may end it or where its intermediate states matter: `BeginUpdate`,
`VisitSession` (movement and new loot of one session), `CollectLoot` and
`ReleaseLoot` (one event each), `EndGather`, `Retire` or `RetireFails` (one
`SaveRecord` each), `EndSession`, `EndUpdate`, `SaveSucceeds` or `SaveFails`.
Requests need the phase "idle", since they run on the same strand.  Positions
are abstracted: a dog with a speed may move, stop, both or neither, and one that
moved may meet any item of the provider in any order (`GatherLoot` and
`DogMovement` have the geometry).  The value of loot is abstracted, a score is
the set of items delivered.  `NextLongName` is the game with one player whose
record the table always refuses.  *Career* is what a player is promised: a dog enters
once, earns loot nobody else earned, and leaves once with all of it on the
leaderboard.  The refinement mapping takes a dog for "playing" while a session
has it, and for "retired" when it has joined and none has it; the abstract
result is the row in the table.

**ApiHandler**.  Extends `Game` with the requests that drive it.  `NotRouted` is
the part of `Handle` that answers without a handler, `Unauthorized` is
`ExecuteAuthorized` without a good token, `JoinRefused`, `ActionRefused` and
`TickRefused` are the early returns and exceptions of the three handlers with a
body, and the other actions are the handlers of the same names.  A handler
answers in the step in which it changes the game.  An update belongs to a tick
request in the test mode, which is answered when the update ends (`TickAnswer`),
and to the ticker in the normal mode.  `TryExtractToken` and
`PlayerActionResponse` dereference `req.find(...)` before they compare it with
the end; by the language anything may follow, and the model takes the outcomes
of a read at a wrong address: the right answer, an exception, the end of the
process (`ReadsBeyondEnd`).  `joined` is no state of the program: it is what the
clients remember of the tokens they were given.

**CollisionDetector, DogSweep, GatherLoot**.  The detector in exact integer
arithmetic: coordinates and widths in tenths, and quotients by |v|^2 multiplied
out.  `DogSweep` gives it the moves a dog can make, along one axis, and compares
with a geometric definition.  `GatherLoot` runs the gathering pass of one session with
several dogs; ids are drawn from a counter that other sessions use too
(`NewLootElsewhere`), and `ItemId` is the code's use of an event's index as id.
`TakeFrom` erases the first item of the list with the id, as
`GameSession::GatherLoot` does; that there is only one is proved.
`Earliest` leaves the order of simultaneous events open, as `std::sort` does.

**DogMovement**.  `Relevant` is the query of the R-tree, `IsPointOnRoad` and
`FindStopPoint` the functions of the same names, `Tick` is
`CalculateNewDogPosition`.  Units are tenths, a road is 4 to either side.

**GameClock, LootGenerator**.  The steady clock runs between any two steps
(`TimePasses`), in units finer than a millisecond, so that ticks and joins fall
between whole ones.  `OnTick` is the ticker's handler with its cut, and
`TickResponse` the tick request of the test mode with `AddTestTime`.  `Update` is
cut like in `Game`: `VisitSession` moves the dogs of a session (`go` are those
whose position changes), generates loot, and retires who is inactive;
`VisitFails` is the exception at one of its records, `EndUpdate` and `SaveFails`
the end.  A record is impossible (`Recordable`) when the play time is not in the
column's range, where `static_cast<std::uint64_t>` takes the negative ones.
`JoinTimes` is what `join_time_` may hold in a restored dog, which nothing sets.
`LootGenerator` is `Generate` for the probability 1/2 and whole numbers of base
intervals, where its `double`s are exact; `LootTime` is what `UpdateLoot` hands to
it.  The variables from `gameTime` on are no state of the program: they remember
what happened (when a dog joined or did something, what is unsaved).

**ConfigLoader**.  `Loads` is the outcome of `LoadGame`: a map or an office that is
twice there throws, and so does everything that cannot be read.  `LoadedMaps` is
what `FindMap` finds afterwards.

**SaveRestore**.  Several lives of the process.  `BeginSave`, `CloseFile` (or
`CloseFileLosesData`), `RenameFile` and `SaveFails` are `SaveState`; `Crash`
ends the process at any step; `Start` is `main` with `LoadGame`, for one of the
configurations, and `LoadState`.  `StartFails` is each way in which it ends: a
configuration that does not load, a broken file, and a session whose map the
configuration no longer has, whose null pointer `Restore` uses.  The database outlives the processes.  `AnswerLost` is a
commit whose answer does not arrive.  Of the game there are sessions, dogs and
players with ids and counters; loot, positions and scores are copied by the same
code and left out.  A UUID is drawn for each `Dog` constructed, restored or not,
so it is the pair of the life and the id.

**HttpServer**.  Handlers of the `io_context` need a free thread.  `Accept`,
`Receive`, `Written` and the like are one step; work on the game or on a file
takes a thread between two steps.  `Dispatch` runs the handler inline when the
strand is free and queues it otherwise.  `Expire` is the deadline of a stream,
set before a read and in force for the following write.  `OnReadThrows` is an
exception outside every `try`: it terminates the process, or, in the main
thread, leaves its `io_context::run`, so that the main thread waits in the
destructors of the others.  `Stop`, `RunWorkersEnd` and `SaveState` are the end
of `main`.  After `Stop` a thread that holds the strand goes on with the handlers
that were ready in it (`HoldsStrand`); which these were is left open.  The server without a ticker (`"off"`) is the test mode.

## 3. Runs

| Run | Instance | Shows |
|---|---|---|
| `pool` | 4 threads, 2 connections | no connection shared or lost, no wakeup lost, waiting ends, refinement of `ConnectionLease` |
| `game` | 2 maps, 2 dogs, 2 items, bags of one, save every 2 ticks | matching of players and dogs, conservation of loot, nobody vanishes, final rows, refinement of `Career`; inactive dogs leave |
| `save_starved` | the same with 1 item, save every tick, and a player whose record is always refused | *violated*: the periodic save is attempted again and again |
| `api` | both modes, 2 maps, 2 dogs, 1 item, save every 2 ticks | requests change the game by its own steps only (`GameSpec`), unknown tokens are those of recorded players, clients see a consistent session, a tick answered with 200 was whole |
| `gather` | 2 dogs, a road of four points with the office at the second, 3 items | while ids and indices agree: what is reached is collected, in the order of the way |
| `too_far` | the same | *violated*: a dog collects an item it did not reach |
| `sweep` | coordinates 0..4, widths 0..2 | the detector finds exactly the band of a move; nothing is missed where two ticks meet |
| `movement` | four roads, steps 0, 1, 4, 25 | dogs stay on roads, move ahead, halt at edges, are never trapped |
| `save_restore` | 2 maps, 3 joins, 3 lives, 1 fault, configurations with both maps, one, one twice, an office twice, none | the file is whole, ids are unique, saved players survive and come back as they were, rows per player |
| `http` | 2 connections, 2 threads, 2 requests each | strand, order of answers, final save; requests end, ticks go on |
| `clock` | both modes, 2 dogs, 2 maps, two units to a millisecond, 3 ms of real time or 3 ticks | the game keeps up, nobody leaves early, play times are true, the unsaved time is bounded, loot follows the dogs |
| `loot_time` | the same, one map | *violated*: in less than the base interval a map gets more than the share of the probability |

### Bounds, and why they are enough

- *pool*: two waiters and two holders are the least in which two notifications
  and a caller that overtakes can cross.  The theorems hold for any numbers.
- *game*: two dogs in one session compete for an item, one record fails after
  another succeeded; two dogs in two sessions let a failure in one skip the
  other.  Two items let a bag of one be full beside the other item, and the
  generator go on after a collection; `gather` has three.  `inactivity` and `saveTimer` stop at the
  value they are compared with, which no comparison can tell.  `MaxFresh` is the
  number of dogs.  The theorems hold for any bounds.
- *api*: as *game*, with one item, since the competition for items is settled
  there; two dogs let a token be unknown while another player acts, and two maps
  let a failed update leave a session unvisited.  The theorems hold for any bounds.
- *gather*: four points allow an item before, at and beyond the office, and a
  move that does not reach the office; three ids let list places and ids disagree.
  The theorems hold for any numbers.
- *sweep*: coordinates and widths of equal size, so that an item is on, just
  inside and just outside each border.  The theorem holds for any numbers.
- *movement*: the roads have a crossing, a continuation, a parallel road at a
  small distance and dead ends; the steps are none, one, as wide as half a road
  and longer than a road.  The theorems hold for any roads and steps.
- *save_restore*: the third life sees what the second one restored and saved
  again; three joins allow two in one session and a new one after a restart.
  One fault (crash, failed final save or lost answer) can fall on any step;
  failed periodic saves and lost writes at the close are not bounded.  Each
  start takes any configuration, so that a map goes and comes back.
- *save_starved*: a bound on the joins does not help the save, as the first dog
  suffices to keep it away; a second one plays on meanwhile.
- *http*: two connections and a ticker compete for the strand and for two
  threads, one of which may serve a file; a second request shows the order of
  answers.
- *clock*: with two units to a millisecond (`Unit`) a tick loses none or half of
  one; three ticks of up to three milliseconds (`MaxNow`, `MaxTicks`) pass the
  retirement time and the save interval of two (`RetireTime`, `SaveInterval`) in
  one tick or in several, and the column (`MaxPlayTime` 4) in the test mode.  The
  ticks of the test mode (`TestDeltas`) are negative, zero, one and longer than
  everything; join times left in memory (`JoinTimes`) are 0 and one that no clock
  gives.  One fault (`MaxFaults`) is a record or a save.  The theorems hold for
  any of these numbers.

`save_restore`, `api`, `http`, `clock` and `loot_time` do not check deadlock: a
server that has ended, or cannot read its file, stops for good, and so does the
clock at its bound.

Type invariants, `BagWithinCapacity`, `UsedCountsHolders` and `RowsAreFinal`,
which are proved for every instance, are not repeated in runs.

### Fairness

- *pool*: a thread that can take the mutex, return or notify does so; the query
  of a holder ends with a result or an exception, and the wrapper is destroyed
  either way.  Nothing is assumed of callers or spurious wakeups.
- *game*: the ticker goes on (which `http` shows) and `Update` runs to
  its end: weak fairness of its steps (`ServerFairness`).  Strong fairness of
  `SaveSucceeds` and of `Retire` for each dog: a file system and a database that
  are asked again and again accept at some time.  Nothing is assumed of players,
  of events or of failures.  `InactiveLeave` needs this for every dog, and joins
  that come to an end, which `MaxDogs` sees to: where newcomers whose records
  fail never cease, each update may end at one of them.
- *save_starved*: the same without fairness for the one dog whose record is
  refused; the code then does not come to the save.
- *http*: threads run what is ready, handlers end, time passes, and a stream
  whose deadline has passed gives its operation up; after the signal nothing is
  assumed.  Strong fairness of the end
  of a write, because other handlers may hold the threads in between.  Nothing
  is asked of the clients.

## 4. What is proved

The proofs assume the named ASSUMEs of the modules (finite sets, natural
numbers, at least one connection, thread and tick of retirement time, roads
parallel to an axis, steps that are not negative, a base interval that divides a
second), which TLC evaluates in the runs.  `NobodyIsTrapped` also assumes, in its
statement, a step that is not zero.

- **ConnectionPoolProofs**: types, `EachConnectionInOnePlace`,
  `UsedCountsHolders`, `NoLostWakeup` and the refinement of `ConnectionLease`.
  The properties are not inductive alone: `Take` needs that the slots from
  `used` upward are exactly the full ones, `Return` that the number of holders
  is `used`, and the wakeup property a count of the threads on their way.
- **GameProofs**: types, `PlayersMatchDogs`, `LootInOnePlace`,
  `BagWithinCapacity`, `GatherFindsLoot`, `NobodyVanishes`, `RowsAreFinal` and
  the refinement of `Career`.  The inductive invariant `IInv` adds three parts:
  `PeopleNumbered` (who joined has ids below the counters, and UUIDs and tokens
  are drawn once, so that a new row overwrites no other), `LootNumbered` (every
  item, wherever it is, is below the counter) and `LoopShape` (what the local
  variables of `Update` hold in each phase; in "retire" the dogs still to be
  recorded are exactly the inactive ones, so that the second erase at the end of
  `RemoveInactiveDogs` finds nothing).  One lemma per action.
- **ApiHandlerProofs**: `ApiSpec` implies the specification of `Game`, so that
  everything proved of `Game` holds behind the API; then `UnknownIsRecorded`,
  `SeenIsConsistent` and `TickIsWhole`.  `JoinedInv` says that tokens and dogs
  were given out once, `LoopInv` that the sessions the loop of `Update` has left
  hold nobody inactive: it needs that a dog is in one session and that nobody is
  lost by the second erase, both from the invariant of `Game`.
- **CollisionProofs**: `CollectedIsInBand` and `NothingBetweenTicks` for
  coordinates of any size.  For a move along an axis the products factor; two
  lemmas, one per axis, carry the nonlinear arithmetic.  The band of a move is
  then the union of the bands of its two parts, where a part may be empty.
  Then the three properties of the run `gather`, for any number of dogs, any road,
  office and capacity.  `EventsOfAPass` replaces the detector by what lies between
  the two ends of a move, once, for all events of a pass.  The inductive invariant
  `IInv` says what an unfinished pass owes: `Typed` (the events that wait are some
  of those of the pass), `Numbered` (ids are drawn once, so that an item taken is
  the item meant), `PassShape` (an item of the provider is on the ground exactly
  when it is not collected), `MetIsTaken` (a met item is on the ground only
  while an event for it waits, unless the bag is full or the office on the way) and
  `PastOffice` (once a dog's office event is done, what waits for it is not
  earlier, and its bag is from beyond).  `MetIsTaken` needs
  `PassShape` for the item that another dog has taken; the bag's half of
  `PastOffice` needs the half on the events, and that the order of times is the
  order on the way (`NotBeforeOffice`).
- **DogMovementProofs**: `DogOnRoad`, `MovesAhead` and `HaltsAtAnEdge` on any
  roads with any steps.  A stop point of a road the dog is on is on that road,
  because the cut coordinate stays between the position and the end of the road;
  it is at the edge, because the target is beyond every road the dog is on.
  `NeverTrapped` on any roads, if one of the steps is not zero: in the box of a
  road a dog can go across the road (`BoxReleases`), and past the end of one it
  came by a way that touched the box, which the same way back does too
  (`WayBack`).  `DeadEndHolds` says what this leaves open: shorter ticks than the
  one it came by may not free it.
- **HttpServerProofs**: types, `OneInGame`, `AnswersInOrder`,
  `FinalSaveIsComplete`, for any numbers of connections, threads and requests.
  `IInv` adds `HalfDuplex` (a connection is read or has one request in progress,
  never both) and `QueueIsOfJobs` (what waits for the strand is a tick or a
  request in progress, and no request waits twice).

- **GameClockProofs**: all five properties of the run `clock`, for any unit,
  intervals, join times, deltas and numbers of dogs.  `GameKeepsUp` is inductive:
  a tick of t units adds t \div Unit, less than a unit short.  For
  `NobodyLeavesEarly` the inductive part is `InactivityIsReal`: a dog's
  inactivity, with the tick it is still to be charged with in the update that
  runs, is at most the time from its `since` to the last tick.  `TimerCounts`
  says that what is unsaved, without the ticks that threw, is below the save
  interval and never more than the save timer, which a failed save leaves high.
  `DogsCounted` keeps `most` above the dogs of each map,
  from which `LootFollowsDogs` follows with the bound of the generator
  (`Share` is a cardinality of numbers up to the shortage).
- **SaveRestoreProofs**: all six properties of the run `save_restore`, for any
  maps, configurations and numbers of joins, lives and faults.  The inductive
  invariant says the same of the memory (`GameSound`) and of both files
  (`FileSound`): ids are distinct and below their counters, and every player has
  its session and its dog.  `SnapshotIsSound` and `LoadedIsSound` carry it from one
  to the other, and `SnapshotRestores` is the round trip: a player that is
  written and restored is the player it was.  `FinalIsSaved` says that a file is
  the game of the last save that returned, unless a write was lost.  For
  `RowsPerPlayer`, `RowsCounted` distinguishes players who are in the game, or
  will be after the next start, from those who are not, and may have one row more:
  only a fault brings one of these back.

Only model-checked: liveness (`WaitingEnds`, `InactiveLeave`,
`RequestsEnd`, `TicksGoOn`), which is out of the prover's reach.  Every other
property of a passing run is a theorem.  `IInv` of `GatherLoot` was checked by TLC
as an invariant of a small instance before it was proved.

## 5. Findings

`Game::GatherLoot` takes the index of an item in the provider
(`collision_detector.cpp:88`) for the item's id (`model.cpp:1126`).  They agree
for the first items of the first session only; after that a dog collects an item
it did not reach, and items whose id is not smaller than their number stay for
ever.  Run `too_far` shows it; `InStepTakesReached`, `NothingReachedIsLeft` and
`BagIsFromBeyondOffice` show that the pass is right as long as they agree.

`Game::UpdateLoot` makes a duration of *seconds* of the tick, which is in
milliseconds (`model.cpp:1056`), so that the generator gets a thousand times the
time that has passed.  With a base interval of one second and the probability
1/2, the loot of a few seconds appears in as many milliseconds, and the
probability of the configuration hardly matters in a game with ticks of 50 ms.
`tests/loot_generator_tests.cpp:50` says what the generator promises for such
times ("time is less than base interval", "number of generated loot is
decreased"); the unit is lost between the game and the generator.  Run `loot_time`
shows it.

`Game::Update` comes to the periodic save only when no record has failed
(`model.cpp:647`).  A record that the table never takes, such as that of a name
longer than `VARCHAR(100)` (`database.cpp:32`; a join tests only that the name is
not empty, `api_handler.h:567`), ends every update from the moment its dog is
inactive: there is no periodic save any more as long as the server runs, whatever
`--save-state-period` says ("set save state period", `main.cpp:139`).
Run `save_starved` shows it, with a file system and
records of other players that do not fail.

An observation that contradicts no document: the box of a road in the R-tree ends
where the axis of the road does (`model.cpp:78`), and the road 0.4 later.  A dog
stopped at a dead end, 0.4 past the axis, keeps its speed and stays where it is,
whichever way it is turned, in every tick in which it makes less than 0.4; at a
speed of 4 these are the ticks below 100 ms.  `NobodyIsTrapped` shows that a tick
as long as the one it came by frees it, `DeadEndHolds` that a shorter one may not.

## 6. Not modelled

- Several outstanding requests of one client meet in `HttpServer` only, where
  their contents are not modelled; the length of a tick is in `GameClock` and
  `DogMovement`, and a tick is one unit in `Game`.
- The rounding of doubles: floating point, which TLC does not have.  So the
  probability of the loot generator is 1/2 and its times are whole base
  intervals, and seconds of inactivity are whole milliseconds.
- Negative ticks in `DogMovement`: a dog moves backwards, past walls even, since
  only the target is tested.  No rule of the repository says what a road means
  then.  For the same reason a long tick may cross ground between two roads.
- Of the configuration, roads, buildings, loot types, speeds and capacities,
  which the other modules have as constants.  Office ids are taken for readable
  by `std::stoul`, which the loader does not test (a hazard without a property).
- Loot, bags and scores in the state file, which are copied by the code that
  copies dogs.
- `Database::Initialize` and `GetPlayersRecords`, which change no state of the
  program; what is wrong with a connection in the pool.
- The contents of files and answers: `FileRequestProcessing`, `IsSubPath`, MIME
  types, `UrlDecode`, JSON; logging and formatting.
- The command line, and the address and port of the server.

## 7. Plan

What is left: loot, bags and scores in the state file of `SaveRestore`.
