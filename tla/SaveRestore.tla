---------------------------- MODULE SaveRestore ----------------------------
(***************************************************************************)
(* The state file (Game::SaveState, Game::LoadState, the representations   *)
(* of model_serialization.h) over several runs of the server: processes    *)
(* crash at any step, are stopped, and start again from the file, maybe    *)
(* with another configuration; the database outlives them.                 *)
(*                                                                         *)
(* Of the game the module keeps who is there: sessions, dogs and players   *)
(* with their ids and counters.  What a dog carries, its score and its     *)
(* position are copied by the file and left out, and so is the order of    *)
(* the lists.                                                              *)
(***************************************************************************)
EXTENDS Integers, FiniteSets, ConfigLoader

CONSTANTS
    Maps,
    NoSession,      \* a map without a session
    NoFile,         \* the path names no file
    Broken,         \* a file LoadState cannot read
    ConfigFiles,    \* the configurations a process may be started with
    MaxJoins,       \* bound: joins in all runs
    MaxLives,       \* bound: runs of the server
    MaxFaults       \* bound: crashes, failed final saves and lost answers

ASSUME RestoreAssumption == MaxJoins \in Nat /\ MaxLives \in Nat \ {0} /\ MaxFaults \in Nat
ASSUME MapsAssumption == IsFiniteSet(Maps) /\ NoSession \notin Nat
ASSUME ConfigAssumption == \A file \in ConfigFiles \ {NoConfig} : LoadedMaps(file) \subseteq Maps

VARIABLES
    phase,          \* what the process does
    life,           \* which process it is
    config,         \* the maps of its configuration
    sessionId,      \* sessions_: the id of the session of each map
    dogs,           \* dogs_ of each session
    players,        \* Players::players_, each with its session and its dog
    sessionCounter, dogCounter, playerCounter

VARIABLES
    temp, final,    \* the files <state>.tmp and <state>
    rows            \* retired_players, with the token of the player

\* What happened, for the properties.
VARIABLES
    joined,         \* the joins so far; a join's number is its token
    saved,          \* the game at the last save that returned
    faults,         \* crashes, failed final saves and lost answers
    damaged         \* a write was lost at the close of the file

game == <<sessionId, dogs, players, sessionCounter, dogCounter, playerCounter>>
files == <<temp, final>>
history == <<joined, saved, faults, damaged>>
process == <<phase, life, config>>
vars == <<process, game, files, rows, history>>

\* A UUID is drawn anew for every Dog that is constructed, read from the file
\* or not, so the process and the dog's id stand for it.
Uuid(d) == <<life, d>>

Players == [id : Nat, token : Nat, map : Maps, dog : Nat]
PlayerReprs == [id : Nat, token : Nat, session : Nat, dog : Nat]
Files == [sessionId : [Maps -> Nat \cup {NoSession}], dogs : [Maps -> SUBSET Nat],
          players : SUBSET PlayerReprs,
          sessionCounter : Nat, dogCounter : Nat, playerCounter : Nat]

ASSUME FilesAssumption == NoFile # Broken /\ NoFile \notin Files /\ Broken \notin Files

\* "written" comes between the close and the rename.
Phases == {"down", "playing", "saving", "written"}

TypeOK ==
    /\ phase \in [doing : Phases, last : BOOLEAN]
    /\ life \in 0 .. MaxLives /\ config \subseteq Maps
    /\ sessionId \in [Maps -> Nat \cup {NoSession}]
    /\ dogs \in [Maps -> SUBSET Nat]
    /\ players \subseteq Players
    /\ sessionCounter \in Nat /\ dogCounter \in Nat /\ playerCounter \in Nat
    /\ temp \in Files \cup {NoFile, Broken} /\ final \in Files \cup {NoFile, Broken}
    /\ rows \subseteq [uuid : Nat \X Nat, token : Nat]
    /\ joined \in 0 .. MaxJoins /\ faults \in 0 .. MaxFaults /\ damaged \in BOOLEAN

EmptyGame == [sessionId |-> [m \in Maps |-> NoSession], dogs |-> [m \in Maps |-> {}],
           players |-> {}, sessionCounter |-> 0, dogCounter |-> 0, playerCounter |-> 0]

\* The memory of the process, as one value.
Game == [sessionId |-> sessionId, dogs |-> dogs, players |-> players,
         sessionCounter |-> sessionCounter, dogCounter |-> dogCounter,
         playerCounter |-> playerCounter]

GameIs(g) ==
    /\ sessionId = g.sessionId /\ dogs = g.dogs /\ players = g.players
    /\ sessionCounter = g.sessionCounter /\ dogCounter = g.dogCounter
    /\ playerCounter = g.playerCounter

GameBecomes(g) ==
    /\ sessionId' = g.sessionId /\ dogs' = g.dogs /\ players' = g.players
    /\ sessionCounter' = g.sessionCounter /\ dogCounter' = g.dogCounter
    /\ playerCounter' = g.playerCounter

Down == [doing |-> "down", last |-> FALSE]
Playing == [doing |-> "playing", last |-> FALSE]

Init ==
    /\ phase = Down /\ life = 0 /\ config = {} /\ GameIs(EmptyGame)
    /\ temp = NoFile /\ final = NoFile /\ rows = {}
    /\ joined = 0 /\ saved = EmptyGame /\ faults = 0 /\ damaged = FALSE

-----------------------------------------------------------------------------
(* The game, as far as the file is concerned.                              *)

\* AddDogToSession and the constructors of GameSession, Dog and Player.
Join(m) ==
    /\ phase = Playing
    /\ m \in config
    /\ joined < MaxJoins
    /\ IF sessionId[m] = NoSession
       THEN /\ sessionId' = [sessionId EXCEPT ![m] = sessionCounter]
            /\ sessionCounter' = sessionCounter + 1
       ELSE UNCHANGED <<sessionId, sessionCounter>>
    /\ dogs' = [dogs EXCEPT ![m] = @ \cup {dogCounter}]
    /\ players' = players \cup
         {[id |-> playerCounter, token |-> joined, map |-> m, dog |-> dogCounter]}
    /\ dogCounter' = dogCounter + 1 /\ playerCounter' = playerCounter + 1
    /\ joined' = joined + 1
    /\ UNCHANGED <<process, files, rows, saved, faults, damaged>>

Row(p) == [uuid |-> Uuid(p.dog), token |-> p.token]

\* Slip: the player leaves before its row is written.
RetireUnrecorded(p) ==
    /\ phase = Playing
    /\ rows' \in {rows, rows \cup {Row(p)}}
    /\ dogs' = [dogs EXCEPT ![p.map] = @ \ {p.dog}]
    /\ players' = players \ {p}
    /\ UNCHANGED <<process, sessionId, sessionCounter, dogCounter, playerCounter, files, history>>

\* Slip: the row is written and the player stays.
RetireStays(p) ==
    /\ phase = Playing
    /\ rows' = rows \cup {Row(p)}
    /\ UNCHANGED <<process, game, files, history>>

\* RemoveInactiveDogs: the row is committed, then the player and its dog go.
Retire(p) ==
    /\ phase = Playing
    /\ rows' = rows \cup {Row(p)}
    /\ dogs' = [dogs EXCEPT ![p.map] = @ \ {p.dog}]
    /\ players' = players \ {p}
    /\ UNCHANGED <<process, sessionId, sessionCounter, dogCounter, playerCounter, files, history>>

\* A dog without a player, whose player was lost with the end of the file,
\* leaves too; its row is nobody's.
RetireOrphan(m, d) ==
    /\ phase = Playing
    /\ ~ \E p \in players : p.dog = d
    /\ dogs' = [dogs EXCEPT ![m] = @ \ {d}]
    /\ UNCHANGED <<process, sessionId, players, sessionCounter, dogCounter, playerCounter>>
    /\ UNCHANGED <<files, rows, history>>

\* The row is committed, but the answer is lost: SaveRecord throws and the
\* player stays.
AnswerLost(p) ==
    /\ phase = Playing
    /\ faults < MaxFaults
    /\ rows' = rows \cup {Row(p)}
    /\ faults' = faults + 1
    /\ UNCHANGED <<process, game, files, joined, saved, damaged>>

-----------------------------------------------------------------------------
(* Game::SaveState.  Nothing else runs meanwhile: it is called at the end  *)
(* of Update on the API strand, and once more (last) when the threads of   *)
(* the server have ended.                                                  *)

\* Slip: the state file itself is opened.
BeginSaveInPlace(last) ==
    /\ phase = Playing
    /\ phase' = [doing |-> "saving", last |-> last]
    /\ temp' = Broken /\ final' = Broken
    /\ UNCHANGED <<life, config, game, rows, history>>

\* The file is opened, empty, and the representations are written to it.
BeginSave(last) ==
    /\ phase = Playing
    /\ phase' = [doing |-> "saving", last |-> last]
    /\ temp' = Broken
    /\ UNCHANGED <<life, config, game, final, rows, history>>

PlayerRepr(p) == [id |-> p.id, token |-> p.token, session |-> sessionId[p.map], dog |-> p.dog]

\* Slip: a counter is not written.
SnapshotUncounted ==
    [Game EXCEPT !.players = {PlayerRepr(p) : p \in players}, !.sessionCounter = 0]

Snapshot == [Game EXCEPT !.players = {PlayerRepr(p) : p \in players}]

CloseFile ==
    /\ phase.doing = "saving"
    /\ phase' = [phase EXCEPT !.doing = "written"]
    /\ temp' = Snapshot
    /\ UNCHANGED <<life, config, game, final, rows, history>>

\* The last buffer is not written; nobody looks at the state of the stream.
\* The file is cut in the sessions or between two players.
CloseFileLosesData ==
    /\ phase.doing = "saving"
    /\ phase' = [phase EXCEPT !.doing = "written"]
    /\ \/ temp' = Broken
       \/ \E some \in SUBSET Snapshot.players :
             some # Snapshot.players /\ temp' = [Snapshot EXCEPT !.players = some]
    /\ damaged' = TRUE
    /\ UNCHANGED <<life, config, game, final, rows, joined, saved, faults>>

\* The memory goes with the process.
ProcessEnds == phase' = Down /\ config' = {} /\ GameBecomes(EmptyGame)

\* After SaveState the server plays on, or ends.
AfterSave ==
    IF phase.last THEN ProcessEnds ELSE phase' = Playing /\ UNCHANGED <<config, game>>

RenameFile ==
    /\ phase.doing = "written"
    /\ final' = temp /\ temp' = NoFile
    /\ saved' = Game
    /\ AfterSave
    /\ UNCHANGED <<life, rows, joined, faults, damaged>>

\* An exception in SaveState: the temporary file is removed.
SaveFails ==
    /\ phase.doing \in {"saving", "written"}
    /\ phase.last => faults < MaxFaults
    /\ temp' = NoFile
    /\ AfterSave
    /\ faults' = IF phase.last THEN faults + 1 ELSE faults
    /\ UNCHANGED <<life, final, rows, joined, saved, damaged>>

-----------------------------------------------------------------------------
(* The end and the start of a process.                                     *)

\* The process ends at any step, and its memory with it.
Crash ==
    /\ phase # Down
    /\ faults < MaxFaults
    /\ ProcessEnds
    /\ faults' = faults + 1
    /\ UNCHANGED <<life, files, rows, joined, saved, damaged>>

FindSessionById(file, id) == CHOOSE m \in Maps : file.sessionId[m] = id

Restored(file, repr) ==
    [id |-> repr.id, token |-> repr.token, dog |-> repr.dog,
     map |-> FindSessionById(file, repr.session)]

\* Slip: the counters keep their values from the start of the process.
LoadStateUncounted(file) ==
    GameBecomes([sessionId |-> file.sessionId, dogs |-> file.dogs,
                 players |-> {Restored(file, repr) : repr \in file.players},
                 sessionCounter |-> file.sessionCounter, dogCounter |-> 0, playerCounter |-> 0])

\* LoadState: each element of a kind sets the counter of its kind, so a
\* counter without elements stays at 0; a player is given the session and the
\* dog that have the ids in the file.
LoadState(file) ==
    GameBecomes([
        sessionId |-> file.sessionId,
        dogs |-> file.dogs,
        players |-> {Restored(file, repr) : repr \in file.players},
        sessionCounter |->
            IF \E m \in Maps : file.sessionId[m] # NoSession THEN file.sessionCounter ELSE 0,
        dogCounter |-> IF \E m \in Maps : file.dogs[m] # {} THEN file.dogCounter ELSE 0,
        playerCounter |-> IF file.players # {} THEN file.playerCounter ELSE 0])

\* Game::FindMap for every session of the file: where one finds no map, the
\* null pointer is used and the process ends.
SessionsFindMaps(file, maps) ==
    \A m \in Maps : file.sessionId[m] # NoSession => m \in maps

StateLoads(maps) ==
    /\ final # Broken
    /\ final # NoFile => SessionsFindMaps(final, maps)

\* main: the configuration is loaded, then the state if its file exists.
Start(file) ==
    /\ phase = Down
    /\ life < MaxLives
    /\ life' = life + 1
    /\ Loads(file) /\ StateLoads(LoadedMaps(file))
    /\ phase' = Playing /\ config' = LoadedMaps(file)
    /\ IF final = NoFile THEN GameBecomes(EmptyGame) ELSE LoadState(final)
    /\ UNCHANGED <<files, rows, history>>

\* When either fails, the process ends and leaves the files as they are.
StartFails(file) ==
    /\ phase = Down
    /\ life < MaxLives
    /\ life' = life + 1
    /\ Loads(file) => ~ StateLoads(LoadedMaps(file))
    /\ UNCHANGED <<phase, config, game, files, rows, history>>

Next ==
    \/ \E m \in Maps : Join(m)
    \/ \E p \in players : Retire(p) \/ AnswerLost(p)
    \/ \E m \in Maps : \E d \in dogs[m] : RetireOrphan(m, d)
    \/ \E last \in BOOLEAN : BeginSave(last)
    \/ CloseFile
    \/ CloseFileLosesData
    \/ RenameFile
    \/ SaveFails
    \/ Crash
    \/ \E file \in ConfigFiles : Start(file) \/ StartFails(file)

Spec == Init /\ [][Next]_vars

-----------------------------------------------------------------------------
(* Safety.                                                                 *)

(***************************************************************************)
(* The ids stay unique over restarts: those in use are different from each *)
(* other and below the counters the next ones are drawn from.  The         *)
(* counters are restored from the elements of the file only.               *)
(***************************************************************************)
IdsStayUnique ==
    /\ \A m \in Maps : sessionId[m] # NoSession => sessionId[m] < sessionCounter
    /\ \A m, n \in Maps : m # n /\ sessionId[m] = sessionId[n] => sessionId[m] = NoSession
    /\ \A m \in Maps : \A d \in dogs[m] : d < dogCounter
    /\ \A m, n \in Maps : m # n => dogs[m] \cap dogs[n] = {}
    /\ \A p \in players : p.id < playerCounter
    /\ \A p, q \in players : (p.id = q.id \/ p.token = q.token \/ p.dog = q.dog) => p = q

(***************************************************************************)
(* A file that can be read can be restored: the session and the dog of     *)
(* every player in it are in it, once.  PlayerRepr::Restore uses both      *)
(* pointers without a check.                                               *)
(***************************************************************************)
FileCanBeRestored ==
    final \notin {NoFile, Broken} =>
        \A repr \in final.players :
            \E m \in Maps :
                /\ {n \in Maps : final.sessionId[n] = repr.session} = {m}
                /\ repr.dog \in final.dogs[m]

(***************************************************************************)
(* The state file is whole at every moment, in whichever step of a save    *)
(* the process ends, unless a write was lost at the close: what was saved  *)
(* last can be restored.                                                   *)
(***************************************************************************)
FileIsWhole ==
    ~ damaged => final # Broken /\ (saved # EmptyGame => final # NoFile)

(***************************************************************************)
(* A player who was in the game at the last save that returned is playing, *)
(* or will be after the next start, or has a row in the database.          *)
(***************************************************************************)
SavedPlayersSurvive ==
    ~ damaged =>
        \A p \in saved.players :
            \/ \E r \in rows : r.token = p.token
            \/ \E q \in players : q.token = p.token
            \/ phase = Down /\ final # NoFile /\ \E q \in final.players : q.token = p.token

(***************************************************************************)
(* A player has at most one row, and one more for each fault: a crash, or  *)
(* a final save that failed, after the row was written brings the player   *)
(* back with another UUID, and so does a lost answer and a restart.        *)
(***************************************************************************)
RowsPerPlayer ==
    \A t \in 0 .. joined - 1 : Cardinality({r \in rows : r.token = t}) <= 1 + faults

(***************************************************************************)
(* A process starts with the game as it was at the last save that          *)
(* returned: the same players, with their ids and tokens, in the same      *)
(* sessions and with the same dogs.                                        *)
(***************************************************************************)
StartsWhereSaved ==
    [][phase = Down /\ phase' = Playing /\ ~ damaged =>
          /\ sessionId' = saved.sessionId
          /\ dogs' = saved.dogs
          /\ players' = saved.players]_vars
=============================================================================
