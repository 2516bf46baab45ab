---------------------------- MODULE ConfigLoader ----------------------------
(***************************************************************************)
(* json_loader::LoadGame: the maps of a configuration file are added one   *)
(* after the other, and the first that cannot be added ends the loading    *)
(* (and main, which has not touched the state file yet).                   *)
(*                                                                         *)
(* A file is the sequence of its maps, each with its id and the sequence   *)
(* of the ids of its offices.  Every other way to throw (no file, no JSON, *)
(* a key that is missing or of another type) is the file NoConfig.         *)
(***************************************************************************)
EXTENDS Integers, Sequences

CONSTANT NoConfig     \* a file that cannot be read as a configuration

\* No two elements of a list have one id.
Distinct(ids) == \A i, j \in DOMAIN ids : ids[i] = ids[j] => i = j

\* Map::AddOffice throws for a second office with the same id.
OfficesAdded(map) == Distinct(map.offices)

MapIds(file) == [i \in DOMAIN file |-> file[i].id]

\* LoadGame returns: Game::AddMap throws for a second map with the same id.
Loads(file) ==
    /\ file # NoConfig
    /\ \A i \in DOMAIN file : OfficesAdded(file[i])
    /\ Distinct(MapIds(file))

\* The maps that Game::FindMap finds afterwards.
LoadedMaps(file) == {file[i].id : i \in DOMAIN file}
=============================================================================
