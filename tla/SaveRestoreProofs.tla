------------------------- MODULE SaveRestoreProofs -------------------------
(***************************************************************************)
(* Proofs about SaveRestore, for any maps and configurations and any       *)
(* number of joins, runs and faults.                                       *)
(***************************************************************************)
EXTENDS SaveRestore, FiniteSetTheorems, TLAPS

(***************************************************************************)
(* The inductive invariant.  What makes ids unique in the memory makes     *)
(* them unique in a file, so both are stated alike, and each is what the   *)
(* other is made from: Snapshot writes a sound game to a sound file, and   *)
(* LoadState makes a sound game of it.                                     *)
(***************************************************************************)
IdsSound(ids, ds, nextSession, nextDog) ==
    /\ \A m \in Maps : ids[m] # NoSession => ids[m] < nextSession
    /\ \A m, n \in Maps : m # n /\ ids[m] = ids[n] => ids[m] = NoSession
    /\ \A m \in Maps : \A d \in ds[m] : d < nextDog
    /\ \A m, n \in Maps : m # n => ds[m] \cap ds[n] = {}

Distinguished(ps) ==
    \A p, q \in ps : (p.id = q.id \/ p.token = q.token \/ p.dog = q.dog) => p = q

PlayerSound(p) ==
    /\ sessionId[p.map] # NoSession /\ p.dog \in dogs[p.map]
    /\ p.id < playerCounter /\ p.token < joined

GameSound ==
    /\ IdsSound(sessionId, dogs, sessionCounter, dogCounter)
    /\ Distinguished(players)
    /\ \A p \in players : PlayerSound(p)

ReprSound(f, r, j) ==
    /\ \E m \in Maps : f.sessionId[m] = r.session /\ r.dog \in f.dogs[m]
    /\ r.id < f.playerCounter /\ r.token < j

FileSound(f, j) ==
    /\ IdsSound(f.sessionId, f.dogs, f.sessionCounter, f.dogCounter)
    /\ Distinguished(f.players)
    /\ \A r \in f.players : ReprSound(f, r, j)

TempSound == temp \in Files => FileSound(temp, joined)
FinalSound == final \in Files => FileSound(final, joined)

\* What RenameFile puts in place, and what is there, as long as no write was
\* lost: the game at the last save.
TempIsSnapshot == ~ damaged /\ phase.doing = "written" => temp = Snapshot

FinalIsSaved ==
    ~ damaged =>
        /\ final # Broken
        /\ final = NoFile => saved = EmptyGame
        /\ final # NoFile =>
              /\ final.sessionId = saved.sessionId /\ final.dogs = saved.dogs
              /\ saved.players = {Restored(final, r) : r \in final.players}

IInv ==
    /\ TypeOK /\ GameSound /\ TempSound /\ FinalSound
    /\ TempIsSnapshot /\ FinalIsSaved /\ SavedPlayersSurvive

-----------------------------------------------------------------------------
(* What the file does to a game and back.                                  *)

LEMMA FileFields ==
    ASSUME NEW f \in Files
    PROVE  /\ f.sessionId \in [Maps -> Nat \cup {NoSession}] /\ f.dogs \in [Maps -> SUBSET Nat]
           /\ f.players \subseteq PlayerReprs
           /\ f.sessionCounter \in Nat /\ f.dogCounter \in Nat /\ f.playerCounter \in Nat
BY DEF Files

LEMMA SnapshotFields ==
    /\ Snapshot.sessionId = sessionId /\ Snapshot.dogs = dogs
    /\ Snapshot.players = {PlayerRepr(p) : p \in players}
    /\ Snapshot.sessionCounter = sessionCounter /\ Snapshot.dogCounter = dogCounter
    /\ Snapshot.playerCounter = playerCounter
    /\ Snapshot = [sessionId |-> sessionId, dogs |-> dogs,
                   players |-> {PlayerRepr(p) : p \in players},
                   sessionCounter |-> sessionCounter, dogCounter |-> dogCounter,
                   playerCounter |-> playerCounter]
BY DEF Snapshot, Game

\* A sound game is written to a sound file.
LEMMA SnapshotIsSound ==
    ASSUME TypeOK, GameSound
    PROVE  Snapshot \in Files /\ FileSound(Snapshot, joined)
<1>1. ASSUME NEW p \in players
      PROVE  /\ p \in Players /\ PlayerRepr(p) \in PlayerReprs
             /\ ReprSound(Snapshot, PlayerRepr(p), joined)
  <2>1. p \in Players /\ sessionId[p.map] \in Nat
    BY DEF TypeOK, GameSound, PlayerSound, Players
  <2>2. PlayerRepr(p) \in PlayerReprs
    BY <2>1 DEF Players, PlayerReprs, PlayerRepr
  <2>3. ReprSound(Snapshot, PlayerRepr(p), joined)
    BY <2>1, SnapshotFields DEF GameSound, PlayerSound, Players, PlayerRepr, ReprSound
  <2>. QED  BY <2>1, <2>2, <2>3
<1>2. Snapshot \in Files
  BY <1>1, SnapshotFields DEF TypeOK, Files
<1>3. IdsSound(Snapshot.sessionId, Snapshot.dogs, Snapshot.sessionCounter, Snapshot.dogCounter)
  BY SnapshotFields DEF GameSound
<1>4. Distinguished(Snapshot.players)
  <2>. SUFFICES ASSUME NEW p \in players, NEW q \in players,
                       \/ PlayerRepr(p).id = PlayerRepr(q).id
                       \/ PlayerRepr(p).token = PlayerRepr(q).token
                       \/ PlayerRepr(p).dog = PlayerRepr(q).dog
                PROVE  PlayerRepr(p) = PlayerRepr(q)
    BY SnapshotFields DEF Distinguished
  <2>1. p.id = q.id \/ p.token = q.token \/ p.dog = q.dog
    BY DEF PlayerRepr
  <2>. QED  BY <2>1 DEF GameSound, Distinguished
<1>5. ASSUME NEW r \in Snapshot.players PROVE ReprSound(Snapshot, r, joined)
  BY <1>1, SnapshotFields
<1>. QED  BY <1>2, <1>3, <1>4, <1>5 DEF FileSound

\* The session a player of a sound file is given is the one it was in.
LEMMA SessionIsFound ==
    ASSUME NEW f \in Files, FileSound(f, joined), NEW r \in f.players
    PROVE  LET m == FindSessionById(f, r.session)
           IN  m \in Maps /\ f.sessionId[m] = r.session /\ r.dog \in f.dogs[m]
<1>1. PICK m \in Maps : f.sessionId[m] = r.session /\ r.dog \in f.dogs[m]
  BY DEF FileSound, ReprSound
<1>2. r.session \in Nat
  BY FileFields DEF PlayerReprs
<1>3. ASSUME NEW n \in Maps, f.sessionId[n] = r.session PROVE n = m
  BY <1>1, <1>2, <1>3, MapsAssumption DEF FileSound, IdsSound
<1>4. FindSessionById(f, r.session) = m
  BY <1>1, <1>3 DEF FindSessionById
<1>. QED  BY <1>1, <1>4

\* A player that is written and restored is the player it was.
LEMMA SnapshotRestores ==
    ASSUME TypeOK, GameSound
    PROVE  players = {Restored(Snapshot, r) : r \in Snapshot.players}
<1>1. ASSUME NEW p \in players PROVE Restored(Snapshot, PlayerRepr(p)) = p
  <2>1. p \in Players /\ p.map \in Maps /\ sessionId[p.map] \in Nat
    BY DEF TypeOK, GameSound, PlayerSound, Players
  <2>2. ASSUME NEW n \in Maps, sessionId[n] = sessionId[p.map] PROVE n = p.map
    BY <2>1, <2>2, MapsAssumption DEF GameSound, IdsSound
  <2>3. FindSessionById(Snapshot, sessionId[p.map]) = p.map
    BY <2>1, <2>2, SnapshotFields DEF FindSessionById
  <2>4. Restored(Snapshot, PlayerRepr(p)) =
          [id |-> p.id, token |-> p.token, dog |-> p.dog, map |-> p.map]
    BY <2>3 DEF Restored, PlayerRepr
  <2>. QED  BY <2>1, <2>4 DEF Players
<1>2. ASSUME NEW r \in Snapshot.players PROVE Restored(Snapshot, r) \in players
  BY <1>1, SnapshotFields
<1>3. ASSUME NEW p \in players PROVE \E r \in Snapshot.players : p = Restored(Snapshot, r)
  BY <1>1, SnapshotFields
<1>. QED  BY <1>2, <1>3

LEMMA RestoredFields ==
    ASSUME NEW f, NEW r
    PROVE  /\ Restored(f, r).id = r.id /\ Restored(f, r).token = r.token
           /\ Restored(f, r).dog = r.dog
           /\ Restored(f, r).map = FindSessionById(f, r.session)
BY DEF Restored

-----------------------------------------------------------------------------
(* The game.                                                               *)

\* An empty game, after the end of a process or at its start.
LEMMA EmptyIsSound ==
    ASSUME TypeOK, GameBecomes(EmptyGame), UNCHANGED joined
    PROVE  /\ sessionId' \in [Maps -> Nat \cup {NoSession}] /\ dogs' \in [Maps -> SUBSET Nat]
           /\ players' = {} /\ sessionCounter' \in Nat /\ dogCounter' \in Nat
           /\ playerCounter' \in Nat
           /\ GameSound'
<1>1. /\ sessionId' = [m \in Maps |-> NoSession] /\ dogs' = [m \in Maps |-> {}]
      /\ players' = {} /\ sessionCounter' = 0 /\ dogCounter' = 0 /\ playerCounter' = 0
  BY DEF GameBecomes, EmptyGame
<1>2. GameSound'
  BY <1>1 DEF GameSound, IdsSound, Distinguished
<1>. QED  BY <1>1, <1>2

LEMMA JoinKeepsIds ==
    ASSUME TypeOK, GameSound, NEW m \in Maps, Join(m)
    PROVE  IdsSound(sessionId, dogs, sessionCounter, dogCounter)'
<1>. USE MapsAssumption
<1>1. \A n \in Maps : sessionId[n] \in Nat \cup {NoSession} /\ dogs[n] \subseteq Nat
  BY DEF TypeOK
<1>2. IdsSound(sessionId, dogs, sessionCounter, dogCounter)
  BY DEF GameSound
<1>3. sessionCounter \in Nat /\ dogCounter \in Nat
  BY DEF TypeOK
<1>4. /\ \A n \in Maps : sessionId'[n] # NoSession => sessionId'[n] < sessionCounter'
      /\ \A n, k \in Maps : n # k /\ sessionId'[n] = sessionId'[k] => sessionId'[n] = NoSession
  <2>1. CASE sessionId[m] = NoSession
    <3>1. /\ \A n \in Maps : sessionId'[n] = IF n = m THEN sessionCounter ELSE sessionId[n]
          /\ sessionCounter' = sessionCounter + 1
      BY <2>1 DEF Join, TypeOK
    <3>. QED  BY <3>1, <1>1, <1>2, <1>3 DEF IdsSound
  <2>2. CASE sessionId[m] # NoSession
    BY <2>2, <1>2 DEF IdsSound, Join
  <2>. QED  BY <2>1, <2>2
<1>5. /\ \A n \in Maps : dogs'[n] = IF n = m THEN dogs[n] \cup {dogCounter} ELSE dogs[n]
      /\ dogCounter' = dogCounter + 1
  BY DEF Join, TypeOK
<1>6. ASSUME NEW n \in Maps, NEW d \in dogs'[n] PROVE d < dogCounter'
  <2>1. d \in dogs[n] \/ d = dogCounter
    BY <1>5, <1>6
  <2>2. d \in dogs[n] => d \in Nat /\ d < dogCounter
    BY <1>1, <1>2 DEF IdsSound
  <2>. QED  BY <2>1, <2>2, <1>3, <1>5
<1>7. \A n \in Maps : dogCounter \notin dogs[n]
  BY <1>1, <1>2, <1>3 DEF IdsSound
<1>8. ASSUME NEW n \in Maps, NEW k \in Maps, n # k PROVE dogs'[n] \cap dogs'[k] = {}
  BY <1>2, <1>5, <1>7, <1>8 DEF IdsSound
<1>. QED  BY <1>4, <1>6, <1>8 DEF IdsSound

LEMMA JoinKeepsPlayers ==
    ASSUME TypeOK, GameSound, NEW m \in Maps, Join(m)
    PROVE  /\ players' \subseteq Players
           /\ Distinguished(players')
           /\ \A p \in players' : PlayerSound(p)'
<1>. USE MapsAssumption
<1>. DEFINE new == [id |-> playerCounter, token |-> joined, map |-> m, dog |-> dogCounter]
<1>1. /\ players' = players \cup {new}
      /\ dogCounter' = dogCounter + 1 /\ playerCounter' = playerCounter + 1
      /\ joined' = joined + 1
  BY DEF Join
<1>2. /\ sessionCounter \in Nat /\ dogCounter \in Nat /\ playerCounter \in Nat /\ joined \in Nat
      /\ players \subseteq Players
  BY DEF TypeOK
<1>3. new \in Players
  BY <1>2 DEF Players
<1>4. /\ \A n \in Maps : sessionId[n] # NoSession => sessionId'[n] # NoSession
      /\ sessionId'[m] # NoSession
  BY <1>2 DEF Join, TypeOK
<1>5. \A n \in Maps : dogs[n] \subseteq dogs'[n]
  BY DEF Join, TypeOK
<1>6. dogCounter \in dogs'[m]
  BY DEF Join, TypeOK
<1>7. ASSUME NEW p \in players
      PROVE  /\ p.map \in Maps /\ p.id \in Nat /\ p.token \in Nat /\ p.dog \in Nat
             /\ p.id < playerCounter /\ p.token < joined /\ p.dog < dogCounter
  <2>1. p.map \in Maps /\ p.id \in Nat /\ p.token \in Nat /\ p.dog \in Nat
    BY <1>2 DEF Players
  <2>. QED  BY <2>1 DEF GameSound, PlayerSound, IdsSound
<1>8. ASSUME NEW p \in players' PROVE PlayerSound(p)'
  <2>1. CASE p \in players
    <3>1. PlayerSound(p)
      BY <2>1 DEF GameSound
    <3>. QED  BY <2>1, <3>1, <1>1, <1>2, <1>4, <1>5, <1>7 DEF PlayerSound
  <2>2. CASE p = new
    BY <2>2, <1>1, <1>2, <1>4, <1>6 DEF PlayerSound
  <2>. QED  BY <2>1, <2>2, <1>1
<1>9. Distinguished(players')
  <2>1. ASSUME NEW p \in players PROVE p.id # new.id /\ p.token # new.token /\ p.dog # new.dog
    BY <1>2, <1>7
  <2>2. Distinguished(players)
    BY DEF GameSound
  <2>. HIDE DEF new
  <2>. QED  BY <1>1, <2>1, <2>2 DEF Distinguished
<1>. QED  BY <1>1, <1>2, <1>3, <1>8, <1>9

\* Fewer players, and fewer dogs that are nobody's, are as sound.
LEMMA FewerAreSound ==
    ASSUME TypeOK, GameSound, players' \subseteq players,
           dogs' \in [Maps -> SUBSET Nat], \A m \in Maps : dogs'[m] \subseteq dogs[m],
           \A p \in players' : p.dog \in dogs'[p.map],
           UNCHANGED <<sessionId, sessionCounter, dogCounter, playerCounter, joined>>
    PROVE  GameSound'
<1>1. IdsSound(sessionId, dogs, sessionCounter, dogCounter)'
  <2>1. IdsSound(sessionId, dogs, sessionCounter, dogCounter)
    BY DEF GameSound
  <2>. QED  BY <2>1 DEF IdsSound
<1>2. Distinguished(players')
  BY DEF GameSound, Distinguished
<1>3. \A p \in players' : PlayerSound(p)'
  BY DEF GameSound, PlayerSound
<1>. QED  BY <1>1, <1>2, <1>3 DEF GameSound

\* LoadState makes a sound game of a sound file.
LEMMA LoadedIsSound ==
    ASSUME TypeOK, NEW f \in Files, FileSound(f, joined), LoadState(f), UNCHANGED joined
    PROVE  /\ sessionId' = f.sessionId /\ dogs' = f.dogs
           /\ players' = {Restored(f, r) : r \in f.players} /\ players' \subseteq Players
           /\ sessionCounter' \in Nat /\ dogCounter' \in Nat /\ playerCounter' \in Nat
           /\ GameSound'
<1>. USE MapsAssumption
<1>1. /\ sessionId' = f.sessionId /\ dogs' = f.dogs
      /\ players' = {Restored(f, r) : r \in f.players}
      /\ sessionCounter' = IF \E m \in Maps : f.sessionId[m] # NoSession THEN f.sessionCounter ELSE 0
      /\ dogCounter' = IF \E m \in Maps : f.dogs[m] # {} THEN f.dogCounter ELSE 0
      /\ playerCounter' = IF f.players # {} THEN f.playerCounter ELSE 0
  BY DEF LoadState, GameBecomes
<1>2. sessionCounter' \in Nat /\ dogCounter' \in Nat /\ playerCounter' \in Nat
  BY <1>1, FileFields
<1>3. IdsSound(sessionId, dogs, sessionCounter, dogCounter)'
  <2>1. IdsSound(f.sessionId, f.dogs, f.sessionCounter, f.dogCounter)
    BY DEF FileSound
  <2>. QED  BY <1>1, <2>1 DEF IdsSound
<1>4. ASSUME NEW r \in f.players
      PROVE  Restored(f, r) \in Players /\ PlayerSound(Restored(f, r))'
  <2>1. /\ r \in PlayerReprs /\ ReprSound(f, r, joined)
    BY FileFields DEF FileSound
  <2>2. LET m == FindSessionById(f, r.session)
        IN  m \in Maps /\ f.sessionId[m] = r.session /\ r.dog \in f.dogs[m]
    BY SessionIsFound
  <2>3. Restored(f, r) \in Players
    BY <2>1, <2>2 DEF Restored, Players, PlayerReprs
  <2>4. f.players # {} /\ r.session # NoSession
    BY <2>1 DEF PlayerReprs
  <2>. QED  BY <1>1, <2>1, <2>2, <2>3, <2>4, RestoredFields DEF PlayerSound, ReprSound
<1>5. Distinguished(players')
  <2>1. Distinguished(f.players)
    BY DEF FileSound
  <2>2. ASSUME NEW r \in f.players, NEW s \in f.players,
               \/ Restored(f, r).id = Restored(f, s).id
               \/ Restored(f, r).token = Restored(f, s).token
               \/ Restored(f, r).dog = Restored(f, s).dog
        PROVE  Restored(f, r) = Restored(f, s)
    BY <2>1, <2>2, RestoredFields DEF Distinguished
  <2>. QED  BY <1>1, <2>2 DEF Distinguished
<1>6. players' \subseteq Players /\ \A p \in players' : PlayerSound(p)'
  BY <1>1, <1>4
<1>. QED  BY <1>1, <1>2, <1>3, <1>5, <1>6 DEF GameSound
-----------------------------------------------------------------------------
(* The files.                                                              *)

LEMMA FilesStay ==
    ASSUME TempSound, FinalSound, UNCHANGED final, temp' \in {temp, NoFile, Broken},
           joined \in Nat, joined' \in Nat, joined <= joined'
    PROVE  TempSound' /\ FinalSound'
<1>1. ASSUME NEW f \in Files, FileSound(f, joined) PROVE FileSound(f, joined')
  <2>1. ASSUME NEW r \in f.players PROVE ReprSound(f, r, joined')
    <3>1. r.token \in Nat /\ ReprSound(f, r, joined)
      BY <1>1, FileFields DEF FileSound, PlayerReprs
    <3>. QED  BY <3>1 DEF ReprSound
  <2>. QED  BY <1>1, <2>1 DEF FileSound
<1>2. FinalSound'
  BY <1>1 DEF FinalSound
<1>3. TempSound'
  BY <1>1, FilesAssumption DEF TempSound
<1>. QED  BY <1>2, <1>3

LEMMA SavedStays ==
    ASSUME FinalIsSaved, UNCHANGED <<final, saved, damaged>>
    PROVE  FinalIsSaved'
BY DEF FinalIsSaved, Restored, FindSessionById

\* Every player of the last save is in the file.
LEMMA SavedIsInFile ==
    ASSUME IInv, ~ damaged, NEW p \in saved.players
    PROVE  final # NoFile /\ \E r \in final.players : r.token = p.token
<1>1. final # NoFile
  BY DEF IInv, FinalIsSaved, EmptyGame
<1>2. PICK r \in final.players : p = Restored(final, r)
  BY <1>1 DEF IInv, FinalIsSaved
<1>. QED  BY <1>1, <1>2, RestoredFields

-----------------------------------------------------------------------------
(* The steps.                                                              *)

LEMMA InitSound == Init => IInv
<1>. SUFFICES ASSUME Init PROVE IInv
  OBVIOUS
<1>. USE MapsAssumption, RestoreAssumption, FilesAssumption
<1>1. /\ sessionId = [m \in Maps |-> NoSession] /\ dogs = [m \in Maps |-> {}]
      /\ players = {} /\ sessionCounter = 0 /\ dogCounter = 0 /\ playerCounter = 0
  BY DEF Init, GameIs, EmptyGame
<1>2. TypeOK
  <2>1. phase \in [doing : Phases, last : BOOLEAN]
    BY DEF Init, Down, Phases
  <2>2. sessionId \in [Maps -> Nat \cup {NoSession}] /\ dogs \in [Maps -> SUBSET Nat]
    BY <1>1
  <2>3. /\ life \in 0 .. MaxLives /\ config \subseteq Maps /\ players \subseteq Players
        /\ sessionCounter \in Nat /\ dogCounter \in Nat /\ playerCounter \in Nat
    BY <1>1 DEF Init
  <2>4. /\ temp \in Files \cup {NoFile, Broken} /\ final \in Files \cup {NoFile, Broken}
        /\ joined \in 0 .. MaxJoins /\ faults \in 0 .. MaxFaults
    BY DEF Init
  <2>5. rows \subseteq [uuid : Nat \X Nat, token : Nat] /\ damaged \in BOOLEAN
    <3>1. rows = {} /\ damaged = FALSE
      BY DEF Init
    <3>. QED  BY <3>1, Zenon
  <2>. QED  BY <2>1, <2>2, <2>3, <2>4, <2>5 DEF TypeOK
<1>3. GameSound
  BY <1>1 DEF GameSound, IdsSound, Distinguished
<1>4. TempSound /\ FinalSound
  BY DEF Init, TempSound, FinalSound
<1>5. TempIsSnapshot /\ FinalIsSaved
  BY DEF Init, TempIsSnapshot, FinalIsSaved, Down
<1>6. SavedPlayersSurvive
  BY DEF Init, SavedPlayersSurvive, EmptyGame
<1>. QED  BY <1>2, <1>3, <1>4, <1>5, <1>6 DEF IInv

\* While the game is played, a step of it leaves the files alone.
LEMMA PlayStep ==
    ASSUME IInv, phase = Playing, UNCHANGED <<process, files, saved, damaged>>,
           joined' \in Nat, joined <= joined',
           \A p \in players : p \in players' \/ \E r \in rows' : r.token = p.token,
           rows \subseteq rows'
    PROVE  /\ TempSound' /\ FinalSound' /\ TempIsSnapshot' /\ FinalIsSaved'
           /\ SavedPlayersSurvive'
<1>1. TempSound' /\ FinalSound'
  BY FilesStay DEF IInv, TypeOK, files
<1>2. TempIsSnapshot'
  BY DEF TempIsSnapshot, Playing, process
<1>3. FinalIsSaved'
  BY SavedStays DEF IInv, files
<1>4. SavedPlayersSurvive'
  BY DEF IInv, SavedPlayersSurvive, Playing, Down
<1>. QED  BY <1>1, <1>2, <1>3, <1>4

LEMMA JoinStep == IInv /\ (\E m \in Maps : Join(m)) => IInv'
<1>. SUFFICES ASSUME IInv, NEW m \in Maps, Join(m) PROVE IInv'
  OBVIOUS
<1>1. TypeOK /\ GameSound
  BY DEF IInv
<1>2. joined' \in 0 .. MaxJoins /\ joined <= joined'
  BY RestoreAssumption, <1>1 DEF Join, TypeOK
<1>3. TypeOK'
  <2>1. players' \subseteq Players
    BY <1>1, JoinKeepsPlayers
  <2>2. /\ sessionId' \in [Maps -> Nat \cup {NoSession}] /\ dogs' \in [Maps -> SUBSET Nat]
        /\ sessionCounter' \in Nat /\ dogCounter' \in Nat /\ playerCounter' \in Nat
    BY <1>1 DEF Join, TypeOK
  <2>. QED  BY <1>1, <1>2, <2>1, <2>2 DEF TypeOK, Join, process, files
<1>4. GameSound'
  BY <1>1, JoinKeepsIds, JoinKeepsPlayers DEF GameSound
<1>5. TempSound' /\ FinalSound' /\ TempIsSnapshot' /\ FinalIsSaved' /\ SavedPlayersSurvive'
  BY <1>2, PlayStep DEF Join
<1>. QED  BY <1>3, <1>4, <1>5 DEF IInv

LEMMA RetireStep == IInv /\ (\E p \in players : Retire(p)) => IInv'
<1>. SUFFICES ASSUME IInv, NEW p \in players, Retire(p) PROVE IInv'
  OBVIOUS
<1>1. TypeOK /\ GameSound
  BY DEF IInv
<1>2. /\ p \in Players /\ players' = players \ {p} /\ rows' = rows \cup {Row(p)}
      /\ dogs' \in [Maps -> SUBSET Nat]
      /\ \A m \in Maps : dogs'[m] = IF m = p.map THEN dogs[m] \ {p.dog} ELSE dogs[m]
  BY <1>1 DEF TypeOK, Retire, Players
<1>3. TypeOK'
  <2>1. Row(p) \in [uuid : Nat \X Nat, token : Nat]
    BY <1>1, <1>2 DEF Row, Uuid, Players, TypeOK
  <2>. QED  BY <1>1, <1>2, <2>1 DEF TypeOK, Retire, process, files, history
<1>4. GameSound'
  <2>1. ASSUME NEW q \in players' PROVE q.dog \in dogs'[q.map]
    <3>1. q \in players /\ q # p /\ q.map \in Maps /\ q.dog \in dogs[q.map]
      BY <1>1, <1>2 DEF GameSound, PlayerSound, TypeOK, Players
    <3>2. q.dog # p.dog
      BY <3>1, <1>1 DEF GameSound, Distinguished
    <3>. QED  BY <1>2, <3>1, <3>2
  <2>. QED  BY <1>1, <1>2, <2>1, FewerAreSound DEF Retire, history
<1>5. TempSound' /\ FinalSound' /\ TempIsSnapshot' /\ FinalIsSaved' /\ SavedPlayersSurvive'
  <2>1. joined \in Nat /\ Row(p).token = p.token
    BY <1>1 DEF TypeOK, Row
  <2>. QED  BY <1>2, <2>1, PlayStep DEF Retire, history
<1>. QED  BY <1>3, <1>4, <1>5 DEF IInv

LEMMA RetireOrphanStep == IInv /\ (\E m \in Maps : \E d \in dogs[m] : RetireOrphan(m, d)) => IInv'
<1>. SUFFICES ASSUME IInv, NEW m \in Maps, NEW d \in dogs[m], RetireOrphan(m, d) PROVE IInv'
  OBVIOUS
<1>1. TypeOK /\ GameSound
  BY DEF IInv
<1>2. /\ dogs' \in [Maps -> SUBSET Nat]
      /\ \A n \in Maps : dogs'[n] = IF n = m THEN dogs[n] \ {d} ELSE dogs[n]
  BY <1>1 DEF TypeOK, RetireOrphan
<1>3. TypeOK'
  BY <1>1, <1>2 DEF TypeOK, RetireOrphan, process, files, history
<1>4. GameSound'
  <2>1. ASSUME NEW q \in players' PROVE q \in players /\ q.dog \in dogs'[q.map]
    BY <1>1, <1>2 DEF GameSound, PlayerSound, TypeOK, Players, RetireOrphan
  <2>. QED  BY <1>1, <1>2, <2>1, FewerAreSound DEF RetireOrphan, history
<1>5. TempSound' /\ FinalSound' /\ TempIsSnapshot' /\ FinalIsSaved' /\ SavedPlayersSurvive'
  BY <1>1, PlayStep DEF RetireOrphan, history, TypeOK
<1>. QED  BY <1>3, <1>4, <1>5 DEF IInv

LEMMA AnswerLostStep == IInv /\ (\E p \in players : AnswerLost(p)) => IInv'
<1>. SUFFICES ASSUME IInv, NEW p \in players, AnswerLost(p) PROVE IInv'
  OBVIOUS
<1>1. TypeOK /\ GameSound
  BY DEF IInv
<1>2. Row(p) \in [uuid : Nat \X Nat, token : Nat]
  BY <1>1 DEF Row, Uuid, Players, TypeOK
<1>3. TypeOK'
  BY <1>1, <1>2, RestoreAssumption DEF TypeOK, AnswerLost, process, game, files
<1>4. GameSound'
  BY <1>1 DEF GameSound, IdsSound, PlayerSound, AnswerLost, game
<1>5. TempSound' /\ FinalSound' /\ TempIsSnapshot' /\ FinalIsSaved' /\ SavedPlayersSurvive'
  BY <1>1, PlayStep DEF AnswerLost, TypeOK, game
<1>. QED  BY <1>3, <1>4, <1>5 DEF IInv
-----------------------------------------------------------------------------
(* Saving.                                                                 *)

LEMMA BeginSaveStep == IInv /\ (\E last \in BOOLEAN : BeginSave(last)) => IInv'
<1>. SUFFICES ASSUME IInv, NEW last \in BOOLEAN, BeginSave(last) PROVE IInv'
  OBVIOUS
<1>1. TypeOK /\ GameSound
  BY DEF IInv
<1>2. phase' \in [doing : Phases, last : BOOLEAN] /\ phase'.doing = "saving"
  BY DEF BeginSave, Phases
<1>3. TypeOK'
  BY <1>1, <1>2 DEF TypeOK, BeginSave, game, history
<1>4. GameSound'
  BY <1>1 DEF GameSound, IdsSound, PlayerSound, BeginSave, game, history
<1>5. TempSound' /\ FinalSound'
  BY <1>1, FilesStay DEF IInv, TypeOK, BeginSave, history
<1>6. TempIsSnapshot' /\ FinalIsSaved'
  BY <1>2, SavedStays DEF IInv, TempIsSnapshot, BeginSave, history
<1>7. SavedPlayersSurvive'
  BY DEF IInv, SavedPlayersSurvive, BeginSave, game, history, Playing, Down
<1>. QED  BY <1>3, <1>4, <1>5, <1>6, <1>7 DEF IInv

LEMMA CloseFileStep == IInv /\ CloseFile => IInv'
<1>. SUFFICES ASSUME IInv, CloseFile PROVE IInv'
  OBVIOUS
<1>1. TypeOK /\ GameSound
  BY DEF IInv
<1>2. phase' \in [doing : Phases, last : BOOLEAN] /\ phase # Down
  BY <1>1 DEF CloseFile, Phases, TypeOK, Down
<1>3. /\ temp' \in Files /\ FileSound(temp', joined') /\ temp' = Snapshot
      /\ temp' \in Files => temp' \notin {NoFile, Broken}
  BY <1>1, SnapshotIsSound, FilesAssumption DEF CloseFile, history
<1>4. TypeOK'
  BY <1>1, <1>2, <1>3 DEF TypeOK, CloseFile, game, history
<1>5. GameSound'
  BY <1>1 DEF GameSound, IdsSound, PlayerSound, CloseFile, game, history
<1>6. TempSound' /\ FinalSound'
  BY <1>3 DEF IInv, TempSound, FinalSound, CloseFile, history
<1>7. TempIsSnapshot' /\ FinalIsSaved'
  <2>1. Snapshot' = Snapshot
    BY DEF Snapshot, Game, PlayerRepr, CloseFile, game
  <2>. QED  BY <1>3, <2>1, SavedStays DEF IInv, TempIsSnapshot, CloseFile, history
<1>8. SavedPlayersSurvive'
  BY <1>2 DEF IInv, SavedPlayersSurvive, CloseFile, game, history
<1>. QED  BY <1>4, <1>5, <1>6, <1>7, <1>8 DEF IInv

LEMMA CloseFileLosesDataStep == IInv /\ CloseFileLosesData => IInv'
<1>. SUFFICES ASSUME IInv, CloseFileLosesData PROVE IInv'
  OBVIOUS
<1>1. TypeOK /\ GameSound
  BY DEF IInv
<1>2. phase' \in [doing : Phases, last : BOOLEAN]
  BY <1>1 DEF CloseFileLosesData, Phases, TypeOK
<1>3. temp' \in Files \cup {Broken} /\ (temp' \in Files => FileSound(temp', joined))
  <2>1. CASE temp' = Broken
    BY <2>1, FilesAssumption
  <2>2. ASSUME NEW some \in SUBSET Snapshot.players, temp' = [Snapshot EXCEPT !.players = some]
        PROVE  temp' \in Files /\ FileSound(temp', joined)
    <3>1. Snapshot \in Files /\ FileSound(Snapshot, joined)
      BY <1>1, SnapshotIsSound
    <3>2. /\ temp'.sessionId = Snapshot.sessionId /\ temp'.dogs = Snapshot.dogs
          /\ temp'.players = some /\ temp'.sessionCounter = Snapshot.sessionCounter
          /\ temp'.dogCounter = Snapshot.dogCounter
          /\ temp'.playerCounter = Snapshot.playerCounter
          /\ temp' \in Files
      BY <2>2, <3>1 DEF Files
    <3>3. \A r \in some : ReprSound(temp', r, joined)
      BY <3>1, <3>2 DEF FileSound, ReprSound
    <3>4. Distinguished(some)
      BY <3>1 DEF FileSound, Distinguished
    <3>. QED  BY <3>1, <3>2, <3>3, <3>4 DEF FileSound
  <2>. QED  BY <2>1, <2>2 DEF CloseFileLosesData
<1>4. TypeOK'
  BY <1>1, <1>2, <1>3 DEF TypeOK, CloseFileLosesData, game
<1>5. GameSound'
  BY <1>1 DEF GameSound, IdsSound, PlayerSound, CloseFileLosesData, game
<1>6. TempSound' /\ FinalSound'
  BY <1>3 DEF IInv, TempSound, FinalSound, CloseFileLosesData
<1>7. TempIsSnapshot' /\ FinalIsSaved' /\ SavedPlayersSurvive'
  BY DEF TempIsSnapshot, FinalIsSaved, SavedPlayersSurvive, CloseFileLosesData
<1>. QED  BY <1>4, <1>5, <1>6, <1>7 DEF IInv

\* The game after AfterSave or at the end of a process, which the other
\* variables do not take part in.
LEMMA GameAfter ==
    ASSUME IInv, AfterSave \/ ProcessEnds, UNCHANGED <<life, joined>>
    PROVE  /\ phase' \in {Playing, Down} /\ config' \subseteq Maps
           /\ phase' \in [doing : Phases, last : BOOLEAN] /\ phase'.doing # "written"
           /\ sessionId' \in [Maps -> Nat \cup {NoSession}] /\ dogs' \in [Maps -> SUBSET Nat]
           /\ players' \subseteq Players
           /\ sessionCounter' \in Nat /\ dogCounter' \in Nat /\ playerCounter' \in Nat
           /\ GameSound'
           /\ phase' = Playing => players' = players
<1>1. TypeOK /\ GameSound
  BY DEF IInv
<1>2. /\ Playing \in [doing : Phases, last : BOOLEAN] /\ Playing.doing # "written"
      /\ Down \in [doing : Phases, last : BOOLEAN] /\ Down.doing # "written"
  BY DEF Playing, Down, Phases
<1>3. CASE ProcessEnds
  BY <1>1, <1>2, <1>3, EmptyIsSound DEF ProcessEnds, Playing, Down
<1>4. CASE phase' = Playing /\ UNCHANGED <<config, game>>
  <2>1. GameSound'
    BY <1>1, <1>4 DEF GameSound, IdsSound, PlayerSound, game
  <2>. QED  BY <1>1, <1>2, <1>4, <2>1 DEF TypeOK, game
<1>. QED  BY <1>3, <1>4 DEF AfterSave

LEMMA RenameFileStep == IInv /\ RenameFile => IInv'
<1>. SUFFICES ASSUME IInv, RenameFile PROVE IInv'
  OBVIOUS
<1>1. TypeOK /\ GameSound /\ AfterSave /\ UNCHANGED <<life, joined>>
  BY DEF IInv, RenameFile
<1>2. final' = temp /\ temp' = NoFile /\ saved' = Game
  BY DEF RenameFile
<1>3. TypeOK'
  BY <1>1, <1>2, GameAfter DEF TypeOK, RenameFile
<1>4. GameSound'
  BY <1>1, GameAfter
<1>5. TempSound' /\ FinalSound'
  BY <1>1, <1>2, FilesAssumption DEF IInv, TempSound, FinalSound
<1>6. TempIsSnapshot'
  BY <1>1, GameAfter DEF TempIsSnapshot
<1>7. ASSUME ~ damaged' PROVE final' = Snapshot /\ Snapshot \in Files
  BY <1>1, <1>2, <1>7, SnapshotIsSound DEF IInv, TempIsSnapshot, RenameFile
<1>8. /\ saved'.sessionId = sessionId /\ saved'.dogs = dogs /\ saved'.players = players
  BY <1>2 DEF Game
<1>9. FinalIsSaved'
  <2>. SUFFICES ASSUME ~ damaged'
                PROVE  /\ final' # Broken /\ final' # NoFile
                       /\ final'.sessionId = saved'.sessionId /\ final'.dogs = saved'.dogs
                       /\ saved'.players = {Restored(final', r) : r \in final'.players}
    BY DEF FinalIsSaved, Restored, FindSessionById
  <2>. QED  BY <1>1, <1>7, <1>8, FilesAssumption, SnapshotFields, SnapshotRestores
<1>10. SavedPlayersSurvive'
  <2>. SUFFICES ASSUME ~ damaged', NEW p \in saved'.players
                PROVE  \/ \E q \in players' : q.token = p.token
                       \/ /\ phase' = Down /\ final' # NoFile
                          /\ \E q \in final'.players : q.token = p.token
    BY DEF SavedPlayersSurvive
  <2>1. CASE phase' = Playing
    BY <2>1, <1>1, <1>8, GameAfter
  <2>2. CASE phase' = Down
    <3>1. PlayerRepr(p) \in final'.players /\ PlayerRepr(p).token = p.token
      BY <1>7, <1>8, SnapshotFields DEF PlayerRepr
    <3>. QED  BY <2>2, <3>1, <1>7, FilesAssumption
  <2>. QED  BY <2>1, <2>2, <1>1, GameAfter
<1>. QED  BY <1>3, <1>4, <1>5, <1>6, <1>9, <1>10 DEF IInv

\* A save that fails and a crash: the game goes back to the file, or on.
LEMMA EndStep ==
    ASSUME IInv, AfterSave \/ ProcessEnds, temp' \in {temp, NoFile},
           phase # Down,
           faults' \in 0 .. MaxFaults, UNCHANGED <<life, final, rows, joined, saved, damaged>>
    PROVE  IInv'
<1>1. TypeOK /\ GameSound /\ UNCHANGED <<life, joined>>
  BY DEF IInv
<1>2. TypeOK'
  BY <1>1, GameAfter DEF TypeOK
<1>3. GameSound'
  BY <1>1, GameAfter
<1>4. TempSound' /\ FinalSound'
  BY <1>1, FilesStay DEF IInv, TypeOK
<1>5. TempIsSnapshot' /\ FinalIsSaved'
  BY <1>1, GameAfter, SavedStays DEF IInv, TempIsSnapshot
<1>6. SavedPlayersSurvive'
  <2>. SUFFICES ASSUME ~ damaged, NEW p \in saved.players
                PROVE  \/ \E r \in rows' : r.token = p.token
                       \/ \E q \in players' : q.token = p.token
                       \/ /\ phase' = Down /\ final' # NoFile
                          /\ \E q \in final'.players : q.token = p.token
    BY DEF SavedPlayersSurvive
  <2>1. CASE phase' = Playing
    BY <2>1, <1>1, GameAfter DEF IInv, SavedPlayersSurvive
  <2>2. CASE phase' = Down
    BY <2>2, SavedIsInFile
  <2>. QED  BY <2>1, <2>2, <1>1, GameAfter
<1>. QED  BY <1>2, <1>3, <1>4, <1>5, <1>6 DEF IInv

LEMMA SaveFailsStep == IInv /\ SaveFails => IInv'
<1>. SUFFICES ASSUME IInv, SaveFails PROVE IInv'
  OBVIOUS
<1>1. phase # Down /\ faults' \in 0 .. MaxFaults
  BY RestoreAssumption DEF IInv, SaveFails, TypeOK, Down
<1>. QED  BY <1>1, EndStep DEF SaveFails

LEMMA CrashStep == IInv /\ Crash => IInv'
<1>. SUFFICES ASSUME IInv, Crash PROVE IInv'
  OBVIOUS
<1>1. faults' \in 0 .. MaxFaults
  BY RestoreAssumption DEF IInv, Crash, TypeOK
<1>. QED  BY <1>1, EndStep DEF Crash, files

-----------------------------------------------------------------------------
(* Starting.                                                               *)

\* What a process starts with: the game at the last save that returned.
LEMMA StartsWithSaved ==
    ASSUME IInv, NEW file \in ConfigFiles, Start(file), ~ damaged
    PROVE  sessionId' = saved.sessionId /\ dogs' = saved.dogs /\ players' = saved.players
<1>1. CASE final = NoFile
  <2>1. saved = EmptyGame
    BY <1>1 DEF IInv, FinalIsSaved
  <2>. QED  BY <1>1, <2>1 DEF Start, GameBecomes
<1>2. CASE final # NoFile
  BY <1>2 DEF IInv, FinalIsSaved, Start, LoadState, GameBecomes
<1>. QED  BY <1>1, <1>2

LEMMA StartStep == IInv /\ (\E file \in ConfigFiles : Start(file)) => IInv'
<1>. SUFFICES ASSUME IInv, NEW file \in ConfigFiles, Start(file) PROVE IInv'
  OBVIOUS
<1>1. TypeOK /\ UNCHANGED joined
  BY DEF IInv, Start, history
<1>2. phase' = Playing /\ phase' \in [doing : Phases, last : BOOLEAN] /\ phase'.doing # "written"
  BY DEF Start, Playing, Phases
<1>3. life' \in 0 .. MaxLives /\ config' \subseteq Maps
  BY <1>1, RestoreAssumption, ConfigAssumption DEF TypeOK, Start, Loads
<1>4. /\ sessionId' \in [Maps -> Nat \cup {NoSession}] /\ dogs' \in [Maps -> SUBSET Nat]
      /\ players' \subseteq Players
      /\ sessionCounter' \in Nat /\ dogCounter' \in Nat /\ playerCounter' \in Nat
      /\ GameSound'
  <2>1. CASE final = NoFile
    BY <1>1, <2>1, EmptyIsSound DEF Start
  <2>2. CASE final # NoFile
    <3>1. final \in Files /\ FileSound(final, joined) /\ LoadState(final)
      BY <1>1, <2>2 DEF IInv, TypeOK, FinalSound, Start, StateLoads
    <3>. QED  BY <1>1, <3>1, FileFields, LoadedIsSound
  <2>. QED  BY <2>1, <2>2
<1>5. TypeOK'
  BY <1>1, <1>2, <1>3, <1>4 DEF TypeOK, Start, files, history
<1>6. TempSound' /\ FinalSound'
  BY <1>1, FilesStay DEF IInv, TypeOK, Start, files
<1>7. TempIsSnapshot' /\ FinalIsSaved'
  BY <1>2, SavedStays DEF IInv, TempIsSnapshot, Start, files, history
<1>8. SavedPlayersSurvive'
  BY StartsWithSaved DEF SavedPlayersSurvive, Start, history
<1>. QED  BY <1>4, <1>5, <1>6, <1>7, <1>8 DEF IInv

LEMMA Stays == IInv /\ UNCHANGED <<phase, config, game, files, rows, history>>
                    /\ life' \in 0 .. MaxLives => IInv'
<1>. SUFFICES ASSUME IInv, UNCHANGED <<phase, config, game, files, rows, history>>,
                     life' \in 0 .. MaxLives
              PROVE  IInv'
  OBVIOUS
<1>1. TypeOK'
  BY DEF IInv, TypeOK, game, files, history
<1>2. GameSound'
  BY DEF IInv, GameSound, IdsSound, PlayerSound, game, history
<1>3. TempSound' /\ FinalSound'
  BY FilesStay DEF IInv, TypeOK, files, history
<1>4. TempIsSnapshot' /\ FinalIsSaved'
  <2>1. Snapshot' = Snapshot
    BY DEF Snapshot, Game, PlayerRepr, game
  <2>. QED  BY <2>1, SavedStays DEF IInv, TempIsSnapshot, files, history
<1>5. SavedPlayersSurvive'
  BY DEF IInv, SavedPlayersSurvive, game, files, history
<1>. QED  BY <1>1, <1>2, <1>3, <1>4, <1>5 DEF IInv

LEMMA StartFailsStep == IInv /\ (\E file \in ConfigFiles : StartFails(file)) => IInv'
<1>. SUFFICES ASSUME IInv, NEW file \in ConfigFiles, StartFails(file) PROVE IInv'
  OBVIOUS
<1>1. life' \in 0 .. MaxLives
  BY RestoreAssumption DEF IInv, TypeOK, StartFails
<1>. QED  BY <1>1, Stays DEF StartFails

LEMMA Step == IInv /\ [Next]_vars => IInv'
<1>1. IInv /\ UNCHANGED vars => IInv'
  <2>. SUFFICES ASSUME IInv, UNCHANGED vars PROVE IInv'
    OBVIOUS
  <2>1. life' \in 0 .. MaxLives
    BY DEF IInv, TypeOK, vars, process
  <2>. QED  BY <2>1, Stays DEF vars, process
<1>. QED  BY <1>1, JoinStep, RetireStep, RetireOrphanStep, AnswerLostStep, BeginSaveStep,
             CloseFileStep, CloseFileLosesDataStep, RenameFileStep, SaveFailsStep, CrashStep,
             StartStep, StartFailsStep DEF Next

LEMMA Invariance == Spec => []IInv
BY InitSound, Step, PTL DEF Spec

-----------------------------------------------------------------------------
(* The rows of a player.  Who is in the game, or will be after the next    *)
(* start, has a row for each fault at most, and who is not has one more:   *)
(* it comes back by a fault only, from a file that is older than its row.  *)

RowsOf(t) == {r \in rows : r.token = t}

InGame(t) ==
    \/ phase = Down /\ final \in Files /\ \E r \in final.players : r.token = t
    \/ phase # Down /\ \E p \in players : p.token = t

RowsFinite == IsFiniteSet(rows) /\ \A r \in rows : r.token < joined

RowsCounted ==
    \A t \in Nat : Cardinality(RowsOf(t)) <= faults + (IF InGame(t) THEN 0 ELSE 1)

TempIsOfPlayers ==
    phase.doing = "written" /\ temp \in Files =>
        \A r \in temp.players : \E p \in players : p.token = r.token

RowsInv == RowsFinite /\ RowsCounted /\ TempIsOfPlayers

LEMMA RowsOfFinite ==
    ASSUME RowsFinite, NEW t
    PROVE  IsFiniteSet(RowsOf(t)) /\ Cardinality(RowsOf(t)) \in Nat
BY FS_Subset, FS_CardinalityType DEF RowsFinite, RowsOf

LEMMA RowsInit == Init => RowsInv
<1>. SUFFICES ASSUME Init PROVE RowsInv
  OBVIOUS
<1>1. rows = {}
  BY DEF Init
<1>2. RowsFinite
  BY <1>1, FS_EmptySet DEF RowsFinite
<1>3. \A t : Cardinality(RowsOf(t)) = 0
  BY <1>1, FS_EmptySet DEF RowsOf
<1>4. RowsCounted
  BY <1>3 DEF RowsCounted, Init
<1>5. TempIsOfPlayers
  BY DEF TempIsOfPlayers, Init, Down
<1>. QED  BY <1>2, <1>4, <1>5 DEF RowsInv

\* Without a new row a player comes into the game by a fault, or it is new.
LEMMA RowsStay ==
    ASSUME TypeOK, RowsFinite, RowsCounted, UNCHANGED rows,
           faults' \in {faults, faults + 1}, joined' \in {joined, joined + 1},
           \A t \in Nat : InGame(t)' /\ faults' = faults => InGame(t) \/ t = joined
    PROVE  RowsFinite' /\ RowsCounted'
<1>1. joined \in Nat /\ faults \in Nat /\ \A r \in rows : r.token \in Nat
  BY DEF TypeOK
<1>2. RowsFinite'
  BY <1>1 DEF RowsFinite
<1>3. ASSUME NEW t \in Nat
      PROVE  Cardinality(RowsOf(t)') <= faults' + (IF InGame(t)' THEN 0 ELSE 1)
  <2>1. RowsOf(t)' = RowsOf(t) /\ Cardinality(RowsOf(t)) \in Nat
    BY RowsOfFinite DEF RowsOf
  <2>2. Cardinality(RowsOf(t)) <= faults + (IF InGame(t) THEN 0 ELSE 1)
    BY DEF RowsCounted
  <2>3. CASE t = joined
    <3>1. RowsOf(t) = {}
      BY <1>1, <2>3 DEF RowsOf, RowsFinite
    <3>. QED  BY <1>1, <2>1, <3>1, FS_EmptySet
  <2>4. CASE t # joined
    <3>1. InGame(t)' => InGame(t) \/ faults' = faults + 1
      BY <2>4
    <3>. HIDE DEF InGame
    <3>. QED  BY <1>1, <2>1, <2>2, <3>1
  <2>. QED  BY <2>3, <2>4
<1>. QED  BY <1>2, <1>3 DEF RowsCounted

\* A new row of a player in the game, who leaves it or is one fault older.
LEMMA RowsGrow ==
    ASSUME TypeOK, GameSound, RowsFinite, RowsCounted, phase = Playing, NEW p \in players,
           rows' = rows \cup {Row(p)}, UNCHANGED joined,
           faults' \in {faults, faults + 1},
           faults' = faults => ~ InGame(p.token)',
           \A t \in Nat : InGame(t)' => InGame(t)
    PROVE  RowsFinite' /\ RowsCounted'
<1>1. /\ joined \in Nat /\ faults \in Nat /\ p.token \in Nat /\ p.token < joined
      /\ Row(p).token = p.token
  BY DEF TypeOK, GameSound, PlayerSound, Players, Row
<1>2. RowsFinite'
  BY <1>1, FS_AddElement DEF RowsFinite
<1>3. ASSUME NEW t \in Nat
      PROVE  Cardinality(RowsOf(t)') <= faults' + (IF InGame(t)' THEN 0 ELSE 1)
  <2>1. IsFiniteSet(RowsOf(t)) /\ Cardinality(RowsOf(t)) \in Nat
    BY RowsOfFinite
  <2>2. Cardinality(RowsOf(t)) <= faults + (IF InGame(t) THEN 0 ELSE 1)
    BY DEF RowsCounted
  <2>3. CASE t # p.token
    <3>1. RowsOf(t)' = RowsOf(t)
      BY <1>1, <2>3 DEF RowsOf
    <3>2. InGame(t)' => InGame(t)
      OBVIOUS
    <3>. HIDE DEF InGame
    <3>. QED  BY <1>1, <2>1, <2>2, <3>1, <3>2
  <2>4. CASE t = p.token
    <3>1. RowsOf(t)' = RowsOf(t) \cup {Row(p)}
      BY <1>1, <2>4 DEF RowsOf
    <3>2. Cardinality(RowsOf(t)') \in {Cardinality(RowsOf(t)), Cardinality(RowsOf(t)) + 1}
      BY <2>1, <3>1, FS_AddElement
    <3>3. InGame(t)
      BY <2>4 DEF InGame, Playing, Down
    <3>4. faults' = faults => ~ InGame(t)'
      BY <2>4 DEF InGame
    <3>. HIDE DEF InGame
    <3>. QED  BY <1>1, <2>1, <2>2, <3>2, <3>3, <3>4
  <2>. QED  BY <2>3, <2>4
<1>. QED  BY <1>2, <1>3 DEF RowsCounted

LEMMA RowsStep == IInv /\ RowsInv /\ [Next]_vars => RowsInv'
<1>. SUFFICES ASSUME IInv, RowsInv, [Next]_vars PROVE RowsInv'
  OBVIOUS
<1>1. /\ TypeOK /\ GameSound /\ RowsFinite /\ RowsCounted /\ TempIsOfPlayers
      /\ faults \in Nat /\ joined \in Nat
  BY DEF IInv, RowsInv, TypeOK
<1>. USE DEF RowsInv
<1>2. ASSUME \/ \E m \in Maps : Join(m)
             \/ \E p \in players : Retire(p) \/ AnswerLost(p)
             \/ \E m \in Maps : \E d \in dogs[m] : RetireOrphan(m, d)
      PROVE  RowsInv'
  <2>. phase = Playing /\ UNCHANGED <<process, files>>
    BY <1>2 DEF Join, Retire, AnswerLost, RetireOrphan
  <2>1. TempIsOfPlayers'
    BY DEF TempIsOfPlayers, process, Playing
  <2>2. \A t \in Nat : InGame(t)' <=> \E p \in players' : p.token = t
    BY DEF InGame, process, Playing, Down
  <2>3. \A t \in Nat : InGame(t) <=> \E p \in players : p.token = t
    BY DEF InGame, Playing, Down
  <2>4. ASSUME NEW m \in Maps, Join(m) PROVE RowsInv'
    <3>1. \A t \in Nat : InGame(t)' => InGame(t) \/ t = joined
      BY <2>2, <2>3, <2>4 DEF Join
    <3>2. UNCHANGED <<rows, faults>> /\ joined' = joined + 1
      BY <2>4 DEF Join
    <3>. QED  BY <1>1, <2>1, <3>1, <3>2, RowsStay
  <2>5. ASSUME NEW p \in players, Retire(p) PROVE RowsInv'
    <3>1. \A t \in Nat : InGame(t)' => InGame(t)
      BY <2>2, <2>3, <2>5 DEF Retire
    <3>2. p.token \in Nat /\ \A q \in players' : q.token # p.token
      BY <1>1, <2>5 DEF Retire, GameSound, Distinguished, TypeOK, Players
    <3>3. ~ InGame(p.token)'
      BY <3>2 DEF InGame, process, Playing, Down
    <3>4. rows' = rows \cup {Row(p)} /\ UNCHANGED <<joined, faults>>
      BY <2>5 DEF Retire, history
    <3>. QED  BY <1>1, <2>1, <3>1, <3>3, <3>4, RowsGrow
  <2>6. ASSUME NEW p \in players, AnswerLost(p) PROVE RowsInv'
    <3>1. \A t \in Nat : InGame(t)' => InGame(t)
      BY <2>2, <2>3, <2>6 DEF AnswerLost, game
    <3>2. rows' = rows \cup {Row(p)} /\ UNCHANGED joined /\ faults' = faults + 1
      BY <2>6 DEF AnswerLost
    <3>. QED  BY <1>1, <2>1, <3>1, <3>2, RowsGrow
  <2>7. CASE UNCHANGED <<players, rows, history>>
    <3>1. \A t \in Nat : InGame(t)' => InGame(t)
      BY <2>2, <2>3, <2>7
    <3>. QED  BY <1>1, <2>1, <2>7, <3>1, RowsStay DEF history
  <2>8. ASSUME NEW m \in Maps, NEW d \in dogs[m], RetireOrphan(m, d) PROVE RowsInv'
    BY <2>7, <2>8 DEF RetireOrphan
  <2>. QED  BY <1>2, <2>4, <2>5, <2>6, <2>8
<1>. DEFINE Quiet == /\ UNCHANGED <<rows, joined>> /\ faults' \in {faults, faults + 1}
                     /\ \A t \in Nat : InGame(t)' /\ faults' = faults => InGame(t)
<1>3. ASSUME Quiet, TempIsOfPlayers' PROVE RowsInv'
  BY <1>1, <1>3, RowsStay
<1>4. ASSUME NEW last \in BOOLEAN, BeginSave(last) PROVE RowsInv'
  <2>1. Quiet
    BY <1>1, <1>4 DEF BeginSave, history, game, InGame, Playing, Down
  <2>2. TempIsOfPlayers'
    BY <1>4 DEF BeginSave, TempIsOfPlayers
  <2>. QED  BY <1>3, <2>1, <2>2
<1>5. ASSUME CloseFile \/ CloseFileLosesData PROVE RowsInv'
  <2>1. phase # Down /\ phase' # Down
    BY <1>1, <1>5 DEF CloseFile, CloseFileLosesData, TypeOK, Down
  <2>2. Quiet
    BY <1>1, <1>5, <2>1 DEF CloseFile, CloseFileLosesData, history, game, InGame
  <2>3. ASSUME temp' \in Files PROVE temp'.players \subseteq {PlayerRepr(p) : p \in players}
    <3>1. temp' # Broken
      BY <2>3, FilesAssumption
    <3>2. \A some : [Snapshot EXCEPT !.players = some].players = some
      BY SnapshotFields
    <3>. QED  BY <1>5, <3>1, <3>2, SnapshotFields DEF CloseFile, CloseFileLosesData
  <2>4. \A p \in players : PlayerRepr(p).token = p.token
    BY DEF PlayerRepr
  <2>5. players' = players
    BY <1>5 DEF CloseFile, CloseFileLosesData, game
  <2>6. TempIsOfPlayers'
    BY <2>3, <2>4, <2>5 DEF TempIsOfPlayers
  <2>. QED  BY <1>3, <2>2, <2>6
<1>6. CASE RenameFile
  <2>1. phase # Down /\ phase.doing = "written" /\ AfterSave
    BY <1>6 DEF RenameFile, Down
  <2>2. ASSUME NEW t \in Nat, InGame(t)' PROVE InGame(t)
    <3>1. CASE phase' = Playing /\ players' = players
      BY <2>1, <2>2, <3>1 DEF InGame, Playing, Down
    <3>2. CASE phase' = Down
      BY <1>1, <1>6, <2>1, <2>2, <3>2 DEF InGame, TempIsOfPlayers, RenameFile
    <3>. QED  BY <2>1, <3>1, <3>2 DEF AfterSave, ProcessEnds, game
  <2>3. Quiet
    BY <1>1, <1>6, <2>2 DEF RenameFile
  <2>4. TempIsOfPlayers'
    BY <1>6, FilesAssumption DEF RenameFile, TempIsOfPlayers
  <2>. QED  BY <1>3, <2>3, <2>4
<1>7. CASE SaveFails
  <2>1. phase # Down
    BY <1>7 DEF SaveFails, Down
  <2>2. CASE phase.last
    <3>1. faults' = faults + 1
      BY <1>7, <2>2 DEF SaveFails
    <3>2. Quiet
      BY <1>1, <1>7, <3>1 DEF SaveFails
    <3>. QED  BY <1>3, <1>7, <3>2, FilesAssumption DEF SaveFails, TempIsOfPlayers
  <2>3. CASE ~ phase.last
    <3>1. Quiet
      BY <1>1, <1>7, <2>1, <2>3 DEF SaveFails, AfterSave, InGame, game, Playing, Down
    <3>. QED  BY <1>3, <1>7, <3>1, FilesAssumption DEF SaveFails, TempIsOfPlayers
  <2>. QED  BY <2>2, <2>3
<1>8. CASE Crash
  <2>1. Quiet
    BY <1>1, <1>8 DEF Crash
  <2>2. TempIsOfPlayers'
    BY <1>8 DEF Crash, ProcessEnds, TempIsOfPlayers, Down
  <2>. QED  BY <1>3, <2>1, <2>2
<1>9. ASSUME NEW file \in ConfigFiles, Start(file) PROVE RowsInv'
  <2>1. phase = Down /\ phase' # Down /\ phase'.doing # "written"
    BY <1>9 DEF Start, Down, Playing
  <2>2. ASSUME NEW t \in Nat, InGame(t)' PROVE InGame(t)
    <3>1. PICK p \in players' : p.token = t
      BY <2>1, <2>2 DEF InGame
    <3>2. final # NoFile /\ final # Broken /\ LoadState(final)
      BY <1>9, <3>1 DEF Start, GameBecomes, EmptyGame, StateLoads
    <3>3. players' = {Restored(final, r) : r \in final.players}
      BY <3>2 DEF LoadState, GameBecomes
    <3>4. PICK r \in final.players : p = Restored(final, r)
      BY <3>1, <3>3
    <3>5. r.token = t
      BY <3>1, <3>4, RestoredFields
    <3>. QED  BY <1>1, <2>1, <3>2, <3>5 DEF InGame, TypeOK
  <2>3. Quiet
    BY <1>1, <1>9, <2>2 DEF Start, history
  <2>4. TempIsOfPlayers'
    BY <2>1 DEF TempIsOfPlayers
  <2>. QED  BY <1>3, <2>3, <2>4
<1>10. CASE UNCHANGED <<phase, players, files, rows, history>>
  <2>1. Quiet
    BY <1>1, <1>10 DEF InGame, files, history
  <2>2. TempIsOfPlayers'
    BY <1>1, <1>10 DEF TempIsOfPlayers, files
  <2>. QED  BY <1>3, <2>1, <2>2
<1>11. ASSUME NEW file \in ConfigFiles, StartFails(file) PROVE RowsInv'
  BY <1>10, <1>11 DEF StartFails, game
<1>12. CASE UNCHANGED vars
  BY <1>10, <1>12 DEF vars, process, game
<1>. QED
  BY <1>2, <1>4, <1>5, <1>6, <1>7, <1>8, <1>9, <1>11, <1>12
  DEF Next

LEMMA RowsInvariance == Spec => []RowsInv
BY RowsInit, Invariance, RowsStep, PTL DEF Spec

-----------------------------------------------------------------------------
(* The theorems.                                                           *)

(***************************************************************************)
(* Types of the game, the files and the rows.                              *)
(***************************************************************************)
THEOREM RestoreTypeCorrect == Spec => []TypeOK
<1>1. IInv => TypeOK
  BY DEF IInv
<1>. QED  BY <1>1, Invariance, PTL

(***************************************************************************)
(* However often the server is restarted, and whatever is lost with the    *)
(* end of a file, the ids of sessions, dogs and players and the tokens     *)
(* stay unique.                                                            *)
(***************************************************************************)
THEOREM IdsAlwaysUnique == Spec => []IdsStayUnique
<1>1. IInv => IdsStayUnique
  BY DEF IInv, GameSound, IdsSound, Distinguished, PlayerSound, IdsStayUnique
<1>. QED  BY <1>1, Invariance, PTL

(***************************************************************************)
(* PlayerRepr::Restore finds the session and the dog of every player, in   *)
(* every file that can be read.                                            *)
(***************************************************************************)
THEOREM FilesCanBeRestored == Spec => []FileCanBeRestored
<1>1. IInv => FileCanBeRestored
  <2>. SUFFICES ASSUME IInv, final \notin {NoFile, Broken}, NEW r \in final.players
                PROVE  \E m \in Maps : /\ {n \in Maps : final.sessionId[n] = r.session} = {m}
                                       /\ r.dog \in final.dogs[m]
    BY DEF FileCanBeRestored
  <2>1. final \in Files /\ FileSound(final, joined)
    BY DEF IInv, TypeOK, FinalSound
  <2>2. PICK m \in Maps : final.sessionId[m] = r.session /\ r.dog \in final.dogs[m]
    BY <2>1 DEF FileSound, ReprSound
  <2>3. r.session # NoSession
    BY <2>1, FileFields, MapsAssumption DEF PlayerReprs
  <2>4. \A n \in Maps : final.sessionId[n] = r.session => n = m
    BY <2>1, <2>2, <2>3 DEF FileSound, IdsSound
  <2>. QED  BY <2>2, <2>4
<1>. QED  BY <1>1, Invariance, PTL

(***************************************************************************)
(* The state file is whole in whichever step of a save the process ends.   *)
(***************************************************************************)
THEOREM FileAlwaysWhole == Spec => []FileIsWhole
<1>1. IInv => FileIsWhole
  BY DEF IInv, FinalIsSaved, FileIsWhole
<1>. QED  BY <1>1, Invariance, PTL

(***************************************************************************)
(* Nobody who was saved is lost: every player of the last save is playing, *)
(* in the file of a server that is down, or in the database.               *)
(***************************************************************************)
THEOREM SavedPlayersAlwaysSurvive == Spec => []SavedPlayersSurvive
<1>1. IInv => SavedPlayersSurvive
  BY DEF IInv
<1>. QED  BY <1>1, Invariance, PTL

(***************************************************************************)
(* A process starts with exactly the game of the last save that returned.  *)
(***************************************************************************)
THEOREM AlwaysStartsWhereSaved == Spec => StartsWhereSaved
<1>. DEFINE Same == sessionId' = saved.sessionId /\ dogs' = saved.dogs /\ players' = saved.players
<1>1. IInv /\ [Next]_vars => [phase = Down /\ phase' = Playing /\ ~ damaged => Same]_vars
  <2>. SUFFICES ASSUME IInv, Next, phase = Down, phase' = Playing, ~ damaged PROVE Same
    OBVIOUS
  <2>1. PICK file \in ConfigFiles : Start(file)
    BY DEF Next, Join, Retire, AnswerLost, RetireOrphan, BeginSave, CloseFile,
           CloseFileLosesData, RenameFile, SaveFails, Crash, StartFails, Down, Playing, process
  <2>. QED  BY <2>1, StartsWithSaved
<1>. QED  BY <1>1, Invariance, PTL DEF Spec, StartsWhereSaved

(***************************************************************************)
(* A player has one row, and one more for each fault at most.              *)
(***************************************************************************)
THEOREM RowsAlwaysPerFault == Spec => []RowsPerPlayer
<1>1. IInv /\ RowsInv => RowsPerPlayer
  <2>. SUFFICES ASSUME IInv, RowsInv, NEW t \in 0 .. joined - 1
                PROVE  Cardinality({r \in rows : r.token = t}) <= 1 + faults
    BY DEF RowsPerPlayer
  <2>1. t \in Nat /\ faults \in Nat
    BY DEF IInv, TypeOK
  <2>2. Cardinality(RowsOf(t)) \in Nat
    BY RowsOfFinite DEF RowsInv
  <2>3. Cardinality(RowsOf(t)) <= faults + (IF InGame(t) THEN 0 ELSE 1)
    BY <2>1 DEF RowsInv, RowsCounted
  <2>4. Cardinality(RowsOf(t)) <= 1 + faults
    BY <2>1, <2>2, <2>3
  <2>. QED  BY <2>4 DEF RowsOf
<1>. QED  BY <1>1, Invariance, RowsInvariance, PTL
=============================================================================
