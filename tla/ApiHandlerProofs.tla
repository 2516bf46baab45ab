--------------------------- MODULE ApiHandlerProofs ---------------------------
(***************************************************************************)
(* Proofs about ApiHandler, for any maps, times and bounds: the API drives *)
(* the game by its own steps only, tokens expire with a recorded           *)
(* retirement, a client sees a consistent session, and a tick answered     *)
(* with 200 was a whole update.                                            *)
(***************************************************************************)
EXTENDS ApiHandler, GameProofs

-----------------------------------------------------------------------------
LEMMA ApiStepIsGameStep == [ApiNext]_apiVars => [Next]_vars
<1>. SUFFICES ASSUME [ApiNext]_apiVars PROVE [Next]_vars
  OBVIOUS
<1>. USE DEF Say
<1>1. ASSUME NotRouted \/ Unauthorized PROVE UNCHANGED vars
  BY <1>1 DEF NotRouted, Unauthorized, ReadsBeyondEnd
<1>2. ASSUME NEW target, MapsResponse(target) PROVE UNCHANGED vars
  BY <1>2 DEF MapsResponse
<1>3. ASSUME GetRecordsResponse \/ JoinRefused \/ TickRefused PROVE UNCHANGED vars
  BY <1>3 DEF GetRecordsResponse, JoinRefused, TickRefused, BadBody
<1>4. ASSUME NEW m \in Maps, JoinGameResponse(m) PROVE Next
  BY <1>4 DEF JoinGameResponse, Next, Requests
<1>5. ASSUME NEW token \in Fresh, ActionRefused(token) PROVE UNCHANGED vars
  BY <1>5 DEF ActionRefused, ReadsBeyondEnd, BadBody
<1>6. ASSUME NEW token \in Fresh, NEW go \in BOOLEAN, PlayerActionResponse(token, go) PROVE Next
  BY <1>6 DEF PlayerActionResponse, FindPlayerByToken, Next, Requests
<1>7. ASSUME NEW token \in Fresh, GetStateResponse(token) \/ GetPlayersResponse(token)
      PROVE  UNCHANGED vars
  BY <1>7 DEF GetStateResponse, GetPlayersResponse
<1>8. ASSUME Update PROVE Next
  BY <1>8 DEF Update, Next
<1>9. ASSUME UNCHANGED apiVars PROVE UNCHANGED vars
  BY <1>9 DEF apiVars
<1>. QED
  BY <1>1, <1>2, <1>3, <1>4, <1>5, <1>6, <1>7, <1>8, <1>9 DEF ApiNext

(* Requests, well formed or not, change the game by its own steps only.    *)
THEOREM ApiImplementsGame == ApiSpec => GameSpec
<1>1. ApiInit => Init
  BY DEF ApiInit
<1>. QED  BY <1>1, ApiStepIsGameStep, PTL DEF ApiSpec, GameSpec, Spec

LEMMA GameInvariance == ApiSpec => []IInv
BY ApiImplementsGame, Invariance, PTL DEF GameSpec

-----------------------------------------------------------------------------
(* The steps after which the properties say something.                     *)
Told == {"unknownToken", "state", "tick"}

LEMMA AnswerKinds ==
    ASSUME ApiNext
    PROVE  \/ answer'.about \notin Told
           \/ \E token \in Fresh : /\ FindPlayerByToken(token) = {}
                                   /\ Say(Answer(401, "unknownToken", token))
           \/ \E token \in Fresh : GetStateResponse(token)
           \/ Update
<1>. USE DEF Say, Answer, Told
<1>1. ASSUME NotRouted PROVE answer'.about \notin Told
  BY <1>1 DEF NotRouted, Refusals
<1>2. ASSUME Unauthorized
      PROVE  \/ answer'.about \notin Told
             \/ \E token \in Fresh : /\ FindPlayerByToken(token) = {}
                                     /\ Say(Answer(401, "unknownToken", token))
  BY <1>2 DEF Unauthorized, ReadsBeyondEnd, NoAnswer
<1>3. ASSUME NEW target \in {"maps", "map"}, MapsResponse(target) PROVE answer'.about \notin Told
  BY <1>3 DEF MapsResponse
<1>4. ASSUME GetRecordsResponse PROVE answer'.about \notin Told
  BY <1>4 DEF GetRecordsResponse
<1>5. ASSUME JoinRefused \/ TickRefused PROVE answer'.about \notin Told
  BY <1>5 DEF JoinRefused, TickRefused, BadBody
<1>6. ASSUME NEW m \in Maps, JoinGameResponse(m) PROVE answer'.about \notin Told
  BY <1>6 DEF JoinGameResponse
<1>7. ASSUME NEW token \in Fresh, ActionRefused(token) PROVE answer'.about \notin Told
  BY <1>7 DEF ActionRefused, ReadsBeyondEnd, BadBody, NoAnswer
<1>8. ASSUME NEW token \in Fresh, NEW go \in BOOLEAN, PlayerActionResponse(token, go)
      PROVE  answer'.about \notin Told
  BY <1>8 DEF PlayerActionResponse
<1>9. ASSUME NEW token \in Fresh, GetPlayersResponse(token) PROVE answer'.about \notin Told
  BY <1>9 DEF GetPlayersResponse
<1>. QED
  BY <1>1, <1>2, <1>3, <1>4, <1>5, <1>6, <1>7, <1>8, <1>9 DEF ApiNext

LEMMA UpdateAnswers ==
    ASSUME Update
    PROVE  answer'.about \notin {"unknownToken", "state"}
BY DEF Update, TickAnswer, NoAnswer, Answer

-----------------------------------------------------------------------------
(* The players that ever joined: those in the game are among them, and a   *)
(* token or a dog was given to one of them only.                           *)
JoinedInv ==
    /\ players \subseteq joined /\ joined \subseteq Players
    /\ \A p \in joined : p.token < fresh /\ p.dog < dogCounter
    /\ \A p, q \in joined : p.token = q.token \/ p.dog = q.dog => p = q

(* Players come by joining only, and the counters never go back.           *)
LEMMA PeopleStep ==
    ASSUME [ApiNext]_apiVars, IInv
    PROVE  \/ \E m \in Maps : JoinGameResponse(m)
           \/ /\ joined' = joined /\ players' \subseteq players
              /\ fresh' = fresh /\ dogCounter' = dogCounter
<1>. DEFINE Same == /\ joined' = joined /\ players' \subseteq players
                    /\ fresh' = fresh /\ dogCounter' = dogCounter
<1>1. ASSUME UNCHANGED <<joined, vars>> PROVE Same
  BY <1>1 DEF vars, people
<1>2. ASSUME Update PROVE Same
  <2>1. joined' = joined /\ (UpdateStep \/ SaveSucceeds \/ SaveFails)
    BY <1>2 DEF Update
  <2>2. ASSUME NEW d \in DogIds, Retire(d) PROVE Same
    BY <2>1, <2>2 DEF Retire, RemovePlayerFromGameByDogId
  <2>3. ASSUME \/ BeginUpdate \/ \E m \in Maps : VisitSession(m)
               \/ \E d \in DogIds, i \in LootIds : CollectLoot(d, i)
               \/ \E d \in DogIds : ReleaseLoot(d)
        PROVE  Same
    BY <2>1, <2>3 DEF BeginUpdate, VisitSession, CollectLoot, ReleaseLoot, people
  <2>4. ASSUME \/ EndGather \/ \E d \in DogIds, committed \in BOOLEAN : RetireFails(d, committed)
               \/ EndSession \/ EndUpdate \/ SaveSucceeds \/ SaveFails
        PROVE  Same
    BY <2>1, <2>4 DEF EndGather, RetireFails, EndSession, EndUpdate, SaveSucceeds, SaveFails, people
  <2>. QED  BY <2>1, <2>2, <2>3, <2>4 DEF UpdateStep
<1>3. ASSUME NEW token \in Fresh, NEW go \in BOOLEAN, PlayerActionResponse(token, go) PROVE Same
  BY <1>3 DEF PlayerActionResponse, Act, people
<1>4. ASSUME NotRouted \/ Unauthorized \/ \E target \in {"maps", "map"} : MapsResponse(target)
      PROVE  UNCHANGED <<joined, vars>>
  BY <1>4 DEF NotRouted, Unauthorized, MapsResponse, ReadsBeyondEnd, Say
<1>5. ASSUME GetRecordsResponse \/ JoinRefused \/ TickRefused PROVE UNCHANGED <<joined, vars>>
  BY <1>5 DEF GetRecordsResponse, JoinRefused, TickRefused, BadBody, Say
<1>6. ASSUME NEW token \in Fresh,
             ActionRefused(token) \/ GetStateResponse(token) \/ GetPlayersResponse(token)
      PROVE  UNCHANGED <<joined, vars>>
  BY <1>6 DEF ActionRefused, GetStateResponse, GetPlayersResponse, ReadsBeyondEnd, BadBody, Say
<1>7. ASSUME UNCHANGED apiVars PROVE UNCHANGED <<joined, vars>>
  BY <1>7 DEF apiVars
<1>. HIDE DEF Same
<1>8. (\E m \in Maps : JoinGameResponse(m)) \/ Same
  BY <1>1, <1>2, <1>3, <1>4, <1>5, <1>6, <1>7 DEF ApiNext
<1>. QED  BY <1>8 DEF Same

LEMMA JoinedStep ==
    ASSUME JoinedInv, IInv, [ApiNext]_apiVars
    PROVE  JoinedInv'
<1>1. ASSUME NEW m \in Maps, JoinGameResponse(m) PROVE JoinedInv'
  <2>. DEFINE new == NewPlayer(m)
  <2>1. /\ players' = players \cup {new} /\ joined' = joined \cup {new}
        /\ new.token = fresh /\ new.dog = dogCounter
        /\ fresh' = fresh + 1 /\ dogCounter' = dogCounter + 1
    BY <1>1 DEF JoinGameResponse, Join, NewPlayer
  <2>2. new \in Players /\ fresh \in Int /\ dogCounter \in Int
    BY <1>1, BoundsAssumption
    DEF JoinGameResponse, Join, NewPlayer, Players, DogIds, Fresh, IInv, TypeOK
  <2>. HIDE DEF new
  <2>3. \A p \in joined : /\ p.token \in Int /\ p.dog \in Int
                          /\ p.token < fresh /\ p.dog < dogCounter
    BY DEF JoinedInv, Players, DogIds, Fresh
  <2>4. players' \subseteq joined' /\ joined' \subseteq Players
    BY <2>1, <2>2 DEF JoinedInv
  <2>5. \A p \in joined' : p.token < fresh' /\ p.dog < dogCounter'
    BY <2>1, <2>2, <2>3
  <2>6. \A p \in joined : p.token # new.token /\ p.dog # new.dog
    BY <2>1, <2>2, <2>3
  <2>7. \A p, q \in joined' : p.token = q.token \/ p.dog = q.dog => p = q
    BY <2>1, <2>6 DEF JoinedInv
  <2>. QED  BY <2>4, <2>5, <2>7 DEF JoinedInv
<1>2. CASE /\ joined' = joined /\ players' \subseteq players
           /\ fresh' = fresh /\ dogCounter' = dogCounter
  BY <1>2 DEF JoinedInv
<1>. QED  BY <1>1, <1>2, PeopleStep

(* A player that joined and is not in the game is on the leaderboard.      *)
LEMMA GoneIsRecorded ==
    ASSUME JoinedInv, IInv, NEW p \in joined, p \notin players
    PROVE  uuid[p.dog] \in recorded /\ board[uuid[p.dog]] = delivered[p.dog]
<1>1. p.dog \in DogIds /\ p.dog < dogCounter
  BY DEF JoinedInv, Players
<1>2. p.dog \notin Live
  BY DEF JoinedInv, IInv, PlayersMatchDogs, Live
<1>. QED  BY <1>1, <1>2 DEF IInv, NobodyVanishes

LEMMA UnknownStep ==
    ASSUME UnknownIsRecorded, JoinedInv, IInv, [ApiNext]_apiVars
    PROVE  UnknownIsRecorded'
<1>1. CASE UNCHANGED apiVars
  BY <1>1 DEF UnknownIsRecorded, apiVars, vars, people, goods, table
<1>2. CASE answer'.about # "unknownToken"
  BY <1>2 DEF UnknownIsRecorded
<1>3. ASSUME NEW token \in Fresh, FindPlayerByToken(token) = {},
             Say(Answer(401, "unknownToken", token))
      PROVE  UnknownIsRecorded'
  <2>1. answer'.token = token /\ UNCHANGED <<joined, players, uuid, recorded, board, delivered>>
    BY <1>3 DEF Say, Answer, vars, people, goods, table
  <2>2. \A p \in joined : p.token = token => p \notin players
    BY <1>3 DEF FindPlayerByToken
  <2>. QED  BY <2>1, <2>2, GoneIsRecorded DEF UnknownIsRecorded
<1>4. CASE \E token \in Fresh : GetStateResponse(token)
  <2>1. answer'.about = "state"
    BY <1>4 DEF GetStateResponse, Say, Answer
  <2>. QED  BY <2>1 DEF UnknownIsRecorded
<1>5. CASE Update
  BY <1>5, UpdateAnswers DEF UnknownIsRecorded
<1>. QED  BY <1>1, <1>2, <1>3, <1>4, <1>5, AnswerKinds DEF Told

(* Tokens expire with a retirement that was recorded, and in no other way. *)
THEOREM UnknownTokensAreRecorded == ApiSpec => []UnknownIsRecorded
<1>1. ApiInit => JoinedInv /\ UnknownIsRecorded
  BY DEF ApiInit, Init, JoinedInv, UnknownIsRecorded
<1>2. JoinedInv /\ UnknownIsRecorded /\ IInv /\ [ApiNext]_apiVars
      => (JoinedInv /\ UnknownIsRecorded)'
  BY JoinedStep, UnknownStep
<1>. QED  BY <1>1, <1>2, GameInvariance, PTL DEF ApiSpec

-----------------------------------------------------------------------------
LEMMA SeenStep ==
    ASSUME SeenIsConsistent, IInv, [ApiNext]_apiVars
    PROVE  SeenIsConsistent'
<1>1. CASE UNCHANGED apiVars
  BY <1>1 DEF SeenIsConsistent, apiVars, vars, people
<1>2. CASE answer'.about # "state"
  BY <1>2 DEF SeenIsConsistent
<1>3. ASSUME NEW token \in Fresh, GetStateResponse(token) PROVE SeenIsConsistent'
  <2>1. PICK p \in players : /\ p.token = token /\ answer'.token = token
                             /\ answer'.seen = Seen(p) /\ UNCHANGED players
    BY <1>3 DEF GetStateResponse, FindPlayerByToken, Say, Answer, vars, people
  <2>. DEFINE S == Seen(p).players
              View(q) == [id |-> q.id, bag |-> bag[q.dog], score |-> delivered[q.dog]]
  <2>2. /\ \A s \in S : \E q \in players : q.map = p.map /\ s = View(q)
        /\ \E s \in S : s.id = p.id
        /\ Seen(p).lostObjects = loot[p.map]
    <3>1. S = {View(q) : q \in FindPlayersInSession(p)} /\ Seen(p).lostObjects = loot[p.map]
      BY DEF Seen
    <3>. HIDE DEF S
    <3>2. View(p).id = p.id /\ p \in FindPlayersInSession(p)
      BY DEF FindPlayersInSession
    <3>. QED  BY <3>1, <3>2 DEF FindPlayersInSession
  <2>3. p.map \in Maps /\ \A q \in players : q.dog \in DogIds
    BY DEF IInv, TypeOK, Players
  <2>4. ASSUME NEW s \in S, NEW t \in S, s.id = t.id PROVE s = t
    <3>1. PICK q \in players : s = View(q)
      BY <2>2
    <3>2. PICK r \in players : t = View(r)
      BY <2>2
    <3>3. q.id = r.id
      BY <2>4, <3>1, <3>2
    <3>. QED  BY <3>1, <3>2, <3>3 DEF IInv, PlayersMatchDogs
  <2>5. ASSUME NEW s \in S, NEW t \in S, s # t
        PROVE  (s.bag \cup s.score) \cap (t.bag \cup t.score) = {}
    <3>1. PICK q \in players : s = View(q)
      BY <2>2
    <3>2. PICK r \in players : t = View(r)
      BY <2>2
    <3>3. q.dog # r.dog
      BY <2>5, <3>1, <3>2 DEF IInv, PlayersMatchDogs
    <3>. QED  BY <2>3, <3>1, <3>2, <3>3 DEF IInv, LootInOnePlace
  <2>6. ASSUME NEW s \in S
        PROVE  /\ s.bag \cap s.score = {}
               /\ (s.bag \cup s.score) \cap loot[p.map] = {}
    <3>1. PICK q \in players : s = View(q)
      BY <2>2
    <3>. QED  BY <2>3, <3>1 DEF IInv, LootInOnePlace
  <2>. HIDE DEF S
  <2>. QED
    BY <2>1, <2>2, <2>4, <2>5, <2>6 DEF SeenIsConsistent, S
<1>4. ASSUME NEW token \in Fresh, Say(Answer(401, "unknownToken", token))
      PROVE  answer'.about # "state"
  BY <1>4 DEF Say, Answer
<1>5. CASE Update
  BY <1>5, UpdateAnswers DEF SeenIsConsistent
<1>. QED  BY <1>1, <1>2, <1>3, <1>4, <1>5, AnswerKinds DEF Told

(* A client always sees a consistent session.                              *)
THEOREM StatesAreConsistent == ApiSpec => []SeenIsConsistent
<1>1. ApiInit => SeenIsConsistent
  BY DEF ApiInit, SeenIsConsistent, NoAnswer, Answer
<1>. QED  BY <1>1, SeenStep, GameInvariance, PTL DEF ApiSpec
-----------------------------------------------------------------------------
(* The sessions the loop of Update is through with hold nobody who has     *)
(* been inactive for the retirement time: the loop moves no dog of another *)
(* session, and leaves a session only when its inactive dogs are gone.     *)
LoopInv ==
    /\ phase \in {"idle", "update", "save"} => current = NoMap
    /\ phase = "save" => todo = {} /\ saveTimer >= SaveInterval
    /\ phase # "idle" => \A m \in Maps \ (todo \cup {current}) : Inactive(m) = {}

LEMMA UpdateStepLoopInv ==
    ASSUME LoopInv, IInv, UpdateStep
    PROVE  LoopInv'
<1>. USE DEF LoopInv
<1>1. CASE BeginUpdate
  <2>1. /\ phase' = "update" /\ todo' = sessions /\ current' = current /\ current = NoMap
        /\ UNCHANGED <<dogs, inactivity>>
    BY <1>1 DEF BeginUpdate, ground, motion
  <2>2. \A m \in Maps \ sessions : dogs[m] = {}
    BY DEF IInv, PlayersMatchDogs
  <2>. QED  BY <2>1, <2>2 DEF Inactive
<1>2. ASSUME NEW m \in Maps, VisitSession(m) PROVE LoopInv'
  <2>1. /\ phase = "update" /\ phase' = "gather" /\ current' = m /\ todo' = todo \ {m}
        /\ current = NoMap /\ dogs' = dogs
        /\ \A d \in DogIds : d \notin dogs[m] => inactivity'[d] = inactivity[d]
    BY <1>2 DEF VisitSession, MoveDogs
  <2>2. ASSUME NEW n \in Maps \ (todo' \cup {m}) PROVE Inactive(n)' = {}
    <3>1. n \notin todo /\ n # NoMap /\ n # m
      BY <2>1, <2>2, MapsAssumption
    <3>2. Inactive(n) = {}
      BY <2>1, <3>1
    <3>3. \A d \in dogs[n] : d \in DogIds /\ d \notin dogs[m]
      BY <3>1, OneSession DEF IInv, TypeOK
    <3>. QED  BY <2>1, <3>2, <3>3 DEF Inactive
  <2>. QED  BY <2>1, <2>2
<1>3. ASSUME NEW d \in DogIds, (\E i \in LootIds : CollectLoot(d, i)) \/ ReleaseLoot(d)
      PROVE  LoopInv'
  <2>1. phase = "gather" /\ UNCHANGED <<phase, todo, current, dogs, inactivity>>
    BY <1>3 DEF CollectLoot, ReleaseLoot, ground, motion, loop
  <2>. QED  BY <2>1 DEF Inactive
<1>4. CASE EndGather
  <2>1. /\ phase = "gather" /\ phase' = "retire"
        /\ UNCHANGED <<todo, current, dogs, inactivity>>
    BY <1>4 DEF EndGather, ground, motion
  <2>. QED  BY <2>1 DEF Inactive
<1>5. ASSUME NEW d \in DogIds, Retire(d) PROVE LoopInv'
  <2>1. /\ phase = "retire" /\ UNCHANGED <<phase, todo, current, inactivity>>
        /\ \A m \in Maps : dogs'[m] \subseteq dogs[m]
    BY <1>5 DEF Retire, RemovePlayerFromGameByDogId, motion
  <2>. QED  BY <2>1 DEF Inactive
<1>6. ASSUME NEW d \in DogIds, NEW committed \in BOOLEAN, RetireFails(d, committed)
      PROVE  LoopInv'
  BY <1>6 DEF RetireFails
<1>7. CASE EndSession
  <2>1. /\ phase = "retire" /\ phase' = "update" /\ current' = NoMap
        /\ UNCHANGED <<todo, inactivity>> /\ leaving = {}
        /\ dogs' = [dogs EXCEPT ![current] = @ \ Inactive(current)]
    BY <1>7 DEF EndSession, motion
  <2>2. Inactive(current) = {} /\ dogs' = dogs
    BY <2>1 DEF IInv, TypeOK, LoopShape
  <2>. QED  BY <2>1, <2>2 DEF Inactive
<1>8. CASE EndUpdate
  <2>1. /\ phase = "update" /\ todo = {} /\ phase' \in {"save", "idle"}
        /\ phase' = "save" => saveTimer' >= SaveInterval
        /\ UNCHANGED <<todo, current, dogs, inactivity>>
    BY <1>8 DEF EndUpdate, ground, motion
  <2>. QED  BY <2>1 DEF Inactive
<1>. QED  BY <1>1, <1>2, <1>3, <1>4, <1>5, <1>6, <1>7, <1>8 DEF UpdateStep

LEMMA LoopStep ==
    ASSUME LoopInv, IInv, [Next]_vars
    PROVE  LoopInv'
<1>1. ASSUME NEW m \in Maps, Join(m) PROVE LoopInv'
  BY <1>1 DEF Join, loop, LoopInv
<1>2. ASSUME NEW p \in players, NEW go \in BOOLEAN, Act(p, go) PROVE LoopInv'
  BY <1>2 DEF Act, loop, LoopInv
<1>3. CASE SaveSucceeds \/ SaveFails
  BY <1>3 DEF SaveSucceeds, SaveFails, LoopInv
<1>4. CASE UNCHANGED vars
  BY <1>4 DEF vars, ground, motion, loop, LoopInv, Inactive
<1>. QED  BY <1>1, <1>2, <1>3, <1>4, UpdateStepLoopInv DEF Next, Requests

(* An update that is answered with 200 ended at its end.                   *)
LEMMA WholeUpdate ==
    ASSUME LoopInv, IInv, Update, answer'.about = "tick"
    PROVE  /\ phase \in {"update", "save"} /\ todo = {} /\ current = NoMap
           /\ UNCHANGED <<dogs, inactivity>>
           /\ saveTimer' < SaveInterval \/ saveTimer' = 0
<1>. USE DEF TickAnswer, NoAnswer, Answer
<1>1. CASE SaveSucceeds
  BY <1>1 DEF SaveSucceeds, ground, motion, LoopInv
<1>2. CASE SaveFails /\ answer' = TickAnswer(TRUE)
  BY <1>2
<1>3. CASE /\ UpdateStep
           /\ answer' = IF phase # "idle" /\ phase' = "idle" THEN TickAnswer(phase = "retire")
                        ELSE NoAnswer
  <2>1. phase # "idle" /\ phase' = "idle" /\ phase # "retire"
    BY <1>3
  <2>2. EndUpdate
    BY <1>3, <2>1 DEF UpdateStep, BeginUpdate, VisitSession, CollectLoot, ReleaseLoot, EndGather,
       Retire, RetireFails, EndSession, loop
  <2>3. saveTimer' < SaveInterval
    <3>1. /\ saveTimer' = IF saveTimer < SaveInterval THEN saveTimer + 1 ELSE SaveInterval
          /\ ~ saveTimer' >= SaveInterval
      BY <2>1, <2>2 DEF EndUpdate
    <3>. QED  BY <3>1, TimesAssumption DEF IInv, TypeOK
  <2>. QED  BY <2>2, <2>3 DEF EndUpdate, ground, motion, LoopInv
<1>. QED  BY <1>1, <1>2, <1>3 DEF Update

LEMMA TickStep ==
    ASSUME TickIsWhole, LoopInv, IInv, [ApiNext]_apiVars
    PROVE  TickIsWhole'
<1>1. CASE UNCHANGED apiVars
  BY <1>1 DEF TickIsWhole, apiVars, vars, ground, motion, loop, Inactive
<1>2. CASE answer'.about # "tick"
  BY <1>2 DEF TickIsWhole
<1>3. CASE Update /\ answer'.about = "tick"
  <2>1. \A m \in Maps : Inactive(m) = {}
    BY <1>3, WholeUpdate, MapsAssumption DEF LoopInv
  <2>2. \A m \in Maps : Inactive(m)' = {}
    BY <1>3, <2>1, WholeUpdate DEF Inactive
  <2>. QED  BY <1>3, <2>2, WholeUpdate DEF TickIsWhole
<1>4. ASSUME NEW token \in Fresh,
             Say(Answer(401, "unknownToken", token)) \/ GetStateResponse(token)
      PROVE  answer'.about # "tick"
  BY <1>4 DEF GetStateResponse, Say, Answer
<1>. QED  BY <1>1, <1>2, <1>3, <1>4, AnswerKinds DEF Told

(* A tick answered with 200 was a whole update.                            *)
THEOREM TicksAreWhole == ApiSpec => []TickIsWhole
<1>1. ApiInit => LoopInv /\ TickIsWhole
  BY DEF ApiInit, Init, NoUpdate, LoopInv, TickIsWhole, NoAnswer, Answer
<1>2. LoopInv /\ TickIsWhole /\ IInv /\ [ApiNext]_apiVars => (LoopInv /\ TickIsWhole)'
  BY LoopStep, TickStep, ApiStepIsGameStep
<1>. QED  BY <1>1, <1>2, GameInvariance, PTL DEF ApiSpec
=============================================================================
