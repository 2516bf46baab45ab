----------------------------- MODULE ApiHandler -----------------------------
(***************************************************************************)
(* The API (api_handler.h, api_handler.cpp) on top of the game: which      *)
(* requests are answered with what, and which of them reach the game.      *)
(*                                                                         *)
(* A request is handled on the strand, in one step, when no update runs;   *)
(* only a tick request of the test mode runs an update, and is answered at *)
(* its end.  Headers, bodies and queries are abstracted to the cases the   *)
(* handlers distinguish; the answers keep the status, what they are about, *)
(* the token of the request or the new player, and what a client sees of   *)
(* its session.                                                            *)
(***************************************************************************)
EXTENDS Game

CONSTANT NoToken        \* a request without a token

ASSUME TokenAssumption == NoToken \notin Fresh

VARIABLES
    mode,       \* game_mode_
    alive,      \* the process runs
    answer      \* the answer of the last step, if it gave one

\* What the clients remember: the players that joined, with their tokens.
VARIABLE joined

apiVars == <<vars, mode, alive, answer, joined>>

NothingSeen == [players |-> {}, lostObjects |-> {}]
Answer(status, about, token) ==
    [status |-> status, about |-> about, token |-> token, seen |-> NothingSeen]
NoAnswer == Answer(0, "none", NoToken)

ApiInit ==
    /\ Init
    /\ mode \in {"TEST", "NORMAL"} /\ alive = TRUE
    /\ answer = NoAnswer /\ joined = {}

-----------------------------------------------------------------------------
(* Routing.                                                                *)

\* "mapsOther" is a target that begins like the maps' and is none of them.
Targets == {"maps", "map", "mapsOther", "action", "join", "players", "records", "state",
            "tick", "other"}
Methods == {"GET", "POST"}      \* GET or HEAD; POST, which stands for the rest where GET is served
Expected(target) == IF target \in {"action", "join", "tick"} THEN "POST" ELSE "GET"

Served(target) ==
    /\ target \notin {"mapsOther", "other"}
    /\ target = "tick" => mode = "TEST"

\* Whether Handle looks at the method of a request for the target.
MethodCounts(target) == Served(target) \/ target = "mapsOther"

Handles == alive /\ phase = "idle"

\* An answer that leaves the game as it is.
Say(reply) == answer' = reply /\ UNCHANGED <<vars, mode, alive, joined>>

\* What Handle answers without a handler.
Refusals(target, method) ==
    IF MethodCounts(target) /\ method # Expected(target)
    THEN {Answer(405, "invalidMethod", NoToken)}
    ELSE IF ~ Served(target) THEN {Answer(400, "badRequest", NoToken)}
    ELSE {}

NotRouted ==
    /\ Handles
    /\ \E reply \in UNION {Refusals(target, method) : target \in Targets, method \in Methods} :
          Say(reply)

-----------------------------------------------------------------------------
(* Authorisation.                                                          *)

\* Slip: players that have left are found by their tokens.
FindPlayerByTokenEver(token) == {p \in joined : p.token = token}

FindPlayerByToken(token) == {p \in players : p.token = token}

\* An iterator at the end is dereferenced before it is compared with the end:
\* the handler answers as it should, what it reads makes it throw, or the
\* process ends.
ReadsBeyondEnd(reply) ==
    \/ Say(reply)
    \/ Say(Answer(500, "serverError", NoToken))
    \/ alive' = FALSE /\ answer' = NoAnswer /\ UNCHANGED <<vars, mode, joined>>

\* ExecuteAuthorized, which action, players and state begin with: no token, one
\* that is not 32 digits long, or one that no player has.
Unauthorized ==
    /\ Handles
    /\ \/ ReadsBeyondEnd(Answer(401, "invalidToken", NoToken))
       \/ \E token \in Fresh :
             FindPlayerByToken(token) = {} /\ Say(Answer(401, "unknownToken", token))

-----------------------------------------------------------------------------
(* The handlers.                                                           *)

\* A body that is no JSON, or an object without the expected members, is
\* refused; one of another shape makes boost::json throw.
BadBody(token) ==
    Say(Answer(400, "invalidArgument", token)) \/ Say(Answer(500, "serverError", NoToken))

\* GET of the maps: without a token, and of the configuration only.
MapsResponse(target) ==
    /\ Handles
    /\ \/ Say(Answer(200, target, NoToken))
       \/ target = "map" /\ Say(Answer(404, "mapNotFound", NoToken))

\* A limit above 100 is refused; the query may fail.
GetRecordsResponse ==
    /\ Handles
    /\ \E reply \in {Answer(200, "records", NoToken), Answer(400, "invalidArgument", NoToken),
                     Answer(500, "internalError", NoToken)} : Say(reply)

JoinRefused ==
    /\ Handles
    /\ \/ BadBody(NoToken)
       \/ Say(Answer(400, "invalidArgument", NoToken))
       \/ Say(Answer(404, "mapNotFound", NoToken))

NewPlayer(m) == [id |-> playerCounter, token |-> fresh, dog |-> dogCounter, map |-> m]

\* A name and a map of the game.
JoinGameResponse(m) ==
    /\ Handles
    /\ Join(m)
    /\ joined' = joined \cup {NewPlayer(m)}
    /\ answer' = Answer(200, "join", fresh)
    /\ UNCHANGED <<mode, alive>>

ActionRefused(token) ==
    /\ Handles
    /\ FindPlayerByToken(token) # {}
    /\ \/ ReadsBeyondEnd(Answer(400, "invalidArgument", token))
       \/ BadBody(token)

PlayerActionResponse(token, go) ==
    /\ Handles
    /\ \E p \in FindPlayerByToken(token) : Act(p, go)
    /\ answer' = Answer(200, "action", token)
    /\ UNCHANGED <<mode, alive, joined>>

FindPlayersInSession(p) == {q \in players : q.map = p.map}

\* The players of the session, with their bags and scores, and its loot.
Seen(p) ==
    [players |-> {[id |-> q.id, bag |-> bag[q.dog], score |-> delivered[q.dog]] :
                      q \in FindPlayersInSession(p)},
     lostObjects |-> loot[p.map]]

GetStateResponse(token) ==
    /\ Handles
    /\ \E p \in FindPlayerByToken(token) :
          Say([Answer(200, "state", token) EXCEPT !.seen = Seen(p)])

GetPlayersResponse(token) ==
    /\ Handles
    /\ FindPlayerByToken(token) # {}
    /\ Say(Answer(200, "players", token))

TickRefused ==
    /\ Handles /\ Served("tick")
    /\ BadBody(NoToken)

-----------------------------------------------------------------------------
(* Updates.  In the test mode an update is the handler of a tick request,  *)
(* in the normal mode the ticker's, which answers nobody.                  *)

\* Slip: the exception of Update is caught, and forgotten.
TickAnswerAnyhow(failed) ==
    IF mode = "NORMAL" THEN NoAnswer ELSE Answer(200, "tick", NoToken)

TickAnswer(failed) ==
    IF mode = "NORMAL" THEN NoAnswer
    ELSE IF failed THEN Answer(500, "serverError", NoToken)
    ELSE Answer(200, "tick", NoToken)

Update ==
    /\ alive
    /\ \/ /\ UpdateStep
          /\ answer' = IF phase # "idle" /\ phase' = "idle" THEN TickAnswer(phase = "retire")
                       ELSE NoAnswer
       \/ SaveSucceeds /\ answer' = TickAnswer(FALSE)
       \/ SaveFails /\ answer' = TickAnswer(TRUE)
    /\ UNCHANGED <<mode, alive, joined>>

-----------------------------------------------------------------------------
ApiNext ==
    \/ NotRouted
    \/ Unauthorized
    \/ \E target \in {"maps", "map"} : MapsResponse(target)
    \/ GetRecordsResponse
    \/ JoinRefused
    \/ \E m \in Maps : JoinGameResponse(m)
    \/ \E token \in Fresh :
          \/ ActionRefused(token)
          \/ \E go \in BOOLEAN : PlayerActionResponse(token, go)
          \/ GetStateResponse(token)
          \/ GetPlayersResponse(token)
    \/ TickRefused
    \/ Update

ApiSpec == ApiInit /\ [][ApiNext]_apiVars

-----------------------------------------------------------------------------
(***************************************************************************)
(* Whatever is requested, well formed or not, authorised or not, the game  *)
(* changes by its own steps only: a join, an action of a player that is in *)
(* the game, or an update.  So what holds of Game holds behind the API.    *)
(***************************************************************************)
GameSpec == Spec

(***************************************************************************)
(* A client that joined and is told that its token is unknown finds its    *)
(* final score on the leaderboard: tokens expire with a retirement that    *)
(* was recorded, and in no other way.                                      *)
(***************************************************************************)
UnknownIsRecorded ==
    \A p \in joined :
        answer.about = "unknownToken" /\ answer.token = p.token
        => uuid[p.dog] \in recorded /\ board[uuid[p.dog]] = delivered[p.dog]

(***************************************************************************)
(* What a client sees of its session is consistent, also after an update   *)
(* that failed half way: the client's own player is there, each player is  *)
(* there once, and no item is in two places.                               *)
(***************************************************************************)
SeenIsConsistent ==
    answer.about = "state" =>
        LET seen == answer.seen
        IN /\ \E p \in players : p.token = answer.token /\ \E s \in seen.players : s.id = p.id
           /\ \A s, t \in seen.players : s.id = t.id => s = t
           /\ \A s, t \in seen.players : s # t =>
                 (s.bag \cup s.score) \cap (t.bag \cup t.score) = {}
           /\ \A s \in seen.players :
                 /\ s.bag \cap s.score = {}
                 /\ (s.bag \cup s.score) \cap seen.lostObjects = {}

(***************************************************************************)
(* A tick that is answered with 200 was a whole update: nobody is left in  *)
(* any session who has been inactive for the retirement time, and no save  *)
(* is due.                                                                 *)
(***************************************************************************)
TickIsWhole ==
    answer.about = "tick" =>
        /\ \A m \in Maps : Inactive(m) = {}
        /\ saveTimer < SaveInterval \/ saveTimer = 0
=============================================================================
