----------------------------- MODULE HttpServer -----------------------------
(***************************************************************************)
(* The server around the game (http_server.h, http_server.cpp, the         *)
(* dispatch of request_handler.h, Ticker and main): connections are read   *)
(* and written on the threads of the io_context, everything that touches   *)
(* the game runs on one strand, and a signal stops the server, which saves *)
(* the game when its threads have ended.                                   *)
(*                                                                         *)
(* A request is known by its connection and its number; what it asks and   *)
(* what it is answered are left out.  A handler that ends without waiting  *)
(* is one step; one that works on the game or on a file takes two, and a   *)
(* thread, in between.                                                     *)
(***************************************************************************)
EXTENDS Naturals, Sequences, FiniteSets

CONSTANTS
    Connections,
    NoConnection,   \* a tick has none
    Threads,        \* num_threads
    MaxRequests     \* bound: the requests a client sends on a connection

ASSUME ServerAssumption ==
    /\ NoConnection \notin Connections
    /\ Threads \in Nat \ {0} /\ MaxRequests \in Nat

VARIABLES
    phase,          \* of the process
    mainLost,       \* an exception has left io_context::run in the main thread
    listening,      \* an accept is pending
    accepted,       \* the connections so far
    reading,        \* the connections with a pending read
    deadline,       \* of the stream of each connection
    jobs,           \* the requests that were read and are in progress
    queue,          \* the handlers that wait for the API strand
    ticker

VARIABLES
    received,       \* the number of requests read from each connection
    answers,        \* the requests answered on each connection, in order
    applied,        \* the API requests that have been handled
    saved           \* those in the final state file

process == <<phase, mainLost>>
connections == <<accepted, reading, deadline, received, answers>>
vars == <<process, listening, connections, jobs, queue, ticker, applied, saved>>

Request == [conn : Connections, num : 1 .. MaxRequests]
Tick == [conn |-> NoConnection, num |-> 0]

\* "game" and "file" are handlers at work, in the strand and outside it.
Stages == {"queued", "game", "file", "writing"}
Job == [conn : Connections, num : 1 .. MaxRequests, stage : Stages]

\* "off" is the test mode, without a ticker.
TickerStates == {"off", "armed", "queued", "running"}

\* A connection is read only when its requests so far have been answered.
TypeOK ==
    /\ phase \in {"running", "stopping", "saved", "failed"}
    /\ mainLost \in BOOLEAN /\ listening \in BOOLEAN
    /\ reading \subseteq accepted /\ accepted \subseteq Connections
    /\ deadline \in [Connections -> {"none", "set", "passed"}]
    /\ jobs \subseteq Job
    /\ queue \in Seq(Request \cup {Tick})
    /\ ticker \in TickerStates
    /\ received \in [Connections -> 0 .. MaxRequests]
    /\ answers \in [Connections -> Seq(1 .. MaxRequests)]
    /\ \A c \in reading : Len(answers[c]) = received[c]
    /\ applied \subseteq Request /\ saved \subseteq Request

\* The handlers that work on the game.
InGame ==
    {[conn |-> j.conn, num |-> j.num] : j \in {k \in jobs : k.stage = "game"}}
        \cup (IF ticker = "running" THEN {Tick} ELSE {})

Busy == Cardinality(InGame) + Cardinality({j \in jobs : j.stage = "file"})
Alive == IF mainLost THEN Threads - 1 ELSE Threads

\* io_context::run: a thread that is free takes a handler that is ready, until
\* the context is stopped.
ThreadFree == phase = "running" /\ Busy < Alive

Init ==
    /\ phase = "running" /\ mainLost = FALSE
    /\ listening = TRUE
    /\ accepted = {} /\ reading = {}
    /\ deadline = [c \in Connections |-> "none"]
    /\ jobs = {} /\ queue = <<>>
    /\ ticker \in {"off", "armed"}
    /\ received = [c \in Connections |-> 0]
    /\ answers = [c \in Connections |-> <<>>]
    /\ applied = {} /\ saved = {}

-----------------------------------------------------------------------------
(* Connections.                                                            *)

\* Slip: the stream gets no deadline.
ReadUntimed(c) == reading' = reading \cup {c} /\ UNCHANGED deadline

\* SessionBase::Read.  Every operation on the stream, the write of the answer
\* too, keeps the deadline that is set here.
Read(c) == reading' = reading \cup {c} /\ deadline' = [deadline EXCEPT ![c] = "set"]

\* OnAccept: the session reads, and the next connection is waited for.
Accept(c) ==
    /\ ThreadFree /\ listening
    /\ c \notin accepted
    /\ accepted' = accepted \cup {c}
    /\ Read(c)
    /\ UNCHANGED <<process, listening, jobs, queue, ticker, received, answers, applied, saved>>

\* OnAccept with an error returns before the next DoAccept.
AcceptFails ==
    /\ ThreadFree /\ listening
    /\ listening' = FALSE
    /\ UNCHANGED <<process, connections, jobs, queue, ticker, applied, saved>>

Expire(c) ==
    /\ phase = "running"
    /\ deadline[c] = "set"
    /\ deadline' = [deadline EXCEPT ![c] = "passed"]
    /\ UNCHANGED <<process, listening, accepted, reading, received, answers>>
    /\ UNCHANGED <<jobs, queue, ticker, applied, saved>>

\* OnRead with the end of the stream, an error or a timeout: nothing refers to
\* the session any longer.
ReadEnds(c) ==
    /\ ThreadFree /\ c \in reading
    /\ reading' = reading \ {c}
    /\ UNCHANGED <<process, listening, accepted, deadline, received, answers>>
    /\ UNCHANGED <<jobs, queue, ticker, applied, saved>>

NextRequest(c) == [conn |-> c, num |-> received[c] + 1]
InStage(r, stage) == [conn |-> r.conn, num |-> r.num, stage |-> stage]

-----------------------------------------------------------------------------
(* The API strand.                                                         *)

StrandFree == queue = <<>> /\ InGame = {}

\* Slip: the handler is called where the request was read.
DispatchDirectly(r) == jobs' = jobs \cup {InStage(r, "game")} /\ UNCHANGED queue

\* net::dispatch to a strand nothing holds runs the handler in this thread.
Dispatch(r) ==
    \/ /\ StrandFree
       /\ jobs' = jobs \cup {InStage(r, "game")}
       /\ UNCHANGED queue
    \/ /\ ~ StrandFree
       /\ jobs' = jobs \cup {InStage(r, "queued")}
       /\ queue' = Append(queue, r)

\* Slip: the next request is read while this one is handled.
OnReadGoesOn(c) ==
    /\ ThreadFree /\ c \in reading /\ received[c] < MaxRequests
    /\ UNCHANGED reading
    /\ received' = [received EXCEPT ![c] = @ + 1]
    /\ \/ Dispatch(NextRequest(c))
       \/ jobs' = jobs \cup {InStage(NextRequest(c), "file")} /\ UNCHANGED queue

\* OnRead with a request: RequestHandler dispatches it to the API strand, or
\* processes the request of a file here.
OnRead(c) ==
    /\ ThreadFree /\ c \in reading /\ received[c] < MaxRequests
    /\ reading' = reading \ {c}
    /\ received' = [received EXCEPT ![c] = @ + 1]
    /\ \/ Dispatch(NextRequest(c))
       \/ jobs' = jobs \cup {InStage(NextRequest(c), "file")} /\ UNCHANGED queue

Receive(c) ==
    /\ OnRead(c)
    /\ UNCHANGED <<process, listening, accepted, deadline, answers, ticker, applied, saved>>

\* remote_endpoint, LogRequest or UrlDecode throws, and nothing in the handler
\* catches it: in a thread of RunWorkers the process is terminated; the main
\* thread leaves its io_context::run and waits for the others.
OnReadThrows(c) ==
    /\ ThreadFree /\ c \in reading /\ received[c] < MaxRequests
    /\ reading' = reading \ {c}
    /\ received' = [received EXCEPT ![c] = @ + 1]
    /\ \/ Threads > 1 /\ phase' = "failed" /\ UNCHANGED mainLost
       \/ ~ mainLost /\ mainLost' = TRUE /\ phase' = IF Threads = 1 THEN "failed" ELSE phase
    /\ UNCHANGED <<listening, accepted, deadline, answers, jobs, queue, ticker, applied, saved>>

\* The thread that holds the strand runs the handlers that are ready in it to
\* the last, though the context is stopped meanwhile; whether the next one was
\* ready then is left open.  The thread that ran the handler of the signal is
\* gone.
HoldsStrand == phase = "stopping" /\ Busy + 1 < Alive

\* The next handler of the strand.
EnterStrand ==
    /\ ThreadFree \/ HoldsStrand
    /\ queue # <<>> /\ InGame = {}
    /\ queue' = Tail(queue)
    /\ IF Head(queue) = Tick
       THEN ticker' = "running" /\ UNCHANGED jobs
       ELSE /\ jobs' = (jobs \ {InStage(Head(queue), "queued")})
                          \cup {InStage(Head(queue), "game")}
            /\ UNCHANGED ticker
    /\ UNCHANGED <<process, listening, connections, applied, saved>>

Working == phase \in {"running", "stopping"}

\* The handler of an API request ends with an answer, the one of the catch if
\* it threw, and the write begins.
Handled(j) ==
    /\ Working /\ j.stage = "game"
    /\ jobs' = (jobs \ {j}) \cup {InStage(j, "writing")}
    /\ applied' = applied \cup {[conn |-> j.conn, num |-> j.num]}
    /\ UNCHANGED <<process, listening, connections, queue, ticker, saved>>

FileProcessed(j) ==
    /\ Working /\ j.stage = "file"
    /\ jobs' = (jobs \ {j}) \cup {InStage(j, "writing")}
    /\ UNCHANGED <<process, listening, connections, queue, ticker, applied, saved>>

-----------------------------------------------------------------------------
(* OnWrite.                                                                *)

\* The answer is written; then the connection is closed, if the answer has no
\* length, or the next request is read.
Written(j) ==
    /\ ThreadFree /\ j.stage = "writing"
    /\ jobs' = jobs \ {j}
    /\ answers' = [answers EXCEPT ![j.conn] = Append(@, j.num)]
    /\ \/ UNCHANGED <<reading, deadline>>
       \/ Read(j.conn)
    /\ UNCHANGED <<process, listening, accepted, received, queue, ticker, applied, saved>>

\* An error, the client's or the deadline's.
WriteFails(j) ==
    /\ ThreadFree /\ j.stage = "writing"
    /\ jobs' = jobs \ {j}
    /\ UNCHANGED <<process, listening, connections, queue, ticker, applied, saved>>

-----------------------------------------------------------------------------
(* The ticker.                                                             *)

\* The timer's handler goes to the strand.
TimerFires ==
    /\ phase = "running" /\ ticker = "armed"
    /\ ticker' = "queued" /\ queue' = Append(queue, Tick)
    /\ UNCHANGED <<process, listening, connections, jobs, applied, saved>>

\* Slip: when Update throws, the next tick is not scheduled.
OnTickUncaught == ticker' \in {"armed", "off"}

\* Whether Update throws or not, ScheduleTick arms the timer.
OnTick == ticker' = "armed"

Ticked ==
    /\ Working /\ ticker = "running"
    /\ OnTick
    /\ UNCHANGED <<process, listening, connections, jobs, queue, applied, saved>>

-----------------------------------------------------------------------------
(* The end.                                                                *)

\* The handler of SIGINT and SIGTERM: io_context::stop.
Stop ==
    /\ ThreadFree
    /\ phase' = "stopping"
    /\ UNCHANGED <<mainLost, listening, connections, jobs, queue, ticker, applied, saved>>

\* Slip: the threads are not joined.
RunWorkersDetached == phase = "stopping"

\* RunWorkers returns, or is left by the exception, when every thread has
\* ended its handler and does not go on in the strand.
RunWorkersEnd ==
    phase = "stopping" /\ InGame = {} /\ \A j \in jobs : j.stage # "file"

\* The final SaveState; it may fail, and after an exception it is passed over.
SaveState ==
    /\ RunWorkersEnd
    /\ \/ ~ mainLost /\ phase' = "saved" /\ saved' = applied
       \/ phase' = "failed" /\ UNCHANGED saved
    /\ UNCHANGED <<mainLost, listening, connections, jobs, queue, ticker, applied>>

Next ==
    \/ \E c \in Connections :
          Accept(c) \/ Expire(c) \/ ReadEnds(c) \/ Receive(c) \/ OnReadThrows(c)
    \/ AcceptFails
    \/ EnterStrand
    \/ \E j \in jobs : Handled(j) \/ FileProcessed(j) \/ Written(j) \/ WriteFails(j)
    \/ TimerFires \/ Ticked
    \/ Stop \/ SaveState

Spec == Init /\ [][Next]_vars

\* The threads run what is ready, handlers end, time passes, and a stream
\* whose deadline has passed gives its operation up.  Nothing is asked of the
\* clients.
Fairness ==
    /\ WF_vars(ThreadFree /\ EnterStrand) /\ WF_vars(TimerFires) /\ WF_vars(Ticked)
    /\ \A c \in Connections : WF_vars(Expire(c))
    /\ \A c \in Connections, n \in 1 .. MaxRequests :
          /\ WF_vars(\E j \in jobs : j.conn = c /\ j.num = n /\ (Handled(j) \/ FileProcessed(j)))
          /\ SF_vars(\E j \in jobs : /\ j.conn = c /\ j.num = n
                                     /\ deadline[c] = "passed" /\ (Written(j) \/ WriteFails(j)))

FairSpec == Spec /\ Fairness

-----------------------------------------------------------------------------
(***************************************************************************)
(* What works on the game works alone: never two requests, nor a request   *)
(* and a tick, whatever the number of threads.  Game, Players and the      *)
(* sessions have no other protection.                                      *)
(***************************************************************************)
OneInGame == \A g, h \in InGame : g = h

(***************************************************************************)
(* A client finds its answer by its place: the answers on a connection are *)
(* those to its first, second, ... request.  Files are answered outside    *)
(* the strand and could overtake an API request of the same client.        *)
(***************************************************************************)
AnswersInOrder ==
    \A c \in Connections : answers[c] = [i \in 1 .. Len(answers[c]) |-> i]

(***************************************************************************)
(* The final state file has every request that was handled, those too that *)
(* were still at work when the signal came; nothing touches the game after *)
(* it is written.                                                          *)
(***************************************************************************)
FinalSaveIsComplete == phase = "saved" => saved = applied /\ InGame = {}

(***************************************************************************)
(* Every request that was read comes to an end, answered or given up, even *)
(* if the client does not read its answer, or the server ends.             *)
(***************************************************************************)
RequestsEnd ==
    \A c \in Connections, n \in 1 .. MaxRequests :
        (\E j \in jobs : j.conn = c /\ j.num = n)
            ~> (phase # "running" \/ ~ \E j \in jobs : j.conn = c /\ j.num = n)

(***************************************************************************)
(* A server that started with a ticker goes on ticking as long as it runs, *)
(* though Update may throw, threads may be lost and requests come between. *)
(***************************************************************************)
TicksGoOn == ticker # "off" => []<>(phase # "running" \/ ticker = "running")
=============================================================================
