-------------------------- MODULE HttpServerProofs --------------------------
(***************************************************************************)
(* Proofs about the server around the game, for any number of connections, *)
(* requests and threads: the API strand serialises, answers come in order, *)
(* the final save is complete.                                             *)
(***************************************************************************)
EXTENDS HttpServer, TLAPS

\* A connection has at most one request in progress, its last; while there is
\* one, nothing is read from the connection.
HalfDuplex ==
    /\ \A j \in jobs : /\ j.conn \in accepted \ reading
                       /\ j.num = received[j.conn]
                       /\ Len(answers[j.conn]) + 1 = received[j.conn]
    /\ \A j, k \in jobs : j.conn = k.conn => j = k
    /\ \A c \in Connections \ accepted : received[c] = 0 /\ answers[c] = <<>>

\* What waits for the strand is a tick or a request, and no request waits
\* twice.
QueueIsOfJobs ==
    /\ \A i \in 1 .. Len(queue) : queue[i] = Tick \/ InStage(queue[i], "queued") \in jobs
    /\ \A i, k \in 1 .. Len(queue) : i # k /\ queue[i] = queue[k] => queue[i] = Tick

IInv ==
    /\ TypeOK
    /\ HalfDuplex
    /\ QueueIsOfJobs
    /\ OneInGame
    /\ AnswersInOrder
    /\ FinalSaveIsComplete

-----------------------------------------------------------------------------
LEMMA InvariantInit == Init => IInv
<1> SUFFICES ASSUME Init PROVE IInv
  OBVIOUS
<1>1. TypeOK
  <2>1. answers \in [Connections -> Seq(1 .. MaxRequests)] /\ queue \in Seq(Request \cup {Tick})
    BY DEF Init
  <2>2. received \in [Connections -> 0 .. MaxRequests]
    BY ServerAssumption DEF Init
  <2> QED
    BY <2>1, <2>2 DEF Init, TypeOK, TickerStates
<1>2. HalfDuplex /\ QueueIsOfJobs
  BY DEF Init, HalfDuplex, QueueIsOfJobs
<1>3. OneInGame /\ AnswersInOrder /\ FinalSaveIsComplete
  BY DEF Init, OneInGame, InGame, AnswersInOrder, FinalSaveIsComplete
<1> QED
  BY <1>1, <1>2, <1>3 DEF IInv

LEMMA InvariantStep == IInv /\ [Next]_vars => IInv'
<1>a. SUFFICES ASSUME IInv, [Next]_vars PROVE IInv'
  OBVIOUS
<1> USE DEF IInv, TypeOK, Request, Tick, Job, Stages, TickerStates, process, connections
<1>1. ASSUME NEW c \in Connections, Accept(c) PROVE IInv'
  <2>1. /\ c \notin accepted /\ accepted' = accepted \cup {c} /\ reading' = reading \cup {c}
        /\ deadline' = [deadline EXCEPT ![c] = "set"]
        /\ UNCHANGED <<process, listening, jobs, queue, ticker, received, answers, applied, saved>>
    BY <1>1 DEF Accept, Read
  <2>2. HalfDuplex' /\ Len(answers'[c]) = received'[c]
    BY <1>a, <2>1 DEF HalfDuplex
  <2>3. TypeOK'
    BY <1>a, <2>1, <2>2
  <2>4. QueueIsOfJobs'
    BY <1>a, <2>1 DEF QueueIsOfJobs, InStage
  <2>5. OneInGame' /\ AnswersInOrder' /\ FinalSaveIsComplete'
    BY <1>a, <2>1 DEF OneInGame, InGame, AnswersInOrder, FinalSaveIsComplete
  <2> QED
    BY <2>2, <2>3, <2>4, <2>5
<1>2. ASSUME NEW c \in Connections, Expire(c) PROVE IInv'
  <2>1. TypeOK'
    BY <1>a, <1>2, ServerAssumption DEF Expire
  <2>2. HalfDuplex'
    BY <1>a, <1>2 DEF Expire, HalfDuplex
  <2>3. QueueIsOfJobs'
    BY <1>a, <1>2 DEF Expire, QueueIsOfJobs, InStage
  <2>4. OneInGame' /\ AnswersInOrder' /\ FinalSaveIsComplete'
    BY <1>a, <1>2 DEF Expire, OneInGame, InGame, AnswersInOrder, FinalSaveIsComplete
  <2> QED
    BY <2>1, <2>2, <2>3, <2>4
<1>3. ASSUME NEW c \in Connections, ReadEnds(c) PROVE IInv'
  <2>1. TypeOK'
    BY <1>a, <1>3, ServerAssumption DEF ReadEnds, ThreadFree
  <2>2. HalfDuplex'
    BY <1>a, <1>3 DEF ReadEnds, ThreadFree, HalfDuplex
  <2>3. QueueIsOfJobs'
    BY <1>a, <1>3 DEF ReadEnds, ThreadFree, QueueIsOfJobs, InStage
  <2>4. OneInGame' /\ AnswersInOrder' /\ FinalSaveIsComplete'
    BY <1>a, <1>3 DEF ReadEnds, ThreadFree, OneInGame, InGame, AnswersInOrder, FinalSaveIsComplete
  <2> QED
    BY <2>1, <2>2, <2>3, <2>4
<1>4. ASSUME NEW c \in Connections, Receive(c) PROVE IInv'
  <2> DEFINE r == NextRequest(c)
  <2>r. /\ r \in Request /\ r # Tick /\ c \in accepted
        /\ r.conn = c /\ r.num = received[c] + 1
        /\ \A j \in jobs : j.conn # c
    BY <1>a, <1>4, ServerAssumption DEF Receive, OnRead, NextRequest, HalfDuplex
  <2>u. /\ received' = [received EXCEPT ![c] = @ + 1] /\ reading' = reading \ {c}
        /\ ThreadFree /\ received[c] < MaxRequests /\ c \in reading
        /\ UNCHANGED <<process, listening, accepted, deadline, answers, ticker, applied, saved>>
    BY <1>4 DEF Receive, OnRead
  <2>o. PICK stage \in {"game", "file", "queued"} :
           /\ jobs' = jobs \cup {[conn |-> r.conn, num |-> r.num, stage |-> stage]}
           /\ IF stage = "queued" THEN queue' = Append(queue, r) ELSE UNCHANGED queue
           /\ stage = "game" => InGame = {}
    BY <1>4 DEF Receive, OnRead, Dispatch, InStage, StrandFree
  <2> HIDE DEF r
  <2>1. TypeOK'
    <3>1. queue' \in Seq(Request \cup {Tick})
      <4>1. queue \in Seq(Request \cup {Tick}) /\ r \in Request \cup {Tick}
        BY <1>a, <2>r
      <4>2. Append(queue, r) \in Seq(Request \cup {Tick})
        BY <4>1
      <4> QED
        BY <2>o, <4>1, <4>2
    <3>2. received' \in [Connections -> 0 .. MaxRequests]
      BY <1>a, <2>u, ServerAssumption
    <3> QED
      BY <1>a, <2>r, <2>u, <2>o, <3>1, <3>2
  <2>2. HalfDuplex'
    <3>1. \A j \in jobs' : j \in jobs \/ (j.conn = c /\ j.num = received[c] + 1)
      BY <2>r, <2>o
    <3>2. Len(answers[c]) = received[c]
      BY <1>a, <2>u
    <3>3. \A j \in jobs' : /\ j.conn \in accepted' \ reading'
                            /\ j.num = received'[j.conn]
                            /\ Len(answers'[j.conn]) + 1 = received'[j.conn]
      BY <1>a, <2>r, <2>u, <3>1, <3>2 DEF HalfDuplex
    <3>4. \A j, k \in jobs' : j.conn = k.conn => j = k
      BY <1>a, <2>r, <2>o DEF HalfDuplex
    <3>5. \A d \in Connections \ accepted' : received'[d] = 0 /\ answers'[d] = <<>>
      BY <1>a, <2>r, <2>u DEF HalfDuplex
    <3> QED
      BY <3>3, <3>4, <3>5 DEF HalfDuplex
  <2>3. QueueIsOfJobs'
    <3>1. \A i \in 1 .. Len(queue) : queue[i] # r /\ (queue[i] = Tick \/ queue[i].conn # c)
      BY <1>a, <2>r DEF QueueIsOfJobs, InStage
    <3>2. CASE stage = "queued"
      <4>1. /\ Len(queue') = Len(queue) + 1 /\ queue'[Len(queue) + 1] = r
            /\ \A i \in 1 .. Len(queue) : queue'[i] = queue[i]
        BY <1>a, <2>o, <2>r, <3>2
      <4>2. InStage(r, "queued") \in jobs' /\ jobs \subseteq jobs'
        BY <2>o, <3>2 DEF InStage
      <4>3. \A i \in 1 .. Len(queue') : queue'[i] = Tick \/ InStage(queue'[i], "queued") \in jobs'
        <5> SUFFICES ASSUME NEW i \in 1 .. Len(queue')
                     PROVE queue'[i] = Tick \/ InStage(queue'[i], "queued") \in jobs'
          OBVIOUS
        <5>1. CASE i = Len(queue) + 1
          BY <4>1, <4>2, <5>1
        <5>2. CASE i \in 1 .. Len(queue)
          BY <1>a, <4>1, <4>2, <5>2 DEF QueueIsOfJobs
        <5> QED
          BY <1>a, <4>1, <5>1, <5>2
      <4>4. \A i, k \in 1 .. Len(queue') : i # k /\ queue'[i] = queue'[k] => queue'[i] = Tick
        <5> SUFFICES ASSUME NEW i \in 1 .. Len(queue'), NEW k \in 1 .. Len(queue'),
                            i # k, queue'[i] = queue'[k]
                     PROVE queue'[i] = Tick
          OBVIOUS
        <5>1. CASE i \in 1 .. Len(queue) /\ k \in 1 .. Len(queue)
          BY <1>a, <4>1, <5>1 DEF QueueIsOfJobs
        <5>2. CASE i = Len(queue) + 1 /\ k \in 1 .. Len(queue)
          BY <3>1, <4>1, <5>2
        <5>3. CASE i \in 1 .. Len(queue) /\ k = Len(queue) + 1
          BY <3>1, <4>1, <5>3
        <5>4. Len(queue) \in Nat
          BY <1>a
        <5> QED
          BY <4>1, <5>1, <5>2, <5>3, <5>4
      <4> QED
        BY <4>3, <4>4 DEF QueueIsOfJobs
    <3>3. CASE stage # "queued"
      BY <1>a, <2>o, <3>3 DEF QueueIsOfJobs, InStage
    <3> QED
      BY <3>2, <3>3
  <2>4. OneInGame'
    BY <1>a, <2>u, <2>o DEF OneInGame, InGame
  <2>5. AnswersInOrder'
    BY <1>a, <2>u DEF AnswersInOrder
  <2>6. FinalSaveIsComplete'
    BY <1>a, <2>u DEF FinalSaveIsComplete, ThreadFree
  <2> QED
    BY <2>1, <2>2, <2>3, <2>4, <2>5, <2>6
<1>5. ASSUME NEW c \in Connections, OnReadThrows(c) PROVE IInv'
  <2>1. /\ reading' = reading \ {c} /\ c \in reading
        /\ received' = [received EXCEPT ![c] = @ + 1] /\ received[c] < MaxRequests
        /\ phase = "running" /\ phase' \in {"running", "failed"} /\ mainLost' \in BOOLEAN
        /\ UNCHANGED <<listening, accepted, deadline, answers, jobs, queue, ticker, applied, saved>>
    BY <1>a, <1>5 DEF OnReadThrows, ThreadFree
  <2>2. TypeOK'
    <3>1. received' \in [Connections -> 0 .. MaxRequests]
      BY <1>a, <2>1, ServerAssumption
    <3> QED
      BY <1>a, <2>1, <3>1
  <2>3. HalfDuplex'
    BY <1>a, <2>1 DEF HalfDuplex
  <2>4. QueueIsOfJobs' /\ OneInGame' /\ AnswersInOrder' /\ FinalSaveIsComplete'
    BY <1>a, <2>1 DEF QueueIsOfJobs, InStage, OneInGame, InGame, AnswersInOrder, FinalSaveIsComplete
  <2> QED
    BY <2>2, <2>3, <2>4
<1>6. ASSUME AcceptFails PROVE IInv'
  <2>1. TypeOK'
    BY <1>a, <1>6, ServerAssumption DEF AcceptFails, ThreadFree
  <2>2. HalfDuplex'
    BY <1>a, <1>6 DEF AcceptFails, ThreadFree, HalfDuplex
  <2>3. QueueIsOfJobs'
    BY <1>a, <1>6 DEF AcceptFails, ThreadFree, QueueIsOfJobs, InStage
  <2>4. OneInGame' /\ AnswersInOrder' /\ FinalSaveIsComplete'
    BY <1>a, <1>6 DEF AcceptFails, ThreadFree, OneInGame, InGame, AnswersInOrder, FinalSaveIsComplete
  <2> QED
    BY <2>1, <2>2, <2>3, <2>4
<1>7. ASSUME EnterStrand PROVE IInv'
  <2> DEFINE r == Head(queue)
  <2>h. /\ phase # "saved" /\ InGame = {} /\ queue # <<>> /\ queue' = Tail(queue)
        /\ UNCHANGED <<process, listening, connections, applied, saved>>
    BY <1>7 DEF EnterStrand, ThreadFree, HoldsStrand
  <2>t. /\ Len(queue') = Len(queue) - 1 /\ Len(queue) > 0 /\ r = queue[1]
        /\ \A i \in 1 .. Len(queue') : queue'[i] = queue[i + 1]
        /\ queue' \in Seq(Request \cup {Tick}) /\ r \in Request \cup {Tick}
    BY <1>a, <2>h
  <2>j. \/ r = Tick /\ ticker' = "running" /\ UNCHANGED jobs
        \/ /\ r \in Request /\ r # Tick /\ UNCHANGED ticker
           /\ InStage(r, "queued") \in jobs
           /\ jobs' = (jobs \ {InStage(r, "queued")}) \cup {InStage(r, "game")}
    BY <1>a, <1>7, <2>t DEF EnterStrand, QueueIsOfJobs
  <2> HIDE DEF r
  <2>1. TypeOK'
    BY <1>a, <2>h, <2>t, <2>j DEF InStage
  <2>2. HalfDuplex'
    <3>1. CASE UNCHANGED jobs
      BY <1>a, <2>h, <3>1 DEF HalfDuplex
    <3>2. CASE /\ InStage(r, "queued") \in jobs
               /\ jobs' = (jobs \ {InStage(r, "queued")}) \cup {InStage(r, "game")}
      <4>1. \A j \in jobs' : \E k \in jobs : /\ j.conn = k.conn /\ j.num = k.num
                                             /\ j = k \/ (k = InStage(r, "queued") /\ j = InStage(r, "game"))
        BY <3>2 DEF InStage
      <4>2. \A j, k \in jobs' : j.conn = k.conn => j = k
        BY <1>a, <3>2, <4>1 DEF HalfDuplex, InStage
      <4> QED
        BY <1>a, <2>h, <4>1, <4>2 DEF HalfDuplex
    <3> QED
      BY <2>j, <3>1, <3>2
  <2>3. QueueIsOfJobs'
    <3>1. \A i \in 1 .. Len(queue') : queue'[i] = Tick \/ queue'[i] # r
      BY <1>a, <2>t DEF QueueIsOfJobs
    <3>2. \A i \in 1 .. Len(queue') : queue'[i] \in Request \cup {Tick}
      BY <2>t
    <3>3. \A q \in Request : q # r /\ r \in Request => InStage(q, "queued") # InStage(r, "queued")
      BY DEF InStage
    <3>i. \A i \in 1 .. Len(queue') : i + 1 \in 1 .. Len(queue)
      BY <1>a, <2>t
    <3>4. \A i \in 1 .. Len(queue') : queue'[i] = Tick \/ InStage(queue'[i], "queued") \in jobs
      BY <1>a, <2>t, <3>i DEF QueueIsOfJobs
    <3>5. \A i \in 1 .. Len(queue') : queue'[i] = Tick \/ InStage(queue'[i], "queued") \in jobs'
      <4> SUFFICES ASSUME NEW i \in 1 .. Len(queue'), queue'[i] # Tick
                   PROVE InStage(queue'[i], "queued") \in jobs'
        OBVIOUS
      <4>1. /\ InStage(queue'[i], "queued") \in jobs
            /\ queue'[i] # r /\ queue'[i] \in Request
        BY <3>1, <3>2, <3>4
      <4> QED
        BY <4>1, <3>3, <2>j
    <3>6. \A i, k \in 1 .. Len(queue') : i # k /\ queue'[i] = queue'[k] => queue'[i] = Tick
      <4> SUFFICES ASSUME NEW i \in 1 .. Len(queue'), NEW k \in 1 .. Len(queue'),
                          i # k, queue'[i] = queue'[k]
                   PROVE queue'[i] = Tick
        OBVIOUS
      <4>1. i + 1 # k + 1 /\ queue[i + 1] = queue[k + 1]
        BY <2>t
      <4> QED
        BY <1>a, <2>t, <3>i, <4>1 DEF QueueIsOfJobs
    <3> QED
      BY <3>5, <3>6 DEF QueueIsOfJobs
  <2>4. OneInGame'
    BY <1>a, <2>h, <2>j DEF OneInGame, InGame, InStage
  <2>5. AnswersInOrder' /\ FinalSaveIsComplete'
    BY <1>a, <2>h DEF AnswersInOrder, FinalSaveIsComplete
  <2> QED
    BY <2>1, <2>2, <2>3, <2>4, <2>5
<1>8. ASSUME NEW j \in jobs, Handled(j) PROVE IInv'
  <2>1. /\ j \in Job /\ j.stage = "game" /\ Working
        /\ jobs' = (jobs \ {j}) \cup {InStage(j, "writing")}
        /\ UNCHANGED <<process, listening, connections, queue, ticker, saved>>
        /\ applied' = applied \cup {[conn |-> j.conn, num |-> j.num]}
    BY <1>a, <1>8 DEF Handled
  <2>2. TypeOK'
    BY <1>a, <2>1 DEF InStage
  <2>3. HalfDuplex'
    BY <1>a, <2>1 DEF HalfDuplex, InStage
  <2>4. QueueIsOfJobs'
    <3>1. \A q : InStage(q, "queued") # j
      BY <2>1 DEF InStage
    <3> QED
      BY <1>a, <2>1, <3>1 DEF QueueIsOfJobs
  <2>5. OneInGame' /\ AnswersInOrder' /\ FinalSaveIsComplete'
    BY <1>a, <2>1 DEF OneInGame, InGame, InStage, AnswersInOrder, FinalSaveIsComplete, Working
  <2> QED
    BY <2>2, <2>3, <2>4, <2>5
<1>9. ASSUME NEW j \in jobs, FileProcessed(j) PROVE IInv'
  <2>1. /\ j \in Job /\ j.stage = "file" /\ Working
        /\ jobs' = (jobs \ {j}) \cup {InStage(j, "writing")}
        /\ UNCHANGED <<process, listening, connections, queue, ticker, saved>>
        /\ UNCHANGED applied
    BY <1>a, <1>9 DEF FileProcessed
  <2>2. TypeOK'
    BY <1>a, <2>1 DEF InStage
  <2>3. HalfDuplex'
    BY <1>a, <2>1 DEF HalfDuplex, InStage
  <2>4. QueueIsOfJobs'
    <3>1. \A q : InStage(q, "queued") # j
      BY <2>1 DEF InStage
    <3> QED
      BY <1>a, <2>1, <3>1 DEF QueueIsOfJobs
  <2>5. OneInGame' /\ AnswersInOrder' /\ FinalSaveIsComplete'
    BY <1>a, <2>1 DEF OneInGame, InGame, InStage, AnswersInOrder, FinalSaveIsComplete, Working
  <2> QED
    BY <2>2, <2>3, <2>4, <2>5
<1>10. ASSUME NEW j \in jobs, Written(j) PROVE IInv'
  <2>1. /\ j \in Job /\ j.stage = "writing" /\ jobs' = jobs \ {j} /\ phase = "running"
        /\ answers' = [answers EXCEPT ![j.conn] = Append(@, j.num)]
        /\ reading' \in {reading, reading \cup {j.conn}}
        /\ deadline' \in [Connections -> {"none", "set", "passed"}]
        /\ UNCHANGED <<process, listening, accepted, received, queue, ticker, applied, saved>>
    BY <1>a, <1>10 DEF Written, Read, ThreadFree
  <2>2. /\ j.conn \in accepted /\ j.num = received[j.conn]
        /\ Len(answers[j.conn]) + 1 = received[j.conn]
        /\ \A k \in jobs' : k.conn # j.conn
    BY <1>a, <2>1 DEF HalfDuplex
  <2>3. /\ answers'[j.conn] = Append(answers[j.conn], j.num)
        /\ answers[j.conn] \in Seq(1 .. MaxRequests) /\ j.num \in 1 .. MaxRequests
        /\ \A d \in Connections \ {j.conn} : answers'[d] = answers[d]
    BY <1>a, <2>1
  <2>4. /\ Append(answers[j.conn], j.num) \in Seq(1 .. MaxRequests)
        /\ Len(answers'[j.conn]) = Len(answers[j.conn]) + 1
        /\ answers'[j.conn][Len(answers[j.conn]) + 1] = j.num
        /\ \A i \in 1 .. Len(answers[j.conn]) : answers'[j.conn][i] = answers[j.conn][i]
    BY <2>3
  <2>5. answers' \in [Connections -> Seq(1 .. MaxRequests)]
    BY <1>a, <2>1, <2>4
  <2>6. TypeOK'
    <3>1. \A c \in reading' : Len(answers'[c]) = received'[c]
      BY <1>a, <2>1, <2>2, <2>3, <2>4
    <3>2. reading' \subseteq accepted'
      BY <1>a, <2>1, <2>2
    <3> QED
      BY <1>a, <2>1, <2>5, <3>1, <3>2
  <2>7. HalfDuplex'
    BY <1>a, <2>1, <2>2, <2>3 DEF HalfDuplex
  <2>8. QueueIsOfJobs'
    <3>1. \A q : InStage(q, "queued") # j
      BY <2>1 DEF InStage
    <3> QED
      BY <1>a, <2>1, <3>1 DEF QueueIsOfJobs
  <2>9. OneInGame' /\ FinalSaveIsComplete'
    BY <1>a, <2>1 DEF OneInGame, InGame, FinalSaveIsComplete
  <2>10. AnswersInOrder'
    <3>1. answers[j.conn] = [i \in 1 .. Len(answers[j.conn]) |-> i]
      BY <1>a, <2>1 DEF AnswersInOrder
    <3>2. \A i \in 1 .. Len(answers'[j.conn]) : answers'[j.conn][i] = i
      BY <2>2, <2>3, <2>4, <3>1
    <3>3. answers'[j.conn] = [i \in 1 .. Len(answers'[j.conn]) |-> i]
      BY <2>3, <2>4, <3>2
    <3> QED
      BY <1>a, <2>3, <3>3 DEF AnswersInOrder
  <2> QED
    BY <2>6, <2>7, <2>8, <2>9, <2>10
<1>11. ASSUME NEW j \in jobs, WriteFails(j) PROVE IInv'
  <2>1. TypeOK'
    BY <1>a, <1>11, ServerAssumption DEF WriteFails, ThreadFree
  <2>2. HalfDuplex'
    BY <1>a, <1>11 DEF WriteFails, ThreadFree, HalfDuplex
  <2>3. QueueIsOfJobs'
    BY <1>a, <1>11 DEF WriteFails, ThreadFree, QueueIsOfJobs, InStage
  <2>4. OneInGame' /\ AnswersInOrder' /\ FinalSaveIsComplete'
    BY <1>a, <1>11 DEF WriteFails, ThreadFree, OneInGame, InGame, AnswersInOrder, FinalSaveIsComplete
  <2> QED
    BY <2>1, <2>2, <2>3, <2>4
<1>12. ASSUME TimerFires PROVE IInv'
  <2>1. TypeOK'
    BY <1>a, <1>12, ServerAssumption DEF TimerFires
  <2>2. HalfDuplex'
    BY <1>a, <1>12 DEF TimerFires, HalfDuplex
  <2>3. QueueIsOfJobs'
    <3>1. /\ queue \in Seq(Request \cup {Tick}) /\ queue' = Append(queue, Tick)
          /\ Len(queue) \in Nat /\ UNCHANGED jobs
      BY <1>a, <1>12 DEF TimerFires
    <3>2. /\ Len(queue') = Len(queue) + 1 /\ queue'[Len(queue) + 1] = Tick
          /\ \A i \in 1 .. Len(queue) : queue'[i] = queue[i]
      BY <3>1
    <3>3. \A i \in 1 .. Len(queue') : i \in 1 .. Len(queue) \/ queue'[i] = Tick
      BY <3>1, <3>2
    <3>4. /\ \A i \in 1 .. Len(queue) : queue[i] = Tick \/ InStage(queue[i], "queued") \in jobs
          /\ \A i, k \in 1 .. Len(queue) : i # k /\ queue[i] = queue[k] => queue[i] = Tick
      BY <1>a DEF QueueIsOfJobs
    <3> HIDE DEF IInv, TypeOK, Tick
    <3>5. \A i \in 1 .. Len(queue') : queue'[i] = Tick \/ InStage(queue'[i], "queued") \in jobs
      BY <3>2, <3>3, <3>4
    <3>6. \A i, k \in 1 .. Len(queue') : i # k /\ queue'[i] = queue'[k] => queue'[i] = Tick
      BY <3>2, <3>3, <3>4
    <3> QED
      BY <3>1, <3>5, <3>6 DEF QueueIsOfJobs, InStage, Tick
  <2>4. OneInGame' /\ AnswersInOrder' /\ FinalSaveIsComplete'
    BY <1>a, <1>12 DEF TimerFires, OneInGame, InGame, AnswersInOrder, FinalSaveIsComplete
  <2> QED
    BY <2>1, <2>2, <2>3, <2>4
<1>13. ASSUME Ticked PROVE IInv'
  <2>1. /\ Working /\ ticker' = "armed"
        /\ UNCHANGED <<process, listening, connections, jobs, queue, applied, saved>>
    BY <1>13 DEF Ticked, OnTick
  <2>2. TypeOK' /\ HalfDuplex' /\ QueueIsOfJobs'
    BY <1>a, <2>1 DEF HalfDuplex, QueueIsOfJobs, InStage
  <2>3. OneInGame' /\ AnswersInOrder' /\ FinalSaveIsComplete'
    BY <1>a, <2>1 DEF OneInGame, InGame, AnswersInOrder, FinalSaveIsComplete, Working
  <2> QED
    BY <2>2, <2>3
<1>14. ASSUME Stop PROVE IInv'
  <2>1. TypeOK'
    BY <1>a, <1>14, ServerAssumption DEF Stop, ThreadFree
  <2>2. HalfDuplex'
    BY <1>a, <1>14 DEF Stop, ThreadFree, HalfDuplex
  <2>3. QueueIsOfJobs'
    BY <1>a, <1>14 DEF Stop, ThreadFree, QueueIsOfJobs, InStage
  <2>4. OneInGame' /\ AnswersInOrder' /\ FinalSaveIsComplete'
    BY <1>a, <1>14 DEF Stop, ThreadFree, OneInGame, InGame, AnswersInOrder, FinalSaveIsComplete
  <2> QED
    BY <2>1, <2>2, <2>3, <2>4
<1>15. ASSUME SaveState PROVE IInv'
  <2>1. /\ phase' \in {"saved", "failed"} /\ InGame = {}
        /\ saved' \in {saved, applied}
        /\ phase' = "saved" => saved' = applied
        /\ UNCHANGED <<mainLost, listening, connections, jobs, queue, ticker, applied>>
    BY <1>15 DEF SaveState, RunWorkersEnd
  <2>2. TypeOK' /\ HalfDuplex' /\ QueueIsOfJobs'
    BY <1>a, <2>1 DEF HalfDuplex, QueueIsOfJobs, InStage
  <2>3. OneInGame' /\ AnswersInOrder' /\ FinalSaveIsComplete'
    BY <1>a, <2>1 DEF OneInGame, InGame, AnswersInOrder, FinalSaveIsComplete
  <2> QED
    BY <2>2, <2>3
<1>16. ASSUME UNCHANGED vars PROVE IInv'
  <2>1. TypeOK'
    BY <1>a, <1>16, ServerAssumption DEF vars
  <2>2. HalfDuplex'
    BY <1>a, <1>16 DEF vars, HalfDuplex
  <2>3. QueueIsOfJobs'
    BY <1>a, <1>16 DEF vars, QueueIsOfJobs, InStage
  <2>4. OneInGame' /\ AnswersInOrder' /\ FinalSaveIsComplete'
    BY <1>a, <1>16 DEF vars, OneInGame, InGame, AnswersInOrder, FinalSaveIsComplete
  <2> QED
    BY <2>1, <2>2, <2>3, <2>4
<1> QED
  BY <1>a, <1>1, <1>2, <1>3, <1>4, <1>5, <1>6, <1>7, <1>8, <1>9, <1>10, <1>11, <1>12, <1>13, <1>14, <1>15, <1>16 DEF Next

-----------------------------------------------------------------------------
LEMMA Invariant == Spec => []IInv
<1>1. Init => IInv
  BY InvariantInit
<1>2. IInv /\ [Next]_vars => IInv'
  BY InvariantStep
<1> QED
  BY <1>1, <1>2, PTL DEF Spec

\* Type correctness, and a connection is read only when it has been answered.
THEOREM ServerTypeCorrect == Spec => []TypeOK
<1>1. IInv => TypeOK
  BY DEF IInv
<1> QED
  BY <1>1, Invariant, PTL

\* What works on the game works alone, with any number of threads: the API
\* strand is the only way to it, for requests and for ticks.
THEOREM StrandSerialises == Spec => []OneInGame
<1>1. IInv => OneInGame
  BY DEF IInv
<1> QED
  BY <1>1, Invariant, PTL

\* The answers on a connection are those to its requests, in their order,
\* although files are answered without the strand.
THEOREM AnswersComeInOrder == Spec => []AnswersInOrder
<1>1. IInv => AnswersInOrder
  BY DEF IInv
<1> QED
  BY <1>1, Invariant, PTL

\* The final save has what every handler did that ended, and none comes later.
THEOREM FinalSaveComplete == Spec => []FinalSaveIsComplete
<1>1. IInv => FinalSaveIsComplete
  BY DEF IInv
<1> QED
  BY <1>1, Invariant, PTL
=============================================================================
