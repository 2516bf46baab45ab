--------------------------- MODULE ConnectionPool ---------------------------
(***************************************************************************)
(* The pool of database connections (database.h, database.cpp): a vector   *)
(* of connections, the number of them handed out, a mutex and a condition  *)
(* variable.  Any number of threads take a connection with GetConnection   *)
(* and give it back from the destructor of ConnectionWrapper.              *)
(*                                                                         *)
(* A critical section of mutex_ is one action.  Waiting on cond_var_       *)
(* releases the mutex and joins the wait set in one step, a woken thread   *)
(* takes the mutex again and tests the predicate again, and notify_one is  *)
(* called after the mutex is released, so it is an action of its own.      *)
(***************************************************************************)
EXTENDS Integers, FiniteSets

CONSTANTS
    Threads,    \* the threads that use the pool
    Capacity    \* pool_.size(), fixed by the constructor

ASSUME ThreadsAssumption == IsFiniteSet(Threads)
ASSUME CapacityAssumption == Capacity \in Nat \ {0}

\* The connections are named by the slot in which the constructor put them.
Slots == 0 .. Capacity - 1
Connections == Slots
\* A null ConnectionPtr: the state of a moved-from slot or wrapper.
Null == -1

VARIABLES
    pool,   \* pool_: what each slot holds
    used,   \* used_connections_
    pc,     \* where each thread is
    conn    \* conn_ of the thread's ConnectionWrapper

vars == <<pool, used, pc, conn>>

(***************************************************************************)
(* "idle"    outside the pool                                              *)
(* "get"     in GetConnection, about to test the predicate under mutex_    *)
(* "wait"    in the wait set of cond_var_                                  *)
(* "hold"    owns a ConnectionWrapper                                      *)
(* "notify"  in ReturnConnection, mutex_ released, notify_one to come      *)
(***************************************************************************)
Places == {"idle", "get", "wait", "hold", "notify"}

At(place) == {t \in Threads : pc[t] = place}

TypeOK ==
    /\ pool \in [Slots -> Connections \cup {Null}]
    /\ used \in 0 .. Capacity
    /\ pc \in [Threads -> Places]
    /\ conn \in [Threads -> Connections \cup {Null}]

\* ConnectionPool(capacity, factory): every slot filled, nothing handed out.
Init ==
    /\ pool = [i \in Slots |-> i]
    /\ used = 0
    /\ pc = [t \in Threads |-> "idle"]
    /\ conn = [t \in Threads |-> Null]

-----------------------------------------------------------------------------
(* What a slip in the code would look like.                                *)

\* The predicate holds for as many users as there are slots, and one more.
TakeOffByOne(t) ==
    /\ pc[t] = "get"
    /\ used <= Capacity
    /\ conn' = [conn EXCEPT ![t] = IF used < Capacity THEN pool[used] ELSE 0]
    /\ pool' = [pool EXCEPT ![used] = Null]
    /\ used' = used + 1
    /\ pc' = [pc EXCEPT ![t] = "hold"]

\* used_connections_ is decremented twice.
ReturnDecrementsTwice(t) ==
    /\ pc[t] = "hold"
    /\ pool' = [pool EXCEPT ![used - 1] = conn[t]]
    /\ used' = IF used > 1 THEN used - 2 ELSE 0
    /\ conn' = [conn EXCEPT ![t] = Null]
    /\ pc' = [pc EXCEPT ![t] = "notify"]

\* notify_one only when the pool was exhausted.
ReturnNotifyIfExhausted(t) ==
    /\ pc[t] = "hold"
    /\ used' = used - 1
    /\ pool' = [pool EXCEPT ![used - 1] = conn[t]]
    /\ conn' = [conn EXCEPT ![t] = Null]
    /\ pc' = [pc EXCEPT ![t] = IF used = Capacity THEN "notify" ELSE "idle"]

\* The notification is forgotten.
NotifyNobody(t) ==
    /\ pc[t] = "notify"
    /\ pc' = [pc EXCEPT ![t] = "idle"]
    /\ UNCHANGED <<pool, used, conn>>

-----------------------------------------------------------------------------
\* A thread calls GetConnection.
Call(t) ==
    /\ pc[t] = "idle"
    /\ pc' = [pc EXCEPT ![t] = "get"]
    /\ UNCHANGED <<pool, used, conn>>

\* GetConnection finds a free slot: the connection moves into the wrapper.
Take(t) ==
    /\ pc[t] = "get"
    /\ used < Capacity
    /\ conn' = [conn EXCEPT ![t] = pool[used]]
    /\ pool' = [pool EXCEPT ![used] = Null]
    /\ used' = used + 1
    /\ pc' = [pc EXCEPT ![t] = "hold"]

\* GetConnection finds none: cond_var_.wait releases the mutex and sleeps.
Block(t) ==
    /\ pc[t] = "get"
    /\ used >= Capacity
    /\ pc' = [pc EXCEPT ![t] = "wait"]
    /\ UNCHANGED <<pool, used, conn>>

\* ~ConnectionWrapper: ReturnConnection's critical section.
Return(t) ==
    /\ pc[t] = "hold"
    /\ used' = used - 1
    /\ pool' = [pool EXCEPT ![used - 1] = conn[t]]
    /\ conn' = [conn EXCEPT ![t] = Null]
    /\ pc' = [pc EXCEPT ![t] = "notify"]

\* cond_var_.notify_one: some waiting thread, if there is one, leaves the set.
Notify(t) ==
    /\ pc[t] = "notify"
    /\ IF At("wait") = {}
       THEN pc' = [pc EXCEPT ![t] = "idle"]
       ELSE \E w \in At("wait") : pc' = [pc EXCEPT ![t] = "idle", ![w] = "get"]
    /\ UNCHANGED <<pool, used, conn>>

\* A wait may end without a notification.
SpuriousWakeup(t) ==
    /\ pc[t] = "wait"
    /\ pc' = [pc EXCEPT ![t] = "get"]
    /\ UNCHANGED <<pool, used, conn>>

Step(t) ==
    \/ Call(t)
    \/ Take(t)
    \/ Block(t)
    \/ Return(t)
    \/ Notify(t)
    \/ SpuriousWakeup(t)

Next == \E t \in Threads : Step(t)

Spec == Init /\ [][Next]_vars

(***************************************************************************)
(* Threads run: one that can take the mutex, return or notify does so.     *)
(* The holder's query ends, with a result or an exception, and the wrapper *)
(* is destroyed either way.  Nothing is assumed of callers or of spurious  *)
(* wakeups.                                                                *)
(***************************************************************************)
Fairness ==
    \A t \in Threads :
        WF_vars(Take(t)) /\ WF_vars(Block(t)) /\ WF_vars(Return(t)) /\ WF_vars(Notify(t))

FairSpec == Spec /\ Fairness

-----------------------------------------------------------------------------
(* Safety.                                                                 *)

(***************************************************************************)
(* Every connection is in exactly one place: in one slot or with one       *)
(* thread.  GetConnection and ReturnConnection run in any order on several *)
(* threads and connections come back to other slots than the ones they     *)
(* left: no connection may be handed out twice or lost.                    *)
(***************************************************************************)
EachConnectionInOnePlace ==
    \A c \in Connections :
        /\ (\E i \in Slots : pool[i] = c) <=> ~ \E t \in Threads : conn[t] = c
        /\ \A i, j \in Slots : pool[i] = c /\ pool[j] = c => i = j
        /\ \A t, u \in Threads : conn[t] = c /\ conn[u] = c => t = u

(***************************************************************************)
(* The assertion of ReturnConnection (used_connections_ != 0), and what    *)
(* GetConnection relies on: a thread with a wrapper has a connection in    *)
(* it, and used_connections_ counts these threads.                         *)
(***************************************************************************)
UsedCountsHolders ==
    /\ used = Cardinality(At("hold"))
    /\ \A t \in Threads : pc[t] = "hold" => used # 0 /\ conn[t] # Null

(***************************************************************************)
(* No lost wakeup: while a thread sleeps, every free connection has a      *)
(* thread on its way to it, one that will test the predicate or one that   *)
(* still has to call notify_one.  This is why one notification per return  *)
(* is enough although it is sent after the mutex is released.              *)
(***************************************************************************)
OnTheWay == {t \in Threads : pc[t] \in {"get", "notify"}}
NoLostWakeup == At("wait") # {} => Capacity - used <= Cardinality(OnTheWay)

-----------------------------------------------------------------------------
(* Liveness.                                                               *)

(***************************************************************************)
(* While anybody waits, some caller of GetConnection will find a free      *)
(* connection again.  (Not every waiter: notify_one may always pick        *)
(* another thread, and a new caller may overtake a woken one.)             *)
(***************************************************************************)
WaitingEnds == At("wait") # {} ~> (used < Capacity /\ At("get") # {})

-----------------------------------------------------------------------------
(* What the pool promises: connections are leased to one thread at a time. *)
Lease == INSTANCE ConnectionLease
            WITH lease <- [c \in Connections |-> {t \in Threads : conn[t] = c}]

(* Every step of the pool is a step of the lease, or leaves it as it is.   *)
LeaseSpec == Lease!Spec
=============================================================================
