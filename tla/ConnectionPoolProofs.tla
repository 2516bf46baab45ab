------------------------ MODULE ConnectionPoolProofs ------------------------
(***************************************************************************)
(* Proofs about ConnectionPool, for any finite set of threads and any      *)
(* capacity: connections are never lost or shared, the assertion of        *)
(* ReturnConnection holds, no wakeup is lost, and the pool implements      *)
(* ConnectionLease.                                                        *)
(***************************************************************************)
EXTENDS ConnectionPool, FiniteSetTheorems, TLAPS

(* The handed out slots are the first `used` ones, and exactly the holders *)
(* have a connection.                                                      *)
Shape ==
    /\ \A i \in Slots : pool[i] = Null <=> i < used
    /\ \A t \in Threads : conn[t] # Null <=> pc[t] = "hold"

(* The inductive invariant.  UsedCountsHolders is split: its second half   *)
(* follows from the count and Shape.                                       *)
Counted == used = Cardinality(At("hold"))

IInv ==
    /\ TypeOK
    /\ Shape
    /\ EachConnectionInOnePlace
    /\ Counted
    /\ NoLostWakeup

-----------------------------------------------------------------------------
LEMMA AtFinite ==
    ASSUME NEW place
    PROVE  IsFiniteSet(At(place)) /\ Cardinality(At(place)) \in Nat
BY ThreadsAssumption, FS_Subset, FS_CardinalityType DEF At

LEMMA OnTheWayFinite == IsFiniteSet(OnTheWay) /\ Cardinality(OnTheWay) \in Nat
BY ThreadsAssumption, FS_Subset, FS_CardinalityType DEF OnTheWay

(* The effect of a thread's arrival and departure on a count of threads.   *)
LEMMA OneMore ==
    ASSUME NEW S, NEW x, IsFiniteSet(S), x \notin S
    PROVE  Cardinality(S \cup {x}) = Cardinality(S) + 1
BY FS_AddElement

LEMMA OneLess ==
    ASSUME NEW S, NEW x, IsFiniteSet(S), x \in S
    PROVE  /\ Cardinality(S \ {x}) = Cardinality(S) - 1
           /\ Cardinality(S) >= 1
<1>1. Cardinality(S \ {x}) = Cardinality(S) - 1 /\ IsFiniteSet(S \ {x})
  BY FS_RemoveElement
<1>2. Cardinality(S \ {x}) \in Nat /\ Cardinality(S) \in Nat
  BY <1>1, FS_CardinalityType
<1>. QED  BY <1>1, <1>2

(* used_connections_ is not zero when a wrapper is destroyed.              *)
LEMMA HolderIsCounted ==
    ASSUME IInv, NEW t \in Threads, pc[t] = "hold"
    PROVE  used \in 1 .. Capacity
<1>1. t \in At("hold")
  BY DEF At
<1>2. Cardinality(At("hold")) >= 1
  BY <1>1, AtFinite, OneLess
<1>. QED  BY <1>2, CapacityAssumption DEF IInv, TypeOK, Counted

-----------------------------------------------------------------------------
LEMMA InitIInv == Init => IInv
<1>. SUFFICES ASSUME Init PROVE IInv
  OBVIOUS
<1>1. At("hold") = {} /\ At("wait") = {}
  BY DEF Init, At
<1>2. Counted
  BY <1>1, FS_EmptySet DEF Init, Counted
<1>3. NoLostWakeup
  BY <1>1 DEF NoLostWakeup
<1>4. TypeOK /\ Shape /\ EachConnectionInOnePlace
  BY CapacityAssumption
  DEF Init, TypeOK, Shape, EachConnectionInOnePlace, Slots, Connections, Null, Places
<1>. QED  BY <1>2, <1>3, <1>4 DEF IInv

(* A step that moves one thread between places outside the pool's slots    *)
(* and wrappers keeps everything but, perhaps, the count of wakeups.       *)
LEMMA PlaceChange ==
    ASSUME IInv, UNCHANGED <<pool, used, conn>>,
           pc' \in [Threads -> Places], At("hold")' = At("hold")
    PROVE  TypeOK' /\ Shape' /\ EachConnectionInOnePlace' /\ Counted'
<1>1. \A t \in Threads : pc'[t] = "hold" <=> pc[t] = "hold"
  BY DEF At
<1>. QED  BY <1>1 DEF IInv, TypeOK, Shape, EachConnectionInOnePlace, Counted

LEMMA CallIInv == ASSUME IInv, NEW t \in Threads, Call(t) PROVE IInv'
<1>1. /\ pc' \in [Threads -> Places]
      /\ At("hold")' = At("hold")
      /\ At("wait")' = At("wait")
      /\ OnTheWay' = OnTheWay \cup {t} /\ t \notin OnTheWay
  BY DEF IInv, TypeOK, Call, At, OnTheWay, Places
<1>2. NoLostWakeup'
  BY <1>1, OnTheWayFinite, OneMore, CapacityAssumption
  DEF IInv, TypeOK, NoLostWakeup, Call
<1>. QED  BY <1>1, <1>2, PlaceChange DEF IInv, Call

LEMMA TakeIInv == ASSUME IInv, NEW t \in Threads, Take(t) PROVE IInv'
<1>1. /\ used \in Slots /\ used' = used + 1 /\ pool[used] \in Connections
      /\ pool[used] # Null /\ conn[t] = Null
  BY CapacityAssumption DEF IInv, TypeOK, Shape, Take, Slots
<1>2. /\ At("hold")' = At("hold") \cup {t} /\ t \notin At("hold")
      /\ At("wait")' = At("wait")
      /\ OnTheWay' = OnTheWay \ {t} /\ t \in OnTheWay
  BY DEF IInv, TypeOK, Take, At, OnTheWay
<1>3. TypeOK'
  BY <1>1, CapacityAssumption DEF IInv, TypeOK, Take, Places, Slots
<1>4. Shape'
  BY <1>1 DEF IInv, TypeOK, Shape, Take, Slots, Null
<1>5. EachConnectionInOnePlace'
  BY <1>1 DEF IInv, TypeOK, Take, EachConnectionInOnePlace, Slots, Connections, Null
<1>6. Counted'
  BY <1>1, <1>2, AtFinite, OneMore DEF IInv, Counted
<1>7. NoLostWakeup'
  BY <1>1, <1>2, OnTheWayFinite, OneLess, CapacityAssumption
  DEF IInv, TypeOK, NoLostWakeup
<1>. QED  BY <1>3, <1>4, <1>5, <1>6, <1>7 DEF IInv

LEMMA BlockIInv == ASSUME IInv, NEW t \in Threads, Block(t) PROVE IInv'
<1>1. /\ pc' \in [Threads -> Places]
      /\ At("hold")' = At("hold")
      /\ used' = used /\ used >= Capacity
      /\ OnTheWay' \subseteq Threads
  BY DEF IInv, TypeOK, Block, At, Places, OnTheWay
<1>2. Cardinality(OnTheWay') \in Nat
  BY <1>1, ThreadsAssumption, FS_Subset, FS_CardinalityType
<1>3. NoLostWakeup'
  BY <1>1, <1>2, CapacityAssumption DEF IInv, TypeOK, NoLostWakeup
<1>. QED  BY <1>1, <1>3, PlaceChange DEF IInv, Block

LEMMA ReturnIInv == ASSUME IInv, NEW t \in Threads, Return(t) PROVE IInv'
<1>1. used \in 1 .. Capacity /\ used' = used - 1
  BY HolderIsCounted DEF Return
<1>2. /\ used - 1 \in Slots /\ pool[used - 1] = Null
      /\ conn[t] \in Connections /\ conn[t] # Null
  BY <1>1, CapacityAssumption DEF IInv, TypeOK, Shape, Return, Slots, Connections
<1>3. /\ At("hold")' = At("hold") \ {t} /\ t \in At("hold")
      /\ At("wait")' = At("wait")
      /\ OnTheWay' = OnTheWay \cup {t} /\ t \notin OnTheWay
  BY DEF IInv, TypeOK, Return, At, OnTheWay
<1>4. TypeOK'
  BY <1>1, <1>2, CapacityAssumption DEF IInv, TypeOK, Return, Places
<1>5. Shape'
  BY <1>1, <1>2, CapacityAssumption DEF IInv, TypeOK, Shape, Return, Slots
<1>6. EachConnectionInOnePlace'
  BY <1>1, <1>2 DEF IInv, TypeOK, Return, EachConnectionInOnePlace, Slots, Connections, Null
<1>7. Counted'
  BY <1>1, <1>3, AtFinite, OneLess DEF IInv, Counted
<1>8. NoLostWakeup'
  BY <1>1, <1>3, OnTheWayFinite, OneMore, CapacityAssumption
  DEF IInv, TypeOK, NoLostWakeup
<1>. QED  BY <1>4, <1>5, <1>6, <1>7, <1>8 DEF IInv

LEMMA NotifyIInv == ASSUME IInv, NEW t \in Threads, Notify(t) PROVE IInv'
<1>1. CASE At("wait") = {}
  <2>1. /\ pc' \in [Threads -> Places]
        /\ At("hold")' = At("hold")
        /\ At("wait")' = {}
    BY <1>1 DEF IInv, TypeOK, Notify, At, Places
  <2>. QED  BY <2>1, PlaceChange DEF IInv, Notify, NoLostWakeup
<1>2. CASE At("wait") # {}
  <2>1. PICK w \in At("wait") : pc' = [pc EXCEPT ![t] = "idle", ![w] = "get"]
    BY <1>2 DEF Notify
  <2>2. w \in Threads /\ pc[w] = "wait" /\ w # t /\ pc[t] = "notify"
    BY <2>1 DEF At, Notify
  <2>3. /\ pc' \in [Threads -> Places]
        /\ At("hold")' = At("hold")
        /\ OnTheWay' = (OnTheWay \ {t}) \cup {w}
        /\ t \in OnTheWay /\ w \notin OnTheWay \ {t}
    BY <2>1, <2>2 DEF IInv, TypeOK, At, Places, OnTheWay
  <2>4. IsFiniteSet(OnTheWay \ {t}) /\ Cardinality(OnTheWay \ {t}) = Cardinality(OnTheWay) - 1
    BY <2>3, OnTheWayFinite, FS_RemoveElement
  <2>5. Cardinality(OnTheWay') = Cardinality(OnTheWay)
    BY <2>3, <2>4, OneMore, OnTheWayFinite
  <2>6. NoLostWakeup'
    BY <1>2, <2>5 DEF IInv, NoLostWakeup, Notify
  <2>. QED  BY <2>3, <2>6, PlaceChange DEF IInv, Notify
<1>. QED  BY <1>1, <1>2

LEMMA SpuriousWakeupIInv == ASSUME IInv, NEW t \in Threads, SpuriousWakeup(t) PROVE IInv'
<1>1. /\ pc' \in [Threads -> Places]
      /\ At("hold")' = At("hold")
      /\ t \in At("wait")
      /\ OnTheWay' = OnTheWay \cup {t} /\ t \notin OnTheWay
  BY DEF IInv, TypeOK, SpuriousWakeup, At, OnTheWay, Places
<1>2. NoLostWakeup'
  BY <1>1, OnTheWayFinite, OneMore, CapacityAssumption
  DEF IInv, TypeOK, NoLostWakeup, SpuriousWakeup
<1>. QED  BY <1>1, <1>2, PlaceChange DEF IInv, SpuriousWakeup

LEMMA NextIInv == IInv /\ [Next]_vars => IInv'
<1>. SUFFICES ASSUME IInv, [Next]_vars PROVE IInv'
  OBVIOUS
<1>1. ASSUME NEW t \in Threads, Step(t) PROVE IInv'
  BY <1>1, CallIInv, TakeIInv, BlockIInv, ReturnIInv, NotifyIInv, SpuriousWakeupIInv DEF Step
<1>2. CASE UNCHANGED vars
  BY <1>2 DEF vars, IInv, TypeOK, Shape, EachConnectionInOnePlace, Counted, NoLostWakeup,
              At, OnTheWay
<1>. QED  BY <1>1, <1>2 DEF Next

LEMMA Invariance == Spec => []IInv
BY InitIInv, NextIInv, PTL DEF Spec

-----------------------------------------------------------------------------
(* The counter stays within the pool and the variables have their types:   *)
(* pool_[used_connections_++] and pool_[--used_connections_] never leave   *)
(* the vector.                                                             *)
THEOREM PoolTypeCorrect == Spec => []TypeOK
<1>1. IInv => TypeOK
  BY DEF IInv
<1>. QED  BY <1>1, Invariance, PTL

(* No connection is handed out twice or lost by GetConnection and          *)
(* ReturnConnection, however the threads interleave.                       *)
THEOREM NoConnectionSharedOrLost == Spec => []EachConnectionInOnePlace
<1>1. IInv => EachConnectionInOnePlace
  BY DEF IInv
<1>. QED  BY <1>1, Invariance, PTL

(* assert(used_connections_ != 0) in ReturnConnection never fails.         *)
THEOREM AssertionHolds == Spec => []UsedCountsHolders
<1>1. IInv => UsedCountsHolders
  <2>. SUFFICES ASSUME IInv PROVE UsedCountsHolders
    OBVIOUS
  <2>1. ASSUME NEW t \in Threads, pc[t] = "hold" PROVE used # 0 /\ conn[t] # Null
    BY <2>1, HolderIsCounted DEF IInv, Shape
  <2>. QED  BY <2>1 DEF IInv, Counted, UsedCountsHolders
<1>. QED  BY <1>1, Invariance, PTL

(* One notify_one per ReturnConnection loses no wakeup, for any capacity.  *)
THEOREM WakeupsSuffice == Spec => []NoLostWakeup
<1>1. IInv => NoLostWakeup
  BY DEF IInv
<1>. QED  BY <1>1, Invariance, PTL

-----------------------------------------------------------------------------
(* The pool implements the lease: GetConnection takes a connection nobody  *)
(* has, ReturnConnection ends the caller's own lease, nothing else shows.  *)
Leases == [c \in Connections |-> {t \in Threads : conn[t] = c}]

LEMMA LeaseInit == Init => Lease!Init
BY DEF Init, Lease!Init, Connections, Slots, Null

LEMMA LeaseTake ==
    ASSUME IInv, NEW t \in Threads, Take(t)
    PROVE  \E c \in Connections : Lease!Acquire(t, c)
<1>1. used \in Slots /\ pool[used] \in Connections /\ conn[t] = Null
  BY CapacityAssumption DEF IInv, TypeOK, Shape, Take, Slots
<1>. DEFINE c == pool[used]
<1>2. \A d \in Connections : d # Null
  BY DEF Connections, Slots, Null
<1>3. Lease!Idle(t)
  BY <1>1, <1>2 DEF Lease!Idle
<1>4. Leases[c] = {}
  BY <1>1 DEF IInv, EachConnectionInOnePlace, Leases
<1>5. Leases' = [Leases EXCEPT ![c] = {t}]
  <2>1. conn' = [conn EXCEPT ![t] = c]
    BY DEF Take
  <2>2. \A d \in Connections : {u \in Threads : conn'[u] = d} = IF d = c THEN {t} ELSE Leases[d]
    BY <1>1, <1>2, <1>4, <2>1 DEF IInv, TypeOK, Leases
  <2>. QED  BY <1>1, <2>2 DEF Leases
<1>. QED  BY <1>1, <1>3, <1>4, <1>5 DEF Lease!Acquire, Leases

LEMMA LeaseReturn ==
    ASSUME IInv, NEW t \in Threads, Return(t)
    PROVE  \E c \in Connections : Lease!Release(t, c)
<1>. DEFINE c == conn[t]
<1>1. c \in Connections /\ c # Null
  BY DEF IInv, TypeOK, Shape, Return
<1>2. Leases[c] = {t}
  BY <1>1 DEF IInv, EachConnectionInOnePlace, Leases
<1>3. \A d \in Connections : {u \in Threads : conn'[u] = d} = IF d = c THEN {} ELSE Leases[d]
  <2>1. conn' = [conn EXCEPT ![t] = Null] /\ Null \notin Connections
    BY DEF Return, Connections, Slots, Null
  <2>. QED  BY <1>1, <1>2, <2>1 DEF IInv, TypeOK, Leases
<1>4. Leases' = [Leases EXCEPT ![c] = {}]
  BY <1>1, <1>3 DEF Leases
<1>. QED  BY <1>1, <1>2, <1>4 DEF Lease!Release, Leases

LEMMA LeaseStep == IInv /\ [Next]_vars => [Lease!Next]_Leases
<1>. SUFFICES ASSUME IInv, [Next]_vars PROVE [Lease!Next]_Leases
  OBVIOUS
<1>1. CASE UNCHANGED conn
  BY <1>1 DEF Leases
<1>2. ASSUME NEW t \in Threads, Take(t) \/ Return(t) PROVE Lease!Next
  BY <1>2, LeaseTake, LeaseReturn DEF Lease!Next
<1>3. ASSUME NEW t \in Threads, Call(t) \/ Block(t) \/ Notify(t) \/ SpuriousWakeup(t)
      PROVE  UNCHANGED conn
  BY <1>3 DEF Call, Block, Notify, SpuriousWakeup
<1>. QED  BY <1>1, <1>2, <1>3 DEF Next, Step, vars

(* ConnectionPool refines ConnectionLease.                                 *)
THEOREM PoolImplementsLease == Spec => LeaseSpec
<1>1. Init => Lease!Init
  BY LeaseInit
<1>2. IInv /\ [Next]_vars => [Lease!Next]_Leases
  BY LeaseStep
<1>. QED  BY <1>1, <1>2, Invariance, PTL DEF Spec, LeaseSpec, Lease!Spec, Leases
=============================================================================
