--------------------------- MODULE GameClockProofs ---------------------------
(***************************************************************************)
(* Proofs about the times of the game, for any number of maps and dogs and *)
(* any units, intervals and ticks: the game keeps up with the clock,       *)
(* nobody leaves early, play times are true, and loot follows the dogs.    *)
(***************************************************************************)
EXTENDS GameClock, FiniteSetTheorems, TLAPS

\* Whole milliseconds are not longer than the time, and shorter by less than
\* one.
LEMMA WholeTimes ==
    ASSUME NEW t \in Int, NEW u \in Nat \ {0}
    PROVE  /\ t \div u \in Int
           /\ u * (t \div u) <= t /\ t <= u * (t \div u) + (u - 1)
           /\ t >= 0 => t \div u >= 0
OBVIOUS

\* Multiplication by the unit, for the steps that add times.
LEMMA Distribute ==
    ASSUME NEW u \in Int, NEW a \in Int, NEW b \in Int
    PROVE  u * (a + b) = u * a + u * b /\ u * a \in Int /\ u * b \in Int
OBVIOUS

\* The generator makes at most one item for each looter without one.
LEMMA ShareIsBounded ==
    ASSUME NEW loots \in Nat, NEW looters \in Nat, NEW k \in Int
    PROVE  Generated(loots, looters, k) \in 0 .. Shortage(loots, looters)
<1> DEFINE s == Shortage(loots, looters)
<1> DEFINE reached == {n \in 1 .. s : (2 * n - 1) * 2^k <= 2 * s * (2^k - 1)}
<1>1. s \in Nat
  BY DEF Shortage
<1>2. IsFiniteSet(1 .. s) /\ Cardinality(1 .. s) = s
  BY <1>1, FS_Interval
<1>3. Cardinality(reached) \in 0 .. s
  <2>1. reached \subseteq 1 .. s
    OBVIOUS
  <2> HIDE DEF reached, s
  <2>2. IsFiniteSet(reached) /\ Cardinality(reached) <= Cardinality(1 .. s)
    BY <2>1, <1>2, FS_Subset
  <2> QED
    BY <2>2, <1>2, <1>1, FS_CardinalityType
<1>4. Generated(loots, looters, k) = IF k <= 0 THEN 0 ELSE Cardinality(reached)
  BY DEF Generated, Share
<1> HIDE DEF reached, s
<1>5. Generated(loots, looters, k) \in 0 .. s
  BY <1>1, <1>3, <1>4
<1> QED
  BY <1>5 DEF s

-----------------------------------------------------------------------------
(* The inductive invariant.                                                *)

\* The times of the joins, in this process: the exact one and the one kept.
JoinTimesKept ==
    \A d \in here :
        /\ mode = "test" => Unit * joinTime[d] = joinedAt[d]
        /\ mode = "normal" => /\ joinTime[d] = joinedAt[d] \div Unit
                              /\ joinedAt[d] \in 0 .. now
        /\ ~ backwards => joinedAt[d] \in 0 .. Elapsed

\* The tick that is being handled, for the dogs it has not reached yet.
Pending(d) == IF ~ Idle /\ map[d] \in todo THEN delta ELSE 0

\* A dog is charged with ticks after `since' only.
InactivityIsReal ==
    ~ backwards =>
        \A d \in Playing :
            Unit * (inactivity[d] + Pending(d)) <= ElapsedAtTick - since[d]

\* What is not saved is at most what the timer has counted and what was missed.
TimerCounts ==
    LET counted == unsaved - missed - (IF Idle THEN 0 ELSE delta)
    IN  ~ backwards => /\ counted < SaveInterval /\ counted <= saveTimer
                       /\ ~ Idle => delta >= 0

Clocks ==
    /\ lastTick <= now
    /\ mode = "test" => now = 0 /\ lastTick = 0 /\ accumulated = gameTime
    /\ ~ backwards => gameTime >= 0
    /\ Idle => todo = {}
    /\ \A d \in Playing : map[d] \in sessions

DogsCounted == \A m \in Maps : Cardinality(DogsOn(m)) <= most[m]

IInv ==
    /\ TypeOK
    /\ Clocks
    /\ GameKeepsUp
    /\ JoinTimesKept
    /\ InactivityIsReal
    /\ TimerCounts
    /\ DogsCounted
    /\ LootFollowsDogs

-----------------------------------------------------------------------------
(* The initial states.                                                     *)

LEMMA DogsAreFinite ==
    ASSUME TypeOK, NEW m \in Maps
    PROVE  IsFiniteSet(DogsOn(m)) /\ Cardinality(DogsOn(m)) \in Nat
<1>1. DogsOn(m) \subseteq Dogs
  BY DEF DogsOn
<1>2. IsFiniteSet(DogsOn(m))
  BY <1>1, FiniteAssumption, FS_Subset
<1> QED
  BY <1>2, FS_CardinalityType

LEMMA InvariantInit == Init => IInv
<1> SUFFICES ASSUME Init PROVE IInv
  OBVIOUS
<1> USE TimesAssumption, UnitAssumption, InputAssumption DEF Init
<1>1. \A m \in Maps : IsFiniteSet(DogsOn(m)) /\ Cardinality(DogsOn(m)) \in Nat
  <2> SUFFICES ASSUME NEW m \in Maps
               PROVE  IsFiniteSet(DogsOn(m)) /\ Cardinality(DogsOn(m)) \in Nat
    OBVIOUS
  <2>1. DogsOn(m) \subseteq Dogs
    BY DEF DogsOn
  <2>2. IsFiniteSet(DogsOn(m))
    BY <2>1, FiniteAssumption, FS_Subset
  <2> QED
    BY <2>2, FS_CardinalityType
<1>2. TypeOK
  <2>1. joinTime \in [Dogs -> Int]
    OBVIOUS
  <2>2. most \in [Maps -> Nat]
    BY <1>1
  <2>3. /\ sessions \subseteq Maps /\ map \in [Dogs -> Maps \cup {NoMap}]
        /\ inactivity \in [Dogs -> Int] /\ loot \in [Maps -> Int]
    OBVIOUS
  <2>4. /\ delta \in Int \cup {NoTick} /\ todo \subseteq sessions
        /\ joinedAt \in [Dogs -> Int] /\ here \subseteq Dogs /\ since \in [Dogs -> Int]
    OBVIOUS
  <2>5. /\ mode \in {"normal", "test"} /\ now \in Nat /\ lastTick \in Nat
        /\ accumulated \in Int /\ withoutLoot \in Int /\ saveTimer \in Int
        /\ gameTime \in Int /\ ticks \in Nat
        /\ unsaved \in Int /\ missed \in Int /\ faults \in Nat
    OBVIOUS
  <2>6. backwards \in BOOLEAN
    OBVIOUS
  <2> HIDE DEF Init
  <2> QED
    BY <2>1, <2>2, <2>3, <2>4, <2>5, <2>6 DEF TypeOK
<1>3. Clocks
  <2>1. \A d \in Playing : map[d] \in sessions
    BY DEF Playing, DogsOn
  <2> QED
    BY <2>1 DEF Clocks, Idle
<1>4. GameKeepsUp
  BY DEF GameKeepsUp
<1>5. JoinTimesKept
  BY DEF JoinTimesKept
<1>6. InactivityIsReal
  BY DEF InactivityIsReal, Pending, Idle, Playing, ElapsedAtTick
<1>7. TimerCounts
  BY DEF TimerCounts, Idle
<1>8. DogsCounted
  BY <1>1 DEF DogsCounted
<1>9. LootFollowsDogs
  BY <1>1 DEF LootFollowsDogs
<1> QED
  BY <1>2, <1>3, <1>4, <1>5, <1>6, <1>7, <1>8, <1>9 DEF IInv

-----------------------------------------------------------------------------
(* Types.                                                                  *)

LEMMA RealTimeTyped == TypeOK => GetCurrentTime \in Int /\ Elapsed \in Int /\ ElapsedAtTick \in Int
<1> SUFFICES ASSUME TypeOK PROVE GetCurrentTime \in Int /\ Elapsed \in Int /\ ElapsedAtTick \in Int
  OBVIOUS
<1>1. now \div Unit \in Int
  BY UnitAssumption, WholeTimes DEF TypeOK
<1> QED
  BY <1>1, UnitAssumption DEF TypeOK, GetCurrentTime, Elapsed, ElapsedAtTick

\* A visit leaves at most the loot that was there and what was made.
LEMMA LootStep ==
    ASSUME TypeOK, LootFollowsDogs, DogsCounted, NEW m \in Maps, NEW go, UpdateLoot(m, go),
           delta \in Int
    PROVE  /\ loot' \in [Maps -> Int] /\ withoutLoot' \in Int
           /\ \A n \in Maps : loot'[n] \in 0 .. most[n]
<1> DEFINE k == LootTime \div BaseInterval
<1> DEFINE n == Generated(loot[m], Cardinality(DogsOn(m)), k)
<1>1. LootTime \in Int
  BY DEF TypeOK, LootTime
<1>2. k \in Int
  BY <1>1, TimesAssumption, WholeTimes
<1>3. /\ loot[m] \in 0 .. most[m] /\ most[m] \in Nat
      /\ Cardinality(DogsOn(m)) \in Nat /\ Cardinality(DogsOn(m)) <= most[m]
  BY DogsAreFinite DEF TypeOK, LootFollowsDogs, DogsCounted
<1>4. n \in 0 .. Shortage(loot[m], Cardinality(DogsOn(m)))
  <2> DEFINE c == Cardinality(DogsOn(m))
  <2>1. loot[m] \in Nat /\ c \in Nat
    BY <1>3
  <2> HIDE DEF k, c
  <2>2. Generated(loot[m], c, k) \in 0 .. Shortage(loot[m], c)
    BY <1>2, <2>1, ShareIsBounded
  <2> QED
    BY <2>2 DEF c
<1>5. /\ withoutLoot' = IF n > 0 THEN 0 ELSE LootTime
      /\ \E left \in 0 .. loot[m] + n : loot' = [loot EXCEPT ![m] = left]
  BY DEF UpdateLoot
<1>6. loot[m] + n <= most[m]
  <2> HIDE DEF n
  <2> QED
    BY <1>3, <1>4 DEF Shortage
<1> HIDE DEF n
<1>7. PICK left \in 0 .. loot[m] + n : loot' = [loot EXCEPT ![m] = left]
  BY <1>5
<1> QED
  BY <1>1, <1>3, <1>4, <1>5, <1>6, <1>7 DEF TypeOK, LootFollowsDogs

LEMMA TypeStep == IInv /\ [Next]_vars => TypeOK'
<1>a. SUFFICES ASSUME IInv, [Next]_vars PROVE TypeOK'
  OBVIOUS
<1>b. GetCurrentTime \in Int /\ Elapsed \in Int /\ ElapsedAtTick \in Int
  BY <1>a, RealTimeTyped DEF IInv
<1>c. TypeOK
  BY <1>a DEF IInv
<1> USE DEF clocks, dogs, ground, update, past, count, trouble
<1>1. ASSUME NEW t \in 1 .. MaxNow, TimePasses(t) PROVE TypeOK'
  BY <1>1, <1>c DEF TimePasses, TypeOK
<1>2. ASSUME NEW d \in Dogs, NEW m \in Maps, Join(d, m) PROVE TypeOK'
  <2>1. Cardinality(DogsOn(m)) \in Nat
    BY <1>c, DogsAreFinite
  <2>2. most' \in [Maps -> Nat]
    BY <1>2, <1>c, <2>1 DEF Join, TypeOK
  <2> QED
    BY <1>2, <1>b, <1>c, <2>2 DEF Join, TypeOK
<1>3. ASSUME NEW d \in Dogs, MakeAction(d) PROVE TypeOK'
  BY <1>3, <1>b, <1>c DEF MakeAction, TypeOK
<1>4. ASSUME OnTick PROVE TypeOK'
  <2>1. (now - lastTick) \div Unit \in Int
    BY <1>c, UnitAssumption, WholeTimes DEF TypeOK
  <2> QED
    BY <1>4, <1>c, <2>1 DEF OnTick, BeginUpdate, WholeMilliseconds, TypeOK
<1>5. ASSUME NEW t \in TestDeltas, TickResponse(t) PROVE TypeOK'
  BY <1>5, <1>c, InputAssumption DEF TickResponse, BeginUpdate, TypeOK
<1>6. ASSUME NEW m \in Maps, NEW go \in SUBSET DogsOn(m), ~ Idle, MoveAndGather(m, go)
      PROVE  /\ delta \in Int
             /\ inactivity' \in [Dogs -> Int] /\ since' \in [Dogs -> Int]
             /\ loot' \in [Maps -> Int] /\ withoutLoot' \in Int
  <2>1. delta \in Int
    BY <1>6, <1>c DEF TypeOK, Idle
  <2>2. loot' \in [Maps -> Int] /\ withoutLoot' \in Int
    BY <1>6, <1>a, <2>1, LootStep DEF MoveAndGather, IInv
  <2> QED
    BY <1>6, <1>b, <1>c, <2>1, <2>2 DEF MoveAndGather, UpdateInactivity, TypeOK
<1>7. ASSUME NEW m \in Maps, NEW go \in SUBSET DogsOn(m), VisitSession(m, go) PROVE TypeOK'
  BY <1>6, <1>7, <1>c DEF VisitSession, Remove, TypeOK
<1>8. ASSUME NEW m \in Maps, NEW go \in SUBSET DogsOn(m), NEW leaving \in SUBSET DogsOn(m),
             VisitFails(m, go, leaving)
      PROVE  TypeOK'
  <2>1. faults' \in Nat
    BY <1>8, <1>c DEF VisitFails, TypeOK
  <2> QED
    BY <1>6, <1>8, <1>c, <2>1 DEF VisitFails, Remove, TypeOK
<1>9. ASSUME EndUpdate PROVE TypeOK'
  BY <1>9, <1>c DEF EndUpdate, TypeOK, Idle
<1>10. ASSUME SaveFails PROVE TypeOK'
  BY <1>10, <1>c DEF SaveFails, TypeOK, Idle
<1>11. ASSUME UNCHANGED vars PROVE TypeOK'
  BY <1>11, <1>c DEF vars, TypeOK
<1> QED
  BY <1>a, <1>1, <1>2, <1>3, <1>4, <1>5, <1>7, <1>8, <1>9, <1>10, <1>11 DEF Next

-----------------------------------------------------------------------------
(* The clocks.                                                             *)

\* The ticks of the normal mode.
LEMMA TickLength ==
    ASSUME TypeOK, Clocks
    PROVE  LET t == WholeMilliseconds(now - lastTick)
           IN  t \in Nat /\ Unit * t <= now - lastTick /\ now - lastTick <= Unit * t + (Unit - 1)
<1> DEFINE x == now - lastTick
<1>1. x \in Int /\ x >= 0 /\ Unit \in Nat \ {0}
  BY UnitAssumption DEF TypeOK, Clocks
<1> HIDE DEF x
<1>2. /\ x \div Unit \in Nat /\ Unit * (x \div Unit) <= x
      /\ x <= Unit * (x \div Unit) + (Unit - 1)
  BY <1>1, WholeTimes
<1> QED
  BY <1>2 DEF x, WholeMilliseconds

\* A game that has not gone backwards had no negative tick.
LEMMA ForwardTick ==
    ASSUME NEW t \in Int, BeginUpdate(t), ~ backwards'
    PROVE  ~ backwards /\ t >= 0
<1>1. ~ backwards /\ ~ (t < 0)
  BY Zenon DEF BeginUpdate
<1> QED
  BY <1>1

LEMMA ClocksStep == IInv /\ [Next]_vars => Clocks'
<1>a. SUFFICES ASSUME IInv, [Next]_vars PROVE Clocks'
  OBVIOUS
<1>b. TypeOK /\ Clocks
  BY <1>a DEF IInv
<1> USE <1>b DEF TypeOK, Clocks, Idle, Playing, clocks, dogs, ground, update, past, count, trouble
<1>1. ASSUME NEW t \in 1 .. MaxNow, TimePasses(t) PROVE Clocks'
  BY <1>1 DEF TimePasses
<1>2. ASSUME NEW d \in Dogs, NEW m \in Maps, Join(d, m) PROVE Clocks'
  BY <1>2 DEF Join
<1>3. ASSUME NEW d \in Dogs, MakeAction(d) PROVE Clocks'
  BY <1>3 DEF MakeAction
<1>4. ASSUME OnTick PROVE Clocks'
  <2>1. WholeMilliseconds(now - lastTick) \in Nat
    BY TickLength
  <2>2. ~ backwards' => ~ backwards
    BY <1>4, <2>1, ForwardTick DEF OnTick
  <2> QED
    BY <1>4, <2>1, <2>2, NamesAssumption DEF OnTick, BeginUpdate
<1>5. ASSUME NEW t \in TestDeltas, TickResponse(t) PROVE Clocks'
  BY <1>5, InputAssumption, NamesAssumption DEF TickResponse, BeginUpdate
<1>6. ASSUME NEW m \in Maps, NEW go \in SUBSET DogsOn(m), VisitSession(m, go) PROVE Clocks'
  BY <1>6 DEF VisitSession, MoveAndGather, Remove
<1>7. ASSUME NEW m \in Maps, NEW go \in SUBSET DogsOn(m), NEW leaving \in SUBSET DogsOn(m),
             VisitFails(m, go, leaving)
      PROVE  Clocks'
  BY <1>7 DEF VisitFails, MoveAndGather, Remove
<1>8. ASSUME EndUpdate PROVE Clocks'
  BY <1>8 DEF EndUpdate
<1>9. ASSUME SaveFails PROVE Clocks'
  BY <1>9 DEF SaveFails
<1>10. ASSUME UNCHANGED vars PROVE Clocks'
  BY <1>10 DEF vars
<1> QED
  BY <1>a, <1>1, <1>2, <1>3, <1>4, <1>5, <1>6, <1>7, <1>8, <1>9, <1>10 DEF Next

LEMMA GameKeepsUpStep == IInv /\ [Next]_vars => GameKeepsUp'
<1>a. SUFFICES ASSUME IInv, [Next]_vars PROVE GameKeepsUp'
  OBVIOUS
<1>b. TypeOK /\ Clocks /\ GameKeepsUp
  BY <1>a DEF IInv
<1>1. ASSUME OnTick PROVE GameKeepsUp'
  <2> DEFINE t == (now - lastTick) \div Unit
  <2>1. /\ t \in Int /\ Unit * t <= now - lastTick
        /\ now - lastTick <= Unit * t + (Unit - 1)
    BY <1>b, UnitAssumption, WholeTimes DEF TypeOK
  <2>2. /\ lastTick' = now /\ gameTime' = gameTime + t /\ ticks' = ticks + 1 /\ mode' = mode
    BY <1>1 DEF OnTick, BeginUpdate, WholeMilliseconds
  <2> HIDE DEF t
  <2>3. Unit * (gameTime + t) = Unit * gameTime + Unit * t
    BY <1>b, <2>1, UnitAssumption, Distribute DEF TypeOK
  <2>4. (Unit - 1) * (ticks + 1) = (Unit - 1) * ticks + (Unit - 1) /\ (Unit - 1) * ticks \in Int
    BY <1>b, UnitAssumption, Distribute DEF TypeOK
  <2>5. Unit * gameTime \in Int /\ Unit * t \in Int
    BY <1>b, <2>1, UnitAssumption, Distribute DEF TypeOK
  <2>6. mode = "normal"
    BY <1>1 DEF OnTick
  <2> QED
    BY <1>b, <2>1, <2>2, <2>3, <2>4, <2>5, <2>6, UnitAssumption DEF GameKeepsUp, TypeOK
<1>2. ASSUME NEW t \in TestDeltas, TickResponse(t) PROVE GameKeepsUp'
  BY <1>2 DEF TickResponse, BeginUpdate, GameKeepsUp
<1>3. ASSUME UNCHANGED <<mode, lastTick, gameTime, ticks>> PROVE GameKeepsUp'
  BY <1>b, <1>3 DEF GameKeepsUp
<1>4. CASE UNCHANGED vars
  BY <1>3, <1>4 DEF vars, clocks, count
<1>5. CASE \E t \in 1 .. MaxNow : TimePasses(t)
  BY <1>3, <1>5 DEF TimePasses, count
<1>6. CASE \/ \E d \in Dogs, m \in Maps : Join(d, m)
           \/ \E d \in Dogs : MakeAction(d)
  BY <1>3, <1>6 DEF Join, MakeAction, clocks, count
<1>7. CASE \/ \E m \in Maps : \E go \in SUBSET DogsOn(m) : VisitSession(m, go)
           \/ \E m \in Maps : \E go, leaving \in SUBSET DogsOn(m) : VisitFails(m, go, leaving)
  BY <1>3, <1>7 DEF VisitSession, VisitFails, clocks, count
<1>8. CASE EndUpdate \/ SaveFails
  BY <1>3, <1>8 DEF EndUpdate, SaveFails, clocks, count
<1> QED
  BY <1>a, <1>1, <1>2, <1>4, <1>5, <1>6, <1>7, <1>8 DEF Next

LEMMA JoinTimesStep == IInv /\ [Next]_vars => JoinTimesKept'
<1>a. SUFFICES ASSUME IInv, [Next]_vars PROVE JoinTimesKept'
  OBVIOUS
<1>b. TypeOK /\ Clocks /\ JoinTimesKept
  BY <1>a DEF IInv
<1>1. ASSUME NEW t \in 1 .. MaxNow, TimePasses(t) PROVE JoinTimesKept'
  <2>1. /\ mode = "normal" /\ mode' = mode /\ now' = now + t
        /\ UNCHANGED <<joinTime, joinedAt, here, backwards, accumulated>>
    BY <1>1 DEF TimePasses, dogs, past, count
  <2> QED
    BY <1>b, <2>1 DEF JoinTimesKept, Elapsed, TypeOK
<1>2. ASSUME NEW d \in Dogs, NEW m \in Maps, Join(d, m) PROVE JoinTimesKept'
  <2>1. /\ joinTime' = [joinTime EXCEPT ![d] = GetCurrentTime]
        /\ joinedAt' = [joinedAt EXCEPT ![d] = Elapsed]
        /\ here' = here \cup {d}
        /\ UNCHANGED <<mode, now, backwards, accumulated>>
    BY <1>2 DEF Join, clocks, count
  <2>2. CASE mode = "test"
    <3>1. GetCurrentTime = accumulated /\ Elapsed = Unit * accumulated
      BY <2>2 DEF GetCurrentTime, Elapsed
    <3>2. Unit * accumulated \in Int /\ (~ backwards => Unit * accumulated >= 0)
      BY <1>b, <2>2, UnitAssumption DEF Clocks, TypeOK
    <3>3. Elapsed' = Unit * accumulated
      BY <2>1, <2>2 DEF Elapsed
    <3> QED
      BY <1>b, <2>1, <2>2, <3>1, <3>2, <3>3 DEF JoinTimesKept, TypeOK
  <2>3. CASE mode = "normal"
    <3>1. GetCurrentTime = now \div Unit /\ Elapsed = now /\ Elapsed' = now
      BY <2>1, <2>3 DEF GetCurrentTime, Elapsed
    <3> QED
      BY <1>b, <2>1, <2>3, <3>1 DEF JoinTimesKept, TypeOK
  <2> QED
    BY <1>b, <2>2, <2>3 DEF TypeOK
<1>3. ASSUME NEW t \in TestDeltas, TickResponse(t) PROVE JoinTimesKept'
  <2>1. /\ mode = "test" /\ mode' = mode /\ accumulated' = accumulated + t
        /\ backwards' = (backwards \/ t < 0)
        /\ UNCHANGED <<joinTime, joinedAt, here, now>>
    BY <1>3 DEF TickResponse, BeginUpdate, dogs, past
  <2>2. Unit * (accumulated + t) = Unit * accumulated + Unit * t
    BY <1>b, UnitAssumption, InputAssumption, Distribute DEF TypeOK
  <2>3. ~ backwards' => ~ backwards /\ t >= 0 /\ Unit * t >= 0
    <3>1. ~ backwards' => ~ backwards /\ t >= 0
      BY <1>3, InputAssumption, ForwardTick DEF TickResponse
    <3> QED
      BY <3>1, UnitAssumption, InputAssumption
  <2>4. Unit * t \in Int /\ Unit * accumulated \in Int
    BY <1>b, UnitAssumption, InputAssumption, Distribute DEF TypeOK
  <2> QED
    BY <1>b, <2>1, <2>2, <2>3, <2>4, InputAssumption DEF JoinTimesKept, Elapsed, TypeOK
<1>4. ASSUME UNCHANGED <<mode, now, accumulated, joinTime, joinedAt, here, backwards>>
      PROVE  JoinTimesKept'
  BY <1>b, <1>4 DEF JoinTimesKept, Elapsed
<1>5. ASSUME OnTick PROVE JoinTimesKept'
  <2>1. WholeMilliseconds(now - lastTick) \in Nat
    BY <1>b, TickLength
  <2>3. ~ backwards' => ~ backwards
    BY <1>5, <2>1, ForwardTick DEF OnTick
  <2> QED
    BY <1>b, <1>5, <2>3 DEF OnTick, dogs, past, JoinTimesKept, Elapsed
<1>6. CASE UNCHANGED vars
  BY <1>4, <1>6 DEF vars, clocks, dogs, past, count
<1>7. ASSUME NEW d \in Dogs, MakeAction(d) PROVE JoinTimesKept'
  BY <1>4, <1>7 DEF MakeAction, clocks, count
<1>8. CASE \/ \E m \in Maps : \E go \in SUBSET DogsOn(m) : VisitSession(m, go)
           \/ \E m \in Maps : \E go, leaving \in SUBSET DogsOn(m) : VisitFails(m, go, leaving)
  BY <1>4, <1>8 DEF VisitSession, VisitFails, clocks, count
<1>9. CASE EndUpdate \/ SaveFails
  BY <1>4, <1>9 DEF EndUpdate, SaveFails, clocks, dogs, past, count
<1> QED
  BY <1>a, <1>1, <1>2, <1>3, <1>5, <1>6, <1>7, <1>8, <1>9 DEF Next

-----------------------------------------------------------------------------
(* The inactivity.                                                         *)

\* A session is visited: those who move start again, the others have been
\* charged with the tick.
LEMMA VisitKeepsInactivity ==
    ASSUME IInv, ~ backwards, ~ Idle,
           NEW m \in Maps, NEW go \in SUBSET DogsOn(m), MoveAndGather(m, go),
           NEW d \in Playing
    PROVE  /\ inactivity'[d] \in Int /\ since'[d] \in Int
           /\ Unit * inactivity'[d] <= ElapsedAtTick - since'[d]
           /\ map[d] # m => inactivity'[d] = inactivity[d] /\ since'[d] = since[d]
<1>1. /\ TypeOK /\ delta \in Int /\ delta >= 0 /\ m \in todo /\ d \in Dogs
      /\ ElapsedAtTick \in Int /\ Unit \in Nat
  BY RealTimeTyped, UnitAssumption DEF IInv, TypeOK, TimerCounts, Idle, MoveAndGather, Playing
<1>2. Unit * (inactivity[d] + Pending(d)) <= ElapsedAtTick - since[d]
  BY DEF IInv, InactivityIsReal
<1>3. inactivity'[d] = IF map[d] # m THEN inactivity[d]
                       ELSE IF d \in go THEN 0 ELSE inactivity[d] + delta
  BY <1>1 DEF MoveAndGather, UpdateInactivity
<1>4. since'[d] = IF d \in go THEN ElapsedAtTick ELSE since[d]
  BY <1>1 DEF MoveAndGather
<1>5. d \in go => map[d] = m
  BY DEF DogsOn
<1>6. inactivity[d] \in Int /\ since[d] \in Int
  BY <1>1 DEF TypeOK
<1>7. Unit * (inactivity[d] + delta) = Unit * inactivity[d] + Unit * delta
      /\ Unit * inactivity[d] \in Int /\ Unit * delta \in Nat
  BY <1>1, <1>6
<1>8. Pending(d) = IF map[d] \in todo THEN delta ELSE 0
  BY DEF Pending
<1>9. Unit * inactivity[d] <= ElapsedAtTick - since[d]
  <2>1. CASE map[d] \in todo
    BY <1>1, <1>2, <1>6, <1>7, <1>8, <2>1
  <2>2. CASE map[d] \notin todo
    <3>1. inactivity[d] + Pending(d) = inactivity[d]
      BY <1>6, <1>8, <2>2
    <3> QED
      BY <1>2, <3>1
  <2> QED
    BY <2>1, <2>2
<1>10. CASE map[d] # m
  BY <1>1, <1>3, <1>4, <1>5, <1>6, <1>9, <1>10
<1>11. CASE d \in go
  BY <1>1, <1>3, <1>4, <1>5, <1>11
<1>12. CASE map[d] = m /\ d \notin go
  <2>1. Pending(d) = delta
    BY <1>1, <1>8, <1>12
  <2>2. inactivity'[d] = inactivity[d] + delta /\ since'[d] = since[d]
    BY <1>3, <1>4, <1>12
  <2> QED
    BY <1>1, <1>2, <1>6, <1>12, <2>1, <2>2
<1> QED
  BY <1>10, <1>11, <1>12

LEMMA InactivityStep == IInv /\ [Next]_vars => InactivityIsReal'
<1>a. SUFFICES ASSUME IInv, [Next]_vars, ~ backwards', NEW d \in Playing'
               PROVE  Unit * (inactivity'[d] + Pending(d)') <= ElapsedAtTick' - since'[d]
  BY DEF InactivityIsReal
<1>b. TypeOK /\ Clocks /\ InactivityIsReal /\ d \in Dogs
  BY <1>a DEF IInv, Playing
<1>c. /\ inactivity[d] \in Int /\ since[d] \in Int /\ Unit \in Nat \ {0}
      /\ ElapsedAtTick \in Int
  BY <1>b, UnitAssumption, RealTimeTyped DEF TypeOK
<1>d. ~ backwards /\ d \in Playing =>
          Unit * (inactivity[d] + Pending(d)) <= ElapsedAtTick - since[d]
  BY <1>b DEF InactivityIsReal
<1> DEFINE Goal == Unit * (inactivity'[d] + Pending(d)') <= ElapsedAtTick' - since'[d]
<1> USE DEF Idle
<1>1. ASSUME NEW t \in 1 .. MaxNow, TimePasses(t) PROVE Goal
  BY <1>a, <1>1, <1>d DEF TimePasses, dogs, update, past, count, Pending, Playing, ElapsedAtTick
<1>2. ASSUME NEW e \in Dogs, NEW m \in Maps, Join(e, m) PROVE Goal
  <2>1. /\ ElapsedAtTick' = ElapsedAtTick /\ ~ backwards /\ Pending(d)' = 0 /\ Pending(d) = 0
    BY <1>a, <1>2 DEF Join, clocks, update, count, ElapsedAtTick, Pending
  <2>2. CASE d = e
    <3>1. inactivity'[d] = 0 /\ since'[d] = ElapsedAtTick
      BY <1>2, <1>b, <2>2 DEF Join, TypeOK
    <3> QED
      BY <1>c, <2>1, <3>1
  <2>3. CASE d # e
    <3>1. inactivity'[d] = inactivity[d] /\ since'[d] = since[d] /\ d \in Playing
      BY <1>a, <1>2, <1>b, <2>3 DEF Join, TypeOK, Playing
    <3> QED
      BY <1>d, <2>1, <3>1
  <2> QED
    BY <2>2, <2>3
<1>3. ASSUME NEW e \in Dogs, MakeAction(e) PROVE Goal
  <2>1. /\ ElapsedAtTick' = ElapsedAtTick /\ ~ backwards /\ Pending(d)' = 0 /\ Pending(d) = 0
        /\ d \in Playing
    BY <1>a, <1>3 DEF MakeAction, clocks, update, count, ElapsedAtTick, Pending, Playing
  <2>2. CASE d = e
    <3>1. inactivity'[d] = 0 /\ since'[d] = ElapsedAtTick
      BY <1>3, <1>b, <2>2 DEF MakeAction, TypeOK
    <3> QED
      BY <1>c, <2>1, <3>1
  <2>3. CASE d # e
    <3>1. inactivity'[d] = inactivity[d] /\ since'[d] = since[d]
      BY <1>3, <1>b, <2>3 DEF MakeAction, TypeOK
    <3> QED
      BY <1>d, <2>1, <3>1
  <2> QED
    BY <2>2, <2>3
<1>4. ASSUME NEW t \in Int, BeginUpdate(t), UNCHANGED <<map, inactivity, since>>,
             ElapsedAtTick' \in Int, Unit * t <= ElapsedAtTick' - ElapsedAtTick
      PROVE  Goal
  <2>1. ~ backwards /\ d \in Playing /\ Pending(d) = 0
    BY <1>a, <1>4, ForwardTick DEF Playing, Pending, BeginUpdate
  <2>2. Pending(d)' = t
    <3>1. map[d] \in sessions
      BY <1>b, <2>1 DEF Clocks
    <3> QED
      BY <1>4, <3>1, NamesAssumption DEF Pending, BeginUpdate
  <2>3. Unit * inactivity[d] <= ElapsedAtTick - since[d]
    <3>1. inactivity[d] + Pending(d) = inactivity[d]
      BY <1>c, <2>1
    <3> QED
      BY <1>d, <2>1, <3>1
  <2>4. /\ Unit * (inactivity[d] + t) = Unit * inactivity[d] + Unit * t
        /\ Unit * inactivity[d] \in Int /\ Unit * t \in Int
    BY <1>c, Distribute
  <2>5. inactivity'[d] = inactivity[d] /\ since'[d] = since[d] /\ Pending(d)' = t
    BY <1>4, <2>2
  <2>6. Unit * (inactivity[d] + t) <= ElapsedAtTick' - since[d]
    <3> DEFINE a == Unit * inactivity[d]
    <3> DEFINE b == Unit * t
    <3>1. /\ Unit * (inactivity[d] + t) = a + b /\ a \in Int /\ b \in Int
          /\ a <= ElapsedAtTick - since[d] /\ b <= ElapsedAtTick' - ElapsedAtTick
      BY <1>4, <2>3, <2>4
    <3> DEFINE e == ElapsedAtTick
    <3> DEFINE f == ElapsedAtTick'
    <3> DEFINE s == since[d]
    <3>2. /\ a <= e - s /\ b <= f - e /\ a \in Int /\ b \in Int
          /\ e \in Int /\ f \in Int /\ s \in Int
      BY <1>c, <1>4, <3>1
    <3> HIDE DEF a, b, e, f, s
    <3>3. a + b <= f - s
      BY <3>2
    <3> QED
      BY <3>1, <3>3 DEF f, s
  <2> QED
    BY <2>5, <2>6
<1>5. ASSUME OnTick PROVE Goal
  <2>1. /\ WholeMilliseconds(now - lastTick) \in Nat
        /\ Unit * WholeMilliseconds(now - lastTick) <= now - lastTick
    BY <1>b, TickLength
  <2>2. ElapsedAtTick = lastTick /\ ElapsedAtTick' = now
    BY <1>5 DEF OnTick, ElapsedAtTick
  <2> QED
    BY <1>b, <1>4, <1>5, <2>1, <2>2 DEF OnTick, dogs, past, TypeOK
<1>6. ASSUME NEW t \in TestDeltas, TickResponse(t) PROVE Goal
  <2>1. t \in Int /\ accumulated \in Int
    BY <1>b, InputAssumption DEF TypeOK
  <2>2. ElapsedAtTick = Unit * accumulated /\ ElapsedAtTick' = Unit * (accumulated + t)
    BY <1>6 DEF TickResponse, ElapsedAtTick
  <2>3. /\ Unit * (accumulated + t) = Unit * accumulated + Unit * t
        /\ Unit * accumulated \in Int /\ Unit * t \in Int
    BY <1>c, <2>1, Distribute
  <2>4. UNCHANGED <<map, inactivity, since>> /\ BeginUpdate(t)
    BY <1>6 DEF TickResponse, dogs, past
  <2>5. ElapsedAtTick' \in Int /\ Unit * t <= ElapsedAtTick' - ElapsedAtTick
    BY <2>2, <2>3
  <2> QED
    BY <1>4, <2>1, <2>4, <2>5
<1>7. ASSUME NEW m \in Maps, NEW go \in SUBSET DogsOn(m), VisitSession(m, go) PROVE Goal
  <2>1. /\ ~ Idle /\ MoveAndGather(m, go) /\ ~ backwards /\ d \in Playing /\ map'[d] = map[d]
        /\ delta' = delta /\ todo' = todo \ {m} /\ ElapsedAtTick' = ElapsedAtTick
    BY <1>a, <1>7 DEF VisitSession, Remove, Playing, clocks, count, ElapsedAtTick
  <2>2. CASE map[d] \in todo'
    <3>1. map[d] # m /\ inactivity'[d] = inactivity[d] /\ since'[d] = since[d]
      BY <1>a, <2>1, <2>2, VisitKeepsInactivity
    <3>2. Pending(d)' = Pending(d)
      BY <2>1, <2>2 DEF Pending
    <3> QED
      BY <1>d, <2>1, <3>1, <3>2
  <2>3. CASE map[d] \notin todo'
    <3>1. Pending(d)' = 0
      BY <2>1, <2>3 DEF Pending
    <3>2. inactivity'[d] \in Int /\ Unit * inactivity'[d] <= ElapsedAtTick - since'[d]
      BY <1>a, <2>1, VisitKeepsInactivity
    <3> QED
      BY <2>1, <3>1, <3>2
  <2> QED
    BY <2>2, <2>3
<1>8. ASSUME NEW m \in Maps, NEW go \in SUBSET DogsOn(m), NEW leaving \in SUBSET DogsOn(m),
             VisitFails(m, go, leaving)
      PROVE  Goal
  <2>1. /\ ~ Idle /\ MoveAndGather(m, go) /\ ~ backwards /\ d \in Playing
        /\ ElapsedAtTick' = ElapsedAtTick /\ Pending(d)' = 0
    BY <1>a, <1>8 DEF VisitFails, Remove, Playing, clocks, count, ElapsedAtTick, Pending
  <2>2. inactivity'[d] \in Int /\ Unit * inactivity'[d] <= ElapsedAtTick - since'[d]
    BY <1>a, <2>1, VisitKeepsInactivity
  <2> QED
    BY <2>1, <2>2
<1>9. ASSUME EndUpdate \/ SaveFails PROVE Goal
  <2>1. /\ ~ backwards /\ d \in Playing /\ ElapsedAtTick' = ElapsedAtTick
        /\ inactivity'[d] = inactivity[d] /\ since'[d] = since[d] /\ Pending(d)' = 0
    BY <1>a, <1>9 DEF EndUpdate, SaveFails, Playing, clocks, dogs, past, count, ElapsedAtTick, Pending
  <2>2. Pending(d) = 0
    BY <1>9 DEF EndUpdate, SaveFails, Pending
  <2> QED
    BY <1>d, <2>1, <2>2
<1>10. ASSUME UNCHANGED vars PROVE Goal
  <2>1. /\ ~ backwards /\ d \in Playing /\ ElapsedAtTick' = ElapsedAtTick
        /\ inactivity' = inactivity /\ since' = since
    BY <1>a, <1>10 DEF vars, clocks, dogs, past, count, Playing, ElapsedAtTick
  <2>2. Pending(d)' = Pending(d)
    BY <1>10 DEF vars, dogs, update, Pending
  <2> QED
    BY <1>d, <2>1, <2>2
<1> QED
  BY <1>a, <1>1, <1>2, <1>3, <1>5, <1>6, <1>7, <1>8, <1>9, <1>10 DEF Next

-----------------------------------------------------------------------------
(* The save timer, the dogs and the loot.                                  *)

LEMMA TimerStep == IInv /\ [Next]_vars => TimerCounts'
<1>a. SUFFICES ASSUME IInv, [Next]_vars, ~ backwards' PROVE TimerCounts'
  BY DEF TimerCounts
<1>b. TypeOK /\ Clocks /\ TimerCounts /\ SaveInterval \in Nat \ {0}
  BY <1>a, TimesAssumption DEF IInv
<1> USE DEF Idle
<1>1. ASSUME NEW t \in Int, BeginUpdate(t), UNCHANGED <<missed, saveTimer>> PROVE TimerCounts'
  <2>1. ~ backwards /\ t >= 0
    BY <1>a, <1>1, ForwardTick
  <2>2. /\ delta = NoTick /\ delta' = t /\ unsaved' = unsaved + t
        /\ missed' = missed /\ saveTimer' = saveTimer
    BY <1>1 DEF BeginUpdate
  <2>3. unsaved + t - missed - t = unsaved - missed - 0
    BY <1>b DEF TypeOK
  <2> QED
    BY <1>b, <2>1, <2>2, <2>3, NamesAssumption DEF TimerCounts, TypeOK
<1>2. ASSUME OnTick PROVE TimerCounts'
  <2>1. WholeMilliseconds(now - lastTick) \in Int
    BY <1>b, TickLength
  <2> QED
    BY <1>1, <1>2, <2>1 DEF OnTick, trouble
<1>3. ASSUME NEW t \in TestDeltas, TickResponse(t) PROVE TimerCounts'
  BY <1>1, <1>3, InputAssumption DEF TickResponse, trouble
<1>4. ASSUME NEW m \in Maps, NEW go \in SUBSET DogsOn(m), NEW leaving \in SUBSET DogsOn(m),
             VisitFails(m, go, leaving)
      PROVE  TimerCounts'
  <2>1. /\ delta # NoTick /\ delta' = NoTick /\ missed' = missed + delta /\ unsaved' = unsaved
        /\ saveTimer' = saveTimer /\ ~ backwards
    BY <1>a, <1>4 DEF VisitFails, count
  <2> QED
    BY <1>b, <2>1 DEF TimerCounts, TypeOK
<1>5. ASSUME EndUpdate PROVE TimerCounts'
  <2>1. /\ delta # NoTick /\ delta' = NoTick /\ ~ backwards
        /\ saveTimer' = IF SaveDue THEN 0 ELSE saveTimer + delta
        /\ unsaved' = IF SaveDue THEN 0 ELSE unsaved
        /\ missed' = IF SaveDue THEN 0 ELSE missed
    BY <1>a, <1>5 DEF EndUpdate
  <2> QED
    BY <1>b, <2>1 DEF TimerCounts, TypeOK, SaveDue
<1>6. ASSUME SaveFails PROVE TimerCounts'
  <2>1. /\ delta # NoTick /\ delta' = NoTick /\ missed' = missed + delta /\ unsaved' = unsaved
        /\ saveTimer' = saveTimer + delta /\ ~ backwards
    BY <1>a, <1>6 DEF SaveFails, count
  <2> QED
    BY <1>b, <2>1 DEF TimerCounts, TypeOK
<1>7. ASSUME UNCHANGED <<delta, saveTimer, unsaved, missed, backwards>> PROVE TimerCounts'
  BY <1>a, <1>b, <1>7 DEF TimerCounts
<1>8. CASE \/ \E t \in 1 .. MaxNow : TimePasses(t)
           \/ \E d \in Dogs, m \in Maps : Join(d, m)
           \/ \E d \in Dogs : MakeAction(d)
  BY <1>7, <1>8 DEF TimePasses, Join, MakeAction, update, count, trouble
<1>9. CASE \E m \in Maps : \E go \in SUBSET DogsOn(m) : VisitSession(m, go)
  BY <1>7, <1>9 DEF VisitSession, count, trouble
<1>10. CASE UNCHANGED vars
  BY <1>7, <1>10 DEF vars, update, count, trouble
<1> QED
  BY <1>a, <1>2, <1>3, <1>4, <1>5, <1>6, <1>8, <1>9, <1>10 DEF Next

LEMMA DogsAndLootStep == IInv /\ [Next]_vars => DogsCounted' /\ LootFollowsDogs'
<1>a. SUFFICES ASSUME IInv, [Next]_vars PROVE DogsCounted' /\ LootFollowsDogs'
  OBVIOUS
<1>b. TypeOK /\ DogsCounted /\ LootFollowsDogs
  BY <1>a DEF IInv
<1>1. ASSUME NEW d \in Dogs, NEW m \in Maps, Join(d, m) PROVE DogsCounted' /\ LootFollowsDogs'
  <2>1. /\ map[d] = NoMap /\ map' = [map EXCEPT ![d] = m] /\ loot' = loot
        /\ most' = IF Cardinality(DogsOn(m)) + 1 > most[m]
                   THEN [most EXCEPT ![m] = Cardinality(DogsOn(m)) + 1] ELSE most
    BY <1>1 DEF Join, ground
  <2>2. d \notin DogsOn(m)
    BY <2>1, NamesAssumption DEF DogsOn
  <2>3. DogsOn(m)' = DogsOn(m) \cup {d}
    BY <1>b, <2>1 DEF DogsOn, TypeOK
  <2>4. \A n \in Maps \ {m} : DogsOn(n)' = DogsOn(n)
    BY <1>b, <2>1, NamesAssumption DEF DogsOn, TypeOK
  <2>5. IsFiniteSet(DogsOn(m)) /\ Cardinality(DogsOn(m)) \in Nat
    BY <1>b, DogsAreFinite
  <2>6. Cardinality(DogsOn(m) \cup {d}) = Cardinality(DogsOn(m)) + 1
    BY <2>2, <2>5, FS_AddElement
  <2>7. ASSUME NEW n \in Maps PROVE Cardinality(DogsOn(n)') <= most'[n] /\ loot'[n] \in 0 .. most'[n]
    <3>1. CASE n = m
      <4>1. most[m] \in Nat /\ loot[m] \in 0 .. most[m]
        BY <1>b DEF LootFollowsDogs, TypeOK
      <4>2. most'[m] = IF Cardinality(DogsOn(m)) + 1 > most[m]
                       THEN Cardinality(DogsOn(m)) + 1 ELSE most[m]
        BY <1>b, <2>1 DEF TypeOK
      <4>3. Cardinality(DogsOn(m)') = Cardinality(DogsOn(m)) + 1
        BY <2>3, <2>6
      <4> QED
        BY <2>1, <2>5, <3>1, <4>1, <4>2, <4>3
    <3>2. CASE n # m
      BY <1>b, <2>1, <2>4, <3>2 DEF DogsCounted, LootFollowsDogs, TypeOK
    <3> QED
      BY <3>1, <3>2
  <2> QED
    BY <2>7 DEF DogsCounted, LootFollowsDogs
<1>2. ASSUME NEW leaving, Remove(leaving), most' = most PROVE DogsCounted'
  <2> SUFFICES ASSUME NEW n \in Maps PROVE Cardinality(DogsOn(n)') <= most[n]
    BY <1>2 DEF DogsCounted
  <2>1. DogsOn(n)' \subseteq DogsOn(n)
    BY <1>2, NamesAssumption DEF Remove, DogsOn
  <2>2. IsFiniteSet(DogsOn(n)) /\ Cardinality(DogsOn(n)) \in Nat
    BY <1>b, DogsAreFinite
  <2>3. /\ Cardinality(DogsOn(n)') <= Cardinality(DogsOn(n)) /\ Cardinality(DogsOn(n)') \in Nat
    BY <2>1, <2>2, FS_Subset, FS_CardinalityType
  <2> QED
    BY <1>b, <2>2, <2>3 DEF DogsCounted, TypeOK
<1>3. ASSUME NEW m \in Maps, NEW go, ~ Idle, MoveAndGather(m, go), most' = most
      PROVE  LootFollowsDogs'
  <2>1. delta \in Int
    BY <1>b, <1>3 DEF TypeOK, Idle
  <2> QED
    BY <1>b, <1>3, <2>1, LootStep DEF MoveAndGather, LootFollowsDogs
<1>4. ASSUME NEW m \in Maps, NEW go \in SUBSET DogsOn(m), VisitSession(m, go)
      PROVE  DogsCounted' /\ LootFollowsDogs'
  BY <1>2, <1>3, <1>4 DEF VisitSession
<1>5. ASSUME NEW m \in Maps, NEW go \in SUBSET DogsOn(m), NEW leaving \in SUBSET DogsOn(m),
             VisitFails(m, go, leaving)
      PROVE  DogsCounted' /\ LootFollowsDogs'
  BY <1>2, <1>3, <1>5 DEF VisitFails
<1>6. ASSUME UNCHANGED <<map, loot, most>> PROVE DogsCounted' /\ LootFollowsDogs'
  BY <1>b, <1>6 DEF DogsCounted, LootFollowsDogs, DogsOn
<1>7. CASE \/ \E t \in 1 .. MaxNow : TimePasses(t)
           \/ \E d \in Dogs : MakeAction(d)
  BY <1>6, <1>7 DEF TimePasses, MakeAction, dogs, ground, past
<1>8. CASE OnTick \/ \E t \in TestDeltas : TickResponse(t)
  BY <1>6, <1>8 DEF OnTick, TickResponse, dogs, ground, past
<1>9. CASE EndUpdate \/ SaveFails
  BY <1>6, <1>9 DEF EndUpdate, SaveFails, dogs, ground, past
<1>10. CASE UNCHANGED vars
  BY <1>6, <1>10 DEF vars, dogs, ground, past
<1> QED
  BY <1>a, <1>1, <1>4, <1>5, <1>7, <1>8, <1>9, <1>10 DEF Next

LEMMA Invariance == Spec => []IInv
<1>1. IInv /\ [Next]_vars => IInv'
  BY TypeStep, ClocksStep, GameKeepsUpStep, JoinTimesStep, InactivityStep, TimerStep,
     DogsAndLootStep DEF IInv
<1> QED
  BY InvariantInit, <1>1, PTL DEF Spec

-----------------------------------------------------------------------------
(* The theorems.                                                           *)

(***************************************************************************)
(* Types of the clocks and of what is computed from them.                  *)
(***************************************************************************)
THEOREM ClockTypeCorrect == Spec => []TypeOK
BY Invariance, PTL DEF IInv

(***************************************************************************)
(* Ticker::OnTick loses less than a millisecond per tick, however long the *)
(* ticks and the updates are.                                              *)
(***************************************************************************)
THEOREM GameAlwaysKeepsUp == Spec => []GameKeepsUp
BY Invariance, PTL DEF IInv

(***************************************************************************)
(* What RemoveInactiveDogs would record as the play time of a dog that     *)
(* joined in this process is true to a millisecond and fits the column.    *)
(***************************************************************************)
THEOREM PlayTimesAreTrue == Spec => []PlayTimeIsTrue
<1>1. IInv => PlayTimeIsTrue
  <2> SUFFICES ASSUME IInv, NEW d \in Playing \cap here
               PROVE  /\ Unit * PlayTime(d) - (Elapsed - joinedAt[d]) \in 1 - Unit .. Unit - 1
                      /\ ~ backwards /\ Elapsed <= Unit * MaxPlayTime => Recordable(d)
    BY DEF PlayTimeIsTrue
  <2>1. /\ TypeOK /\ d \in Dogs /\ d \in here /\ Unit \in Nat \ {0} /\ MaxPlayTime \in Nat
        /\ joinTime[d] \in Int /\ joinedAt[d] \in Int
    BY UnitAssumption, TimesAssumption DEF IInv, TypeOK, Playing
  <2> DEFINE p == PlayTime(d)
  <2>2. /\ p \in Int /\ Elapsed \in Int
        /\ Unit * p - (Elapsed - joinedAt[d]) \in 1 - Unit .. Unit - 1
    <3>1. CASE mode = "test"
      <4>1. p = accumulated - joinTime[d] /\ Elapsed = Unit * accumulated
        BY <3>1 DEF PlayTime, GetCurrentTime, Elapsed
      <4>2. Unit * joinTime[d] = joinedAt[d]
        BY <2>1, <3>1 DEF IInv, JoinTimesKept
      <4>3. accumulated \in Int
        BY <2>1 DEF TypeOK
      <4>4. Unit * (accumulated - joinTime[d]) = Unit * accumulated - Unit * joinTime[d]
            /\ Unit * accumulated \in Int
        BY <2>1, <4>3
      <4> QED
        BY <2>1, <4>1, <4>2, <4>3, <4>4
    <3>2. CASE mode = "normal"
      <4>1. joinTime[d] = joinedAt[d] \div Unit /\ now \in Int
        BY <2>1, <3>2 DEF IInv, JoinTimesKept, TypeOK
      <4>2. p = now \div Unit - joinTime[d] /\ Elapsed = now
        BY <3>2 DEF PlayTime, GetCurrentTime, Elapsed
      <4> DEFINE n == now \div Unit
      <4>3. n \in Int /\ Unit * n <= now /\ now <= Unit * n + (Unit - 1)
        BY <2>1, <4>1, WholeTimes
      <4>4. /\ Unit * joinTime[d] <= joinedAt[d]
            /\ joinedAt[d] <= Unit * joinTime[d] + (Unit - 1)
        BY <2>1, <4>1, WholeTimes
      <4> HIDE DEF n
      <4>5. Unit * (n - joinTime[d]) = Unit * n - Unit * joinTime[d]
        BY <2>1, <4>3
      <4>6. p = n - joinTime[d]
        BY <4>2 DEF n
      <4> HIDE DEF p
      <4>7. Unit * n \in Int /\ Unit * joinTime[d] \in Int
        BY <2>1, <4>3
      <4>8. p \in Int /\ Unit * p = Unit * n - Unit * joinTime[d]
        BY <2>1, <4>3, <4>5, <4>6
      <4> DEFINE x == Unit * n
      <4> DEFINE y == Unit * joinTime[d]
      <4>9. /\ Unit * p = x - y /\ x \in Int /\ y \in Int
            /\ x <= now /\ now <= x + (Unit - 1)
            /\ y <= joinedAt[d] /\ joinedAt[d] <= y + (Unit - 1)
        BY <4>3, <4>4, <4>7, <4>8
      <4> HIDE DEF x, y
      <4>10. x - y - (now - joinedAt[d]) \in 1 - Unit .. Unit - 1
        BY <2>1, <4>1, <4>9
      <4> QED
        BY <4>1, <4>2, <4>8, <4>9, <4>10
    <3> QED
      BY <2>1, <3>1, <3>2 DEF TypeOK
  <2>3. ~ backwards => joinedAt[d] \in 0 .. Elapsed
    BY <2>1 DEF IInv, JoinTimesKept
  <2> HIDE DEF p
  <2>4. ASSUME ~ backwards, Elapsed <= Unit * MaxPlayTime PROVE p \in 0 .. MaxPlayTime
    <3>1. Unit * p \in Int /\ Unit * p > - Unit /\ Unit * p < Unit * MaxPlayTime + Unit
      BY <2>1, <2>2, <2>3, <2>4
    <3>2. p >= 0
      <4>1. p <= -1 => Unit * p <= - Unit
        BY <2>1, <2>2
      <4> QED
        BY <2>1, <2>2, <3>1, <4>1
    <3>3. p <= MaxPlayTime
      <4>1. p >= MaxPlayTime + 1 => Unit * p >= Unit * (MaxPlayTime + 1)
        BY <2>1, <2>2
      <4>2. Unit * (MaxPlayTime + 1) = Unit * MaxPlayTime + Unit
        BY <2>1
      <4> QED
        BY <2>1, <2>2, <3>1, <4>1, <4>2
    <3> QED
      BY <2>1, <2>2, <3>2, <3>3
  <2> QED
    BY <2>2, <2>4 DEF p, Recordable
<1> QED
  BY Invariance, <1>1, PTL

(***************************************************************************)
(* RemoveInactiveDogs takes no dog before its retirement time, counted     *)
(* from the last tick before it did something.                             *)
(***************************************************************************)
THEOREM NobodyEverLeavesEarly == Spec => NobodyLeavesEarly
<1> DEFINE Early(d) ==
      map[d] # NoMap /\ map'[d] = NoMap /\ ~ backwards =>
          ElapsedAtTick - since[d] >= Unit * RetireTime
<1>1. ASSUME IInv, [Next]_vars PROVE [\A d \in Dogs : Early(d)]_vars
  <2>1. SUFFICES ASSUME NEW d \in Dogs, Next, map[d] # NoMap, map'[d] = NoMap, ~ backwards
                 PROVE  ElapsedAtTick - since[d] >= Unit * RetireTime
    BY <1>1
  <2>2. TypeOK /\ Clocks /\ InactivityIsReal /\ d \in Playing
    BY <1>1, <2>1 DEF IInv, Playing
  <2>a. PICK m \in Maps :
            \E go \in SUBSET DogsOn(m), leaving \in SUBSET Retiring(m) :
                ~ Idle /\ MoveAndGather(m, go) /\ Remove(leaving)
    <3>1. \A e \in Dogs, m \in Maps : ~ Join(e, m)
      BY <2>1, <2>2, NamesAssumption DEF Join, TypeOK
    <3>2. map' # map
      BY <2>1
    <3> QED
      BY <2>1, <3>1, <3>2 DEF Next, TimePasses, MakeAction, OnTick, TickResponse, VisitSession,
         VisitFails, EndUpdate, SaveFails, dogs
  <2>3. PICK go \in SUBSET DogsOn(m), leaving \in SUBSET Retiring(m) :
            ~ Idle /\ MoveAndGather(m, go) /\ Remove(leaving)
    BY <2>a
  <2>4. d \in leaving /\ d \in DogsOn(m) /\ inactivity'[d] >= RetireTime
    BY <2>1, <2>3 DEF Remove, Retiring
  <2>5. map[d] = m /\ m \in todo /\ delta \in Int /\ RetireTime \in Nat \ {0} /\ inactivity[d] \in Int
    BY <2>2, <2>3, <2>4, TimesAssumption DEF DogsOn, MoveAndGather, TypeOK, Idle
  <2>6. d \notin go /\ inactivity'[d] = inactivity[d] + delta
    BY <2>1, <2>3, <2>4, <2>5 DEF MoveAndGather, UpdateInactivity
  <2>7. Unit * (inactivity[d] + delta) <= ElapsedAtTick - since[d]
    BY <2>1, <2>2, <2>3, <2>5 DEF InactivityIsReal, Pending
  <2>8. Unit * (inactivity[d] + delta) >= Unit * RetireTime
    BY <2>4, <2>5, <2>6, UnitAssumption
  <2>9. /\ ElapsedAtTick \in Int /\ since[d] \in Int
        /\ Unit * RetireTime \in Int /\ Unit * (inactivity[d] + delta) \in Int
    BY <2>1, <2>2, <2>5, UnitAssumption, RealTimeTyped DEF TypeOK
  <2> QED
    BY <2>7, <2>8, <2>9
<1>2. Spec => []([Next]_vars)
  BY PTL DEF Spec
<1> QED
  BY Invariance, <1>1, <1>2, PTL DEF NobodyLeavesEarly

(***************************************************************************)
(* Game::Update saves in time: what a crash between two ticks can lose is  *)
(* shorter than the save interval, but for the ticks that threw.           *)
(***************************************************************************)
THEOREM UnsavedAlwaysBounded == Spec => []UnsavedIsBounded
<1>1. IInv => UnsavedIsBounded
  BY DEF IInv, TypeOK, TimerCounts, UnsavedIsBounded
<1> QED
  BY Invariance, <1>1, PTL

(***************************************************************************)
(* Game::UpdateLoot never makes more loot than there are dogs without.     *)
(***************************************************************************)
THEOREM LootAlwaysFollowsDogs == Spec => []LootFollowsDogs
BY Invariance, PTL DEF IInv
=============================================================================
