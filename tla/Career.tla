------------------------------- MODULE Career -------------------------------
(***************************************************************************)
(* What the game promises a player, without sessions, ticks, bags or the   *)
(* database: a dog enters once, earns loot nobody else has earned, and     *)
(* leaves once, with everything it earned on the leaderboard for good.     *)
(***************************************************************************)
CONSTANTS DogIds, LootIds

VARIABLES
    status,     \* "absent", "playing" or "retired"
    earned,     \* the loot each dog has brought to an office
    result      \* the leaderboard row of each retired dog

vars == <<status, earned, result>>

Init ==
    /\ status = [d \in DogIds |-> "absent"]
    /\ earned = [d \in DogIds |-> {}]
    /\ result = [d \in DogIds |-> {}]

Enter(d) ==
    /\ status[d] = "absent"
    /\ status' = [status EXCEPT ![d] = "playing"]
    /\ UNCHANGED <<earned, result>>

Earn(d, items) ==
    /\ status[d] = "playing"
    /\ items # {} /\ \A e \in DogIds : items \cap earned[e] = {}
    /\ earned' = [earned EXCEPT ![d] = @ \cup items]
    /\ UNCHANGED <<status, result>>

Retire(d) ==
    /\ status[d] = "playing"
    /\ status' = [status EXCEPT ![d] = "retired"]
    /\ result' = [result EXCEPT ![d] = earned[d]]
    /\ UNCHANGED earned

Next == \E d \in DogIds :
    \/ Enter(d)
    \/ \E items \in SUBSET LootIds : Earn(d, items)
    \/ Retire(d)

Spec == Init /\ [][Next]_vars
=============================================================================
