-------------------------- MODULE ConnectionLease --------------------------
(***************************************************************************)
(* What ConnectionPool promises its users, without slots, counters or      *)
(* condition variables: a connection that nobody has is leased to one      *)
(* thread that has none, and a thread ends its own lease.                  *)
(***************************************************************************)
CONSTANTS Threads, Connections

VARIABLE lease      \* the threads that hold each connection: none or one

Idle(t) == \A c \in Connections : t \notin lease[c]

Init == lease = [c \in Connections |-> {}]

Acquire(t, c) ==
    /\ Idle(t)
    /\ lease[c] = {}
    /\ lease' = [lease EXCEPT ![c] = {t}]

Release(t, c) ==
    /\ lease[c] = {t}
    /\ lease' = [lease EXCEPT ![c] = {}]

Next == \E t \in Threads, c \in Connections : Acquire(t, c) \/ Release(t, c)

Spec == Init /\ [][Next]_lease
=============================================================================
