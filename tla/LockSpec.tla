------------------------------ MODULE LockSpec ------------------------------
(***************************************************************************)
(* What a runtime Lock promises: at most one thread owns it, a thread that *)
(* does not own it never releases it.                                      *)
(***************************************************************************)
CONSTANTS Threads, NoOwner

VARIABLE owner

Init == owner = NoOwner

Acquire(t) == owner = NoOwner /\ owner' = t

Release(t) == owner = t /\ owner' = NoOwner

Next == \E t \in Threads : Acquire(t) \/ Release(t)

Spec == Init /\ [][Next]_owner
=============================================================================
