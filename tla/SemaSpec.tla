------------------------------ MODULE SemaSpec ------------------------------
(***************************************************************************)
(* What Semacquire and Semrelease (sema.goc) promise to their callers: a   *)
(* count per address that is taken from and added to in one step, and no   *)
(* unit that stays untaken while somebody waits for it.  Which of the      *)
(* waiting goroutines gets a unit is not promised.                         *)
(***************************************************************************)
EXTENDS Naturals

CONSTANTS G, Addrs, InitialSem

VARIABLES sem,       \* *addr, for every address
          waiting    \* the goroutines that wait in semacquire, per address

Init == sem = [a \in Addrs |-> InitialSem] /\ waiting = [a \in Addrs |-> {}]

Acquire(g, a) ==
    /\ sem[a] > 0
    /\ sem' = [sem EXCEPT ![a] = @ - 1]
    /\ waiting' = [waiting EXCEPT ![a] = @ \ {g}]

Wait(g, a) ==
    /\ sem[a] = 0
    /\ waiting' = [waiting EXCEPT ![a] = @ \cup {g}]
    /\ UNCHANGED sem

Release(a) == sem' = [sem EXCEPT ![a] = @ + 1] /\ UNCHANGED waiting

Next == \E a \in Addrs : Release(a) \/ \E g \in G : Acquire(g, a) \/ Wait(g, a)

Spec ==
    /\ Init /\ [][Next]_<<sem, waiting>>
    /\ \A a \in Addrs : WF_<<sem, waiting>>(\E g \in waiting[a] : Acquire(g, a))
=============================================================================
