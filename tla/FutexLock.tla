----------------------------- MODULE FutexLock -----------------------------
(***************************************************************************)
(* lock and unlock of the Linux runtime (linux/thread.c), called by        *)
(* threads that repeatedly enter and leave a critical section.             *)
(***************************************************************************)
EXTENDS FutexWord, Integers, FiniteSets

CONSTANT NoOwner    \* the owner of a free lock

ASSUME ThreadsAssumption == IsFiniteSet(Threads) /\ NoOwner \notin Threads

VARIABLE locks   \* m->locks of each thread

vars == <<key, pc, v, ret, spurious, locks>>

Labels == {"idle", "cs", "throw"} \cup LockLabels \cup UnlockLabels

Init ==
    /\ key = 0
    /\ pc = [t \in Threads |-> "idle"]
    /\ v = [t \in Threads |-> 0]
    /\ ret = [t \in Threads |-> "idle"]
    /\ spurious = 0
    /\ locks = [t \in Threads |-> 0]

lock(t) ==
    /\ pc[t] = "idle"
    /\ \/ /\ locks[t] < 0
          /\ Goto(t, "throw")
          /\ UNCHANGED <<locks, ret>>
       \/ /\ locks[t] >= 0
          /\ locks' = [locks EXCEPT ![t] = @ + 1]
          /\ ret' = [ret EXCEPT ![t] = "cs"]
          /\ Goto(t, "lock_load")
    /\ UNCHANGED <<key, v, spurious>>

unlock(t) ==
    /\ pc[t] = "cs"
    /\ locks' = [locks EXCEPT ![t] = @ - 1]
    /\ ret' = [ret EXCEPT ![t] = "idle"]
    /\ Goto(t, IF locks[t] - 1 < 0 THEN "throw" ELSE "unlock_load")
    /\ UNCHANGED <<key, v, spurious>>

\* The steps of a thread that is inside lock or unlock.
Step(t) == (futexlock(t) \/ futexunlock(t)) /\ UNCHANGED locks

Next ==
    \E t \in Threads :
        \/ lock(t)
        \/ unlock(t)
        \/ Step(t)
        \/ SpuriousWakeup(t) /\ UNCHANGED locks

Spec == Init /\ [][Next]_vars

\* Every runnable kernel thread keeps running and critical sections end;
\* nothing makes a thread ask for the lock, or a sleep end by itself.  A
\* thread whose compare-and-swap could succeed again and again does succeed
\* at last: without that, two waiters that keep changing the waiter count
\* can make the owner's unlock retry for ever.
Fairness ==
    \A t \in Threads :
        /\ WF_vars(unlock(t))
        /\ WF_vars(Step(t))
        /\ SF_vars(Step(t) /\ key' # key)

FairSpec == Spec /\ Fairness

-----------------------------------------------------------------------------
(***************************************************************************)
(* Properties                                                              *)
(***************************************************************************)
\* Types of the variables.
TypeOK ==
    /\ key \in Nat
    /\ pc \in [Threads -> Labels]
    /\ v \in [Threads -> Nat]
    /\ ret \in [Threads -> {"idle", "cs"}]
    /\ spurious \in Nat
    /\ locks \in [Threads -> Int]

\* Threads that own the lock: in the critical section, or in unlock before
\* its compare-and-swap.
Owns(t) == pc[t] \in {"cs", "unlock_load", "unlock_cas"}

\* Threads that lock() has added to the waiter count of the word.
Counted(t) == pc[t] \in {"futexsleep", "asleep", "dec_load", "dec_cas"}

\* Two threads never own the lock at once, however the loads and swaps of
\* futexlock and futexunlock interleave.
MutualExclusion == \A t, u \in Threads : Owns(t) /\ Owns(u) => t = u

Waiters == {t \in Threads : Counted(t)}

\* The word says exactly who is there: its low bit that the lock has an
\* owner, the rest how many threads futexlock has counted and not yet
\* removed.
WordIsExact ==
    key = 2 * Cardinality(Waiters) + (IF \E t \in Threads : Owns(t) THEN 1 ELSE 0)

\* None of the three throws ("bad lock key", "unlock of unlocked lock",
\* "lock count") is reachable.
NoThrow == \A t \in Threads : pc[t] # "throw"

\* A lock that is free while a thread sleeps on it is not forgotten: some
\* thread is about to wake a sleeper, or is itself awake in futexlock and
\* will see the free lock.
NoLostWakeup ==
    (key % 2 = 0 /\ \E t \in Threads : pc[t] = "asleep")
        => \E t \in Threads :
              pc[t] \in (LockLabels \ {"asleep"}) \cup {"futexwakeup"}

\* Whenever some thread is inside lock(), some thread gets the lock.
Progress ==
    (\E t \in Threads : pc[t] \in LockLabels) ~> (\E t \in Threads : pc[t] = "cs")

\* The futex lock implements the abstract lock.
owner == IF \E t \in Threads : Owns(t) THEN CHOOSE t \in Threads : Owns(t) ELSE NoOwner

Abstract == INSTANCE LockSpec

\* lock and unlock implement the atomic Acquire and Release of LockSpec.
ImplementsLock == Abstract!Spec
=============================================================================
