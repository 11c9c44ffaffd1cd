----------------------------- MODULE FutexWord -----------------------------
(***************************************************************************)
(* The futex-based word of the Linux runtime (linux/thread.c), used both   *)
(* as a Lock and as a Note.  Bit 0 of `key' says that the lock is held,    *)
(* the other bits count the threads that wait for it.  A thread is inside  *)
(* futexlock or futexunlock when pc[t] is one of the labels below; the     *)
(* call returns to the label in ret[t].  Every access to the shared word   *)
(* is one step: a load and the compare-and-swap that follows it may be     *)
(* separated by steps of other threads.                                    *)
(*                                                                         *)
(* The word is 32 bits wide; its waiter count overflows only with 2^31     *)
(* threads waiting at once, so it is modelled as a natural number.         *)
(***************************************************************************)
EXTENDS Naturals

CONSTANTS Threads,      \* OS threads, one per M
          MaxSpurious   \* bound on the spurious returns of futexsleep

ASSUME SpuriousAssumption == MaxSpurious \in Nat

VARIABLES key,       \* l->key
          pc,        \* where each thread is
          v,         \* the local v of futexlock and futexunlock, 0 out of scope
          ret,       \* the label to return to
          spurious   \* spurious wakeups so far

LockLabels == {"lock_load", "lock_cas", "lock_add", "futexsleep", "asleep",
               "dec_load", "dec_cas"}
UnlockLabels == {"unlock_load", "unlock_cas", "futexwakeup"}

Goto(t, label) == pc' = [pc EXCEPT ![t] = label]

(***************************************************************************)
(* Faulty variants of the steps below.  Each one is substituted for the    *)
(* step it varies to see that a property notices.                          *)
(***************************************************************************)
\* LockCas with a plain store in place of the compare-and-swap.
LockCasStores(t) ==
    /\ pc[t] = "lock_cas"
    /\ v' = [v EXCEPT ![t] = 0]
    /\ key' = v[t] + 1
    /\ Goto(t, ret[t])
    /\ UNCHANGED <<ret, spurious>>

\* FutexSleep whose early return skips the removal from the waiter count.
FutexSleepSkipsDec(t) ==
    /\ pc[t] = "futexsleep"
    /\ v' = [v EXCEPT ![t] = 0]
    /\ Goto(t, IF key = v[t] THEN "asleep" ELSE "lock_load")
    /\ UNCHANGED <<key, ret, spurious>>

\* FutexWakeup that wakes nobody.
FutexWakeupNobody(t) ==
    /\ pc[t] = "futexwakeup"
    /\ Goto(t, ret[t])
    /\ UNCHANGED <<key, v, ret, spurious>>

(***************************************************************************)
(* futexlock                                                               *)
(***************************************************************************)
\* again: v = l->key, and the test of its low bit.
LockLoad(t) ==
    /\ pc[t] = "lock_load"
    /\ v' = [v EXCEPT ![t] = key]
    /\ Goto(t, IF key % 2 = 0 THEN "lock_cas" ELSE "lock_add")
    /\ UNCHANGED <<key, ret, spurious>>

\* cas(&l->key, v, v|1): the lock was not held, try to grab it.
LockCas(t) ==
    /\ pc[t] = "lock_cas"
    /\ v' = [v EXCEPT ![t] = 0]
    /\ \/ /\ key = v[t]
          /\ key' = v[t] + 1
          /\ Goto(t, ret[t])
       \/ /\ key # v[t]
          /\ key' = key
          /\ Goto(t, "lock_load")
    /\ UNCHANGED <<ret, spurious>>

\* cas(&l->key, v, v+2): the lock was held, try to be counted as a waiter.
LockAdd(t) ==
    /\ pc[t] = "lock_add"
    /\ \/ /\ key = v[t]
          /\ key' = v[t] + 2
          /\ v' = [v EXCEPT ![t] = v[t] + 2]
          /\ Goto(t, "futexsleep")
       \/ /\ key # v[t]
          /\ key' = key
          /\ v' = [v EXCEPT ![t] = 0]
          /\ Goto(t, "lock_load")
    /\ UNCHANGED <<ret, spurious>>

\* futexsleep(&l->key, v+2): the kernel compares and sleeps in one step.
FutexSleep(t) ==
    /\ pc[t] = "futexsleep"
    /\ v' = [v EXCEPT ![t] = 0]
    /\ Goto(t, IF key = v[t] THEN "asleep" ELSE "dec_load")
    /\ UNCHANGED <<key, ret, spurious>>

\* "Might be woken up spuriously; that's allowed."
SpuriousWakeup(t) ==
    /\ pc[t] = "asleep"
    /\ spurious < MaxSpurious
    /\ spurious' = spurious + 1
    /\ Goto(t, "dec_load")
    /\ UNCHANGED <<key, v, ret>>

\* We're awake: v = l->key, with the check of the waiter count.
DecLoad(t) ==
    /\ pc[t] = "dec_load"
    /\ v' = [v EXCEPT ![t] = key]
    /\ Goto(t, IF key < 2 THEN "throw" ELSE "dec_cas")
    /\ UNCHANGED <<key, ret, spurious>>

\* cas(&l->key, v, v-2), then try for the lock again.
DecCas(t) ==
    /\ pc[t] = "dec_cas"
    /\ v' = [v EXCEPT ![t] = 0]
    /\ \/ /\ key = v[t]
          /\ key' = v[t] - 2
          /\ Goto(t, "lock_load")
       \/ /\ key # v[t]
          /\ key' = key
          /\ Goto(t, "dec_load")
    /\ UNCHANGED <<ret, spurious>>

(***************************************************************************)
(* futexunlock                                                             *)
(***************************************************************************)
\* v = l->key, with the check that the lock is held.
UnlockLoad(t) ==
    /\ pc[t] = "unlock_load"
    /\ v' = [v EXCEPT ![t] = key]
    /\ Goto(t, IF key % 2 = 0 THEN "throw" ELSE "unlock_cas")
    /\ UNCHANGED <<key, ret, spurious>>

\* cas(&l->key, v, v&~1); if there were waiters, one must be woken.
UnlockCas(t) ==
    /\ pc[t] = "unlock_cas"
    /\ v' = [v EXCEPT ![t] = 0]
    /\ \/ /\ key = v[t]
          /\ key' = v[t] - 1
          /\ Goto(t, IF v[t] >= 2 THEN "futexwakeup" ELSE ret[t])
       \/ /\ key # v[t]
          /\ key' = key
          /\ Goto(t, "unlock_load")
    /\ UNCHANGED <<ret, spurious>>

\* futexwakeup(&l->key): wake one thread that sleeps on the word, if any.
FutexWakeup(t) ==
    /\ pc[t] = "futexwakeup"
    /\ \/ \E u \in Threads :
             /\ pc[u] = "asleep"
             /\ pc' = [pc EXCEPT ![t] = ret[t], ![u] = "dec_load"]
       \/ /\ \A u \in Threads : pc[u] # "asleep"
          /\ Goto(t, ret[t])
    /\ UNCHANGED <<key, v, ret, spurious>>

futexlock(t) == \/ LockLoad(t) \/ LockCas(t) \/ LockAdd(t)
                \/ FutexSleep(t) \/ DecLoad(t) \/ DecCas(t)

futexunlock(t) == UnlockLoad(t) \/ UnlockCas(t) \/ FutexWakeup(t)
=============================================================================
