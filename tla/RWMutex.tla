------------------------------ MODULE RWMutex ------------------------------
(***************************************************************************)
(* sync.RWMutex (sync/rwmutex.go): two mutexes, r and w, and a count of    *)
(* readers.  The first reader locks w for all of them; a writer holds r    *)
(* while it waits for w.                                                   *)
(***************************************************************************)
EXTENDS MutexOps, FiniteSets

CONSTANTS r, w       \* rw.r and rw.w

ASSUME RWAssumption == Mutexes = {r, w} /\ r # w /\ IsFiniteSet(G)

VARIABLE readerCount   \* rw.readerCount

vars == <<key, sema, pc, mu, ret, readerCount>>

Init ==
    /\ MutexInit
    /\ pc = [g \in G |-> "idle"]
    /\ ret = [g \in G |-> "idle"]
    /\ readerCount = 0

(***************************************************************************)
(* Faulty variants                                                         *)
(***************************************************************************)
\* RUnlock that keeps w when the last reader leaves.
RUnlockNever(g) ==
    /\ pc[g] = "reading"
    /\ readerCount' = readerCount - 1
    /\ Goto(g, "idle")
    /\ UNCHANGED <<mu, ret>>

(***************************************************************************)
(* RLock and RUnlock                                                       *)
(***************************************************************************)
RLock(g) == pc[g] = "idle" /\ Lock(g, r, "RLock_xadd")

RLockXadd(g) ==
    /\ pc[g] = "RLock_xadd"
    /\ readerCount' = readerCount + 1
    /\ \/ readerCount + 1 = 1 /\ Lock(g, w, "RLock_unlock_r")
       \/ readerCount + 1 # 1 /\ Goto(g, "RLock_unlock_r") /\ UNCHANGED <<mu, ret>>

RLockUnlockR(g) == pc[g] = "RLock_unlock_r" /\ Unlock(g, r, "reading")

RUnlock(g) ==
    /\ pc[g] = "reading"
    /\ readerCount' = readerCount - 1
    /\ \/ readerCount - 1 = 0 /\ Unlock(g, w, "idle")
       \/ readerCount - 1 # 0 /\ Goto(g, "idle") /\ UNCHANGED <<mu, ret>>

(***************************************************************************)
(* Lock and Unlock                                                         *)
(***************************************************************************)
WLock(g) == pc[g] = "idle" /\ Lock(g, r, "Lock_w")

WLockW(g) == pc[g] = "Lock_w" /\ Lock(g, w, "Lock_unlock_r")

WLockUnlockR(g) == pc[g] = "Lock_unlock_r" /\ Unlock(g, r, "writing")

WUnlock(g) == pc[g] = "writing" /\ Unlock(g, w, "idle")

Steps(g) ==
    \/ RLockXadd(g) /\ UNCHANGED <<key, sema>>
    \/ RUnlock(g) /\ UNCHANGED <<key, sema>>
    \/ (RLockUnlockR(g) \/ WLockW(g) \/ WLockUnlockR(g) \/ WUnlock(g))
          /\ UNCHANGED <<key, sema, readerCount>>
    \/ (XaddLock(g) \/ XaddUnlock(g) \/ Semrelease(g)) /\ UNCHANGED readerCount

Calls(g) == (RLock(g) \/ WLock(g)) /\ UNCHANGED <<key, sema, readerCount>>

Wakes(g) == Semacquire(g) /\ UNCHANGED readerCount

Next == \E g \in G : Calls(g) \/ Steps(g) \/ Wakes(g)

Spec == Init /\ [][Next]_vars

-----------------------------------------------------------------------------
(***************************************************************************)
(* Properties                                                              *)
(***************************************************************************)
\* Goroutines that were granted the lock for reading, or for writing.
Readers == {g \in G : pc[g] = "reading"}
Writers == {g \in G : pc[g] = "writing"}

\* The lock is held by any number of readers or by a single writer.
ReadersOrWriter ==
    Cardinality(Writers) <= 1 /\ (Writers # {} => Readers = {})

\* Goroutines that RLock has counted and RUnlock has not.
Counted ==
    {g \in G : \/ pc[g] \in {"reading", "RLock_unlock_r"}
               \/ pc[g] \in MutexLabels /\ ret[g] \in {"reading", "RLock_unlock_r"}}

\* readerCount is exact, and as long as a reader has the lock w is locked: a
\* reader that leaves never unlocks w under another one.
WHeldForReaders ==
    /\ readerCount = Cardinality(Counted)
    /\ Readers # {} => key[w] > 0
=============================================================================
