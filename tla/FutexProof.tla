----------------------------- MODULE FutexProof -----------------------------
(***************************************************************************)
(* Proofs about lock, unlock and the notes of the Linux runtime, for any   *)
(* finite set of threads and any number of spurious wakeups.               *)
(*                                                                         *)
(* lock and unlock: mutual exclusion rests on the low bit of the word      *)
(* being set exactly when the lock has an owner, that on the word being    *)
(* exact as a whole (an unlock subtracts one and must not borrow from the  *)
(* waiter count), and that on what a thread remembers of the word between  *)
(* its load and its compare-and-swap (Remembers).                          *)
(***************************************************************************)
EXTENDS FutexNote, FiniteSetTheorems, TLAPS

\* What a thread inside lock or unlock knows: the parity of the word it has
\* loaded, where it returns to, and its count of held locks.
Remembers(t) ==
    /\ pc[t] = "lock_cas" => v[t] % 2 = 0
    /\ pc[t] \in {"lock_add", "futexsleep", "unlock_cas"} => v[t] % 2 = 1
    /\ pc[t] = "dec_cas" => v[t] >= 2
    /\ pc[t] \in LockLabels => ret[t] = "cs"
    /\ pc[t] \in UnlockLabels => ret[t] = "idle"
    /\ locks[t] = IF pc[t] \in LockLabels \cup {"cs"} THEN 1 ELSE 0

IInv ==
    /\ TypeOK
    /\ MutualExclusion
    /\ WordIsExact
    /\ NoThrow
    /\ \A t \in Threads : Remembers(t)

\* The waiters are finitely many, so their number is a natural number that
\* grows and shrinks by one with each thread counted or removed.
LEMMA WaitersFinite == IsFiniteSet(Waiters) /\ Cardinality(Waiters) \in Nat
BY ThreadsAssumption, FS_Subset, FS_CardinalityType DEF Waiters

LEMMA WaitersGrow ==
    ASSUME NEW t \in Threads, ~Counted(t), Waiters' = Waiters \cup {t}
    PROVE  Cardinality(Waiters)' = Cardinality(Waiters) + 1
BY WaitersFinite, FS_AddElement DEF Waiters

LEMMA WaitersShrink ==
    ASSUME NEW t \in Threads, Counted(t), Waiters' = Waiters \ {t}
    PROVE  /\ Cardinality(Waiters)' = Cardinality(Waiters) - 1
           /\ Cardinality(Waiters) >= 1
<1>1. t \in Waiters
  BY DEF Waiters
<1>2. Cardinality(Waiters)' = Cardinality(Waiters) - 1
  BY Zenon, <1>1, WaitersFinite, FS_RemoveElement
<1>3. IsFiniteSet(Waiters \ {t})
  BY WaitersFinite, FS_Subset
<1>4. Cardinality(Waiters \ {t}) \in Nat
  BY <1>3, FS_CardinalityType
<1> QED
  BY <1>2, <1>4, WaitersFinite

LEMMA InitIInv == Init => IInv
<1> SUFFICES ASSUME Init PROVE IInv
  OBVIOUS
<1>1. Waiters = {}
  BY DEF Init, Waiters, Counted
<1>2. Cardinality(Waiters) = 0
  BY <1>1, FS_EmptySet
<1>3. TypeOK
  BY DEF Init, TypeOK, Labels
<1>4. WordIsExact
  BY <1>2 DEF Init, WordIsExact, Owns
<1> QED
  BY <1>3, <1>4 DEF Init, IInv, MutualExclusion, Owns, NoThrow, Remembers, LockLabels,
     UnlockLabels

\* A step of t that moves only t, and neither to nor from the owners or the
\* counted waiters, leaves both as they are.
LEMMA SameOwnersAndWaiters ==
    ASSUME \A u \in Threads : (Owns(u)' <=> Owns(u)) /\ (Counted(u)' <=> Counted(u)),
           key' = key, WordIsExact, MutualExclusion
    PROVE  WordIsExact' /\ MutualExclusion'
<1>1. Waiters' = Waiters
  BY DEF Waiters
<1> QED
  BY <1>1 DEF WordIsExact, MutualExclusion

\* lock(): count the lock and start to read the word.
LEMMA LockIInv ==
    ASSUME IInv, NEW t \in Threads, lock(t) PROVE IInv'
<1> USE DEF IInv, LockLabels, UnlockLabels
<1>1. TypeOK'
  BY DEF lock, Goto, TypeOK, Labels
<1>2. \A u \in Threads : (Owns(u)' <=> Owns(u)) /\ (Counted(u)' <=> Counted(u))
  BY DEF lock, Goto, TypeOK, Owns, Counted
<1>3. WordIsExact' /\ MutualExclusion'
  BY <1>2, SameOwnersAndWaiters DEF lock
<1>4. NoThrow' /\ \A u \in Threads : Remembers(u)'
  BY DEF lock, Goto, TypeOK, NoThrow, Remembers
<1> QED
  BY <1>1, <1>3, <1>4

\* unlock(): the owner counts the lock out and starts to read the word.
LEMMA UnlockIInv ==
    ASSUME IInv, NEW t \in Threads, unlock(t) PROVE IInv'
<1> USE DEF IInv, LockLabels, UnlockLabels
<1>a. locks[t] = 1
  BY DEF unlock, Remembers
<1>0. locks'[t] = 0 /\ pc' = [pc EXCEPT ![t] = "unlock_load"]
  BY <1>a DEF unlock, Goto, TypeOK
<1>1. TypeOK'
  BY <1>0 DEF unlock, TypeOK, Labels
<1>2. \A u \in Threads : (Owns(u)' <=> Owns(u)) /\ (Counted(u)' <=> Counted(u))
  BY <1>0 DEF unlock, TypeOK, Owns, Counted
<1>3. WordIsExact' /\ MutualExclusion'
  BY <1>2, SameOwnersAndWaiters DEF unlock
<1>4. NoThrow' /\ \A u \in Threads : Remembers(u)'
  BY <1>0 DEF unlock, TypeOK, NoThrow, Remembers
<1> QED
  BY <1>1, <1>3, <1>4

\* The loads of futexlock and futexunlock, the sleep and its spurious end:
\* nothing moves between owners, waiters and others, and no load finds a
\* word that makes it throw, since the word counts the thread itself.
LEMMA LoadIInv ==
    ASSUME IInv, NEW t \in Threads, UNCHANGED locks,
           \/ LockLoad(t) \/ FutexSleep(t) \/ SpuriousWakeup(t)
           \/ DecLoad(t) \/ UnlockLoad(t)
    PROVE  IInv'
<1> USE DEF IInv, LockLabels, UnlockLabels
<1>1. pc[t] = "dec_load" => key >= 2
  <2>1. SUFFICES ASSUME pc[t] = "dec_load" PROVE Cardinality(Waiters) >= 1
    BY WaitersFinite DEF WordIsExact
  <2>2. t \in Waiters
    BY <2>1 DEF Waiters, Counted
  <2>3. Cardinality(Waiters) # 0
    BY <2>2, WaitersFinite, FS_EmptySet
  <2> QED
    BY <2>3, WaitersFinite
<1>2. pc[t] = "unlock_load" => key % 2 = 1
  BY WaitersFinite DEF WordIsExact, Owns
<1>3. TypeOK'
  BY DEF LockLoad, FutexSleep, SpuriousWakeup, DecLoad, UnlockLoad, Goto, TypeOK, Labels
<1>4. \A u \in Threads : (Owns(u)' <=> Owns(u)) /\ (Counted(u)' <=> Counted(u))
  BY <1>1, <1>2 DEF LockLoad, FutexSleep, SpuriousWakeup, DecLoad, UnlockLoad, Goto,
     TypeOK, Owns, Counted
<1>5. key' = key
  BY DEF LockLoad, FutexSleep, SpuriousWakeup, DecLoad, UnlockLoad
<1>6. WordIsExact' /\ MutualExclusion'
  BY <1>4, <1>5, SameOwnersAndWaiters
<1>7. NoThrow' /\ \A u \in Threads : Remembers(u)'
  BY <1>1, <1>2 DEF LockLoad, FutexSleep, SpuriousWakeup, DecLoad, UnlockLoad, Goto,
     TypeOK, NoThrow, Remembers
<1> QED
  BY <1>3, <1>6, <1>7

\* The compare-and-swap that takes the lock: the word was even, so nobody
\* owned it.
LEMMA LockCasIInv ==
    ASSUME IInv, NEW t \in Threads, UNCHANGED locks, LockCas(t) PROVE IInv'
<1> USE DEF IInv, LockLabels, UnlockLabels
<1>1. TypeOK'
  BY DEF LockCas, Goto, TypeOK, Labels
<1>2. \A u \in Threads : Counted(u)' <=> Counted(u)
  BY DEF LockCas, Goto, TypeOK, Counted, Remembers
<1>3. Waiters' = Waiters
  BY <1>2 DEF Waiters
<1>4. CASE key = v[t]
  <2>1. \A u \in Threads : ~Owns(u)
    BY <1>4, WaitersFinite DEF LockCas, WordIsExact, TypeOK, Remembers
  <2>2. \A u \in Threads : Owns(u)' <=> u = t
    BY <1>4, <2>1 DEF LockCas, Goto, TypeOK, Owns, Remembers
  <2>3. key = 2 * Cardinality(Waiters)
    BY <2>1, WaitersFinite DEF WordIsExact
  <2>4. WordIsExact'
    BY <1>3, <1>4, <2>2, <2>3, WaitersFinite DEF LockCas, WordIsExact
  <2>5. MutualExclusion'
    BY <2>2 DEF MutualExclusion
  <2> QED
    BY <1>1, <1>4, <2>4, <2>5 DEF LockCas, Goto, TypeOK, NoThrow, Remembers
<1>5. CASE key # v[t]
  <2>1. \A u \in Threads : Owns(u)' <=> Owns(u)
    BY <1>5 DEF LockCas, Goto, TypeOK, Owns
  <2>2. WordIsExact' /\ MutualExclusion'
    BY <1>2, <1>5, <2>1, SameOwnersAndWaiters DEF LockCas
  <2> QED
    BY <1>1, <1>5, <2>2 DEF LockCas, Goto, TypeOK, NoThrow, Remembers
<1> QED
  BY <1>4, <1>5

\* The compare-and-swap that adds t to the waiter count.
LEMMA LockAddIInv ==
    ASSUME IInv, NEW t \in Threads, UNCHANGED locks, LockAdd(t) PROVE IInv'
<1> USE DEF IInv, LockLabels, UnlockLabels
<1>1. TypeOK'
  BY DEF LockAdd, Goto, TypeOK, Labels
<1>2. \A u \in Threads : Owns(u)' <=> Owns(u)
  BY DEF LockAdd, Goto, TypeOK, Owns
<1>3. NoThrow' /\ \A u \in Threads : Remembers(u)'
  BY DEF LockAdd, Goto, TypeOK, NoThrow, Remembers
<1>4. CASE key = v[t]
  <2>1. ~Counted(t) /\ \A u \in Threads : Counted(u)' <=> Counted(u) \/ u = t
    BY <1>4 DEF LockAdd, Goto, TypeOK, Counted
  <2>2. Waiters' = Waiters \cup {t}
    BY <2>1 DEF Waiters
  <2>3. Cardinality(Waiters)' = Cardinality(Waiters) + 1
    BY <2>1, <2>2, WaitersGrow
  <2>4. WordIsExact'
    BY <1>2, <1>4, <2>3, WaitersFinite DEF LockAdd, WordIsExact
  <2> QED
    BY <1>1, <1>2, <1>3, <2>4 DEF MutualExclusion
<1>5. CASE key # v[t]
  <2>1. \A u \in Threads : Counted(u)' <=> Counted(u)
    BY <1>5 DEF LockAdd, Goto, TypeOK, Counted
  <2> QED
    BY <1>1, <1>2, <1>3, <1>5, <2>1, SameOwnersAndWaiters DEF LockAdd
<1> QED
  BY <1>4, <1>5

\* The compare-and-swap that removes t from the waiter count.
LEMMA DecCasIInv ==
    ASSUME IInv, NEW t \in Threads, UNCHANGED locks, DecCas(t) PROVE IInv'
<1> USE DEF IInv, LockLabels, UnlockLabels
<1>1. TypeOK'
  BY DEF DecCas, Goto, TypeOK, Labels, Remembers
<1>2. \A u \in Threads : Owns(u)' <=> Owns(u)
  BY DEF DecCas, Goto, TypeOK, Owns
<1>3. NoThrow' /\ \A u \in Threads : Remembers(u)'
  BY DEF DecCas, Goto, TypeOK, NoThrow, Remembers
<1>4. CASE key = v[t]
  <2>1. Counted(t) /\ \A u \in Threads : Counted(u)' <=> Counted(u) /\ u # t
    BY <1>4 DEF DecCas, Goto, TypeOK, Counted
  <2>2. Waiters' = Waiters \ {t}
    BY <2>1 DEF Waiters
  <2>3. Cardinality(Waiters)' = Cardinality(Waiters) - 1
    BY <2>1, <2>2, WaitersShrink
  <2>4. WordIsExact'
    BY <1>2, <1>4, <2>3, WaitersFinite DEF DecCas, WordIsExact
  <2> QED
    BY <1>1, <1>2, <1>3, <2>4 DEF MutualExclusion
<1>5. CASE key # v[t]
  <2>1. \A u \in Threads : Counted(u)' <=> Counted(u)
    BY <1>5 DEF DecCas, Goto, TypeOK, Counted
  <2> QED
    BY <1>1, <1>2, <1>3, <1>5, <2>1, SameOwnersAndWaiters DEF DecCas
<1> QED
  BY <1>4, <1>5

\* The compare-and-swap that gives the lock up: t was its only owner.
LEMMA UnlockCasIInv ==
    ASSUME IInv, NEW t \in Threads, UNCHANGED locks, UnlockCas(t) PROVE IInv'
<1> USE DEF IInv, LockLabels, UnlockLabels
<1>1. TypeOK'
  BY DEF UnlockCas, Goto, TypeOK, Labels, Remembers
<1>2. \A u \in Threads : Counted(u)' <=> Counted(u)
  BY DEF UnlockCas, Goto, TypeOK, Counted, Remembers
<1>3. NoThrow' /\ \A u \in Threads : Remembers(u)'
  BY DEF UnlockCas, Goto, TypeOK, NoThrow, Remembers
<1>4. CASE key = v[t]
  <2>1. Waiters' = Waiters
    BY <1>2 DEF Waiters
  <2>2. \A u \in Threads : Owns(u) <=> u = t
    BY DEF UnlockCas, MutualExclusion, Owns
  <2>3. \A u \in Threads : ~Owns(u)'
    BY <1>4, <2>2 DEF UnlockCas, Goto, TypeOK, Owns, Remembers
  <2>4. key = 2 * Cardinality(Waiters) + 1
    BY <2>2 DEF WordIsExact
  <2>5. WordIsExact'
    BY <1>4, <2>1, <2>3, <2>4, WaitersFinite DEF UnlockCas, WordIsExact
  <2> QED
    BY <1>1, <1>3, <2>3, <2>5 DEF MutualExclusion
<1>5. CASE key # v[t]
  <2>1. \A u \in Threads : Owns(u)' <=> Owns(u)
    BY <1>5 DEF UnlockCas, Goto, TypeOK, Owns
  <2> QED
    BY <1>1, <1>2, <1>3, <1>5, <2>1, SameOwnersAndWaiters DEF UnlockCas
<1> QED
  BY <1>4, <1>5

\* The kernel's wakeup moves a sleeper on, which stays counted.
LEMMA FutexWakeupIInv ==
    ASSUME IInv, NEW t \in Threads, UNCHANGED locks, FutexWakeup(t) PROVE IInv'
<1> USE DEF IInv, LockLabels, UnlockLabels
<1>1. TypeOK'
  BY DEF FutexWakeup, Goto, TypeOK, Labels
<1>2. \A u \in Threads : (Owns(u)' <=> Owns(u)) /\ (Counted(u)' <=> Counted(u))
  BY DEF FutexWakeup, Goto, TypeOK, Owns, Counted, Remembers
<1>3. WordIsExact' /\ MutualExclusion'
  BY <1>2, SameOwnersAndWaiters DEF FutexWakeup
<1>4. NoThrow' /\ \A u \in Threads : Remembers(u)'
  BY DEF FutexWakeup, Goto, TypeOK, NoThrow, Remembers
<1> QED
  BY <1>1, <1>3, <1>4

LEMMA NextIInv == IInv /\ [Next]_vars => IInv'
<1> SUFFICES ASSUME IInv, [Next]_vars PROVE IInv'
  OBVIOUS
<1>1. CASE UNCHANGED vars
  BY <1>1 DEF vars, IInv, TypeOK, MutualExclusion, WordIsExact, NoThrow, Remembers, Owns,
     Counted, Waiters
<1>2. ASSUME NEW t \in Threads,
             \/ lock(t) \/ unlock(t) \/ Step(t)
             \/ SpuriousWakeup(t) /\ UNCHANGED locks
      PROVE  IInv'
  BY <1>2, LockIInv, UnlockIInv, LoadIInv, LockCasIInv, LockAddIInv, DecCasIInv,
     UnlockCasIInv, FutexWakeupIInv DEF Step, futexlock, futexunlock
<1> QED
  BY <1>1, <1>2 DEF Next

\* lock and unlock keep the word, its owner and what each thread remembers of
\* it consistent at every step.
THEOREM Invariance == Spec => []IInv
BY InitIInv, NextIInv, PTL DEF Spec

\* At most one thread is between lock() and unlock() of a lock.
THEOREM LockMutualExclusion == Spec => []MutualExclusion
<1>1. IInv => MutualExclusion
  BY DEF IInv
<1> QED
  BY <1>1, Invariance, PTL

\* The futex word always holds the owner bit and the exact number of waiters.
THEOREM LockWordIsExact == Spec => []WordIsExact
<1>1. IInv => WordIsExact
  BY DEF IInv
<1> QED
  BY <1>1, Invariance, PTL

\* No throw of lock, unlock, futexlock or futexunlock is ever reached.
THEOREM LockNoThrow == Spec => []NoThrow
<1>1. IInv => NoThrow
  BY DEF IInv
<1> QED
  BY <1>1, Invariance, PTL


-----------------------------------------------------------------------------
(***************************************************************************)
(* No lost wakeup.  A thread goes to sleep only while the word is odd; the *)
(* step that makes it even either leaves no waiter or is followed by a     *)
(* wakeup; and a thread leaves futexlock only with the lock.               *)
(***************************************************************************)
\* The threads that will notice a free lock, or make a sleeper notice it.
Awake == {t \in Threads : pc[t] \in (LockLabels \ {"asleep"}) \cup {"futexwakeup"}}

LEMMA NextNoLostWakeup ==
    ASSUME IInv, IInv', NoLostWakeup, [Next]_vars
    PROVE  NoLostWakeup'
<1> USE DEF IInv, LockLabels, UnlockLabels
<1>1. CASE UNCHANGED vars
  BY <1>1 DEF vars, NoLostWakeup
<1>2. SUFFICES ASSUME NEW t \in Threads,
                      \/ lock(t) \/ unlock(t) \/ Step(t)
                      \/ SpuriousWakeup(t) /\ UNCHANGED locks,
                      key' % 2 = 0,
                      NEW s \in Threads, pc'[s] = "asleep"
               PROVE  Awake' # {}
  BY <1>1 DEF Next, NoLostWakeup, Awake
<1>0. Owns(t) => key % 2 = 1
  BY WaitersFinite DEF WordIsExact
<1>3. CASE lock(t) \/ SpuriousWakeup(t) \/ LockLoad(t) \/ DecLoad(t) \/ DecCas(t)
           \/ LockAdd(t)
  <2>1. t \in Awake' \/ pc'[t] = "throw"
    BY <1>3 DEF lock, SpuriousWakeup, LockLoad, DecLoad, DecCas, LockAdd, Goto, TypeOK, Awake
  <2> QED
    BY <2>1 DEF NoThrow
<1>4. CASE LockCas(t)
  <2>1. v[t] \in Nat /\ v[t] % 2 = 0
    BY <1>4 DEF LockCas, TypeOK, Remembers
  <2>2. key # v[t]
    BY <1>4, <1>2, <2>1 DEF LockCas
  <2> QED
    BY <1>4, <2>2 DEF LockCas, Goto, TypeOK, Awake
<1>5. CASE FutexSleep(t)
  <2>1. key # v[t]
    BY <1>5, <1>2 DEF FutexSleep, TypeOK, Remembers
  <2> QED
    BY <1>5, <2>1 DEF FutexSleep, Goto, TypeOK, Awake
<1>6. CASE unlock(t) \/ UnlockLoad(t)
  <2>1. Owns(t) /\ key' = key
    BY <1>6 DEF unlock, UnlockLoad, Owns
  <2> QED
    BY <2>1, <1>0, <1>2
<1>7. CASE UnlockCas(t)
  <2>1. key = v[t]
    BY <1>7, <1>0, <1>2 DEF UnlockCas, Owns
  <2>2. pc[s] = "asleep"
    BY <1>7, <1>2 DEF UnlockCas, Goto, TypeOK, Remembers
  <2>3. s \in Waiters
    BY <2>2 DEF Waiters, Counted
  <2>4. Cardinality(Waiters) # 0
    BY <2>3, WaitersFinite, FS_EmptySet
  <2>5. key >= 2
    BY <2>4, WaitersFinite DEF WordIsExact
  <2>6. pc'[t] = "futexwakeup"
    BY <1>7, <2>1, <2>5 DEF UnlockCas, Goto, TypeOK
  <2> QED
    BY <2>6 DEF Awake
<1>8. CASE FutexWakeup(t)
  <2>1. pc[s] = "asleep"
    BY <1>8, <1>2 DEF FutexWakeup, Goto, TypeOK, Remembers
  <2>2. PICK u \in Threads : pc[u] = "asleep"
                             /\ pc' = [pc EXCEPT ![t] = ret[t], ![u] = "dec_load"]
    BY <1>8, <2>1 DEF FutexWakeup
  <2>3. u \in Awake'
    BY <1>8, <2>2 DEF FutexWakeup, TypeOK, Awake
  <2> QED
    BY <2>3
<1> QED
  BY <1>2, <1>3, <1>4, <1>5, <1>6, <1>7, <1>8 DEF Step, futexlock, futexunlock

\* A free lock with a sleeping waiter always has somebody awake to take it or
\* to wake the sleeper.
THEOREM LockNoLostWakeup == Spec => []NoLostWakeup
<1>1. Init => NoLostWakeup
  BY DEF Init, NoLostWakeup
<1>2. IInv /\ IInv' /\ NoLostWakeup /\ [Next]_vars => NoLostWakeup'
  BY NextNoLostWakeup
<1> QED
  BY <1>1, <1>2, Invariance, PTL DEF Spec

-----------------------------------------------------------------------------
(***************************************************************************)
(* Refinement: lock and unlock implement LockSpec.  The abstract owner     *)
(* changes in the two compare-and-swaps on the low bit and nowhere else.   *)
(***************************************************************************)
LEMMA OwnerIs ==
    ASSUME MutualExclusion
    PROVE  /\ \A t \in Threads : Owns(t) => owner = t
           /\ (\A t \in Threads : ~Owns(t)) => owner = NoOwner
BY Zenon DEF owner, MutualExclusion

\* The owner of the next state, from who owns the lock there.
LEMMA OwnerIsNext ==
    ASSUME MutualExclusion'
    PROVE  /\ \A t \in Threads : Owns(t)' => owner' = t
           /\ (\A t \in Threads : ~Owns(t)') => owner' = NoOwner
BY DEF owner, MutualExclusion

\* A step that changes who owns the lock is an Acquire or a Release.
LEMMA StepRefines ==
    ASSUME IInv, IInv', [Next]_vars
    PROVE  [Abstract!Next]_owner
<1> USE DEF IInv, LockLabels, UnlockLabels
<1>0. ASSUME \A u \in Threads : Owns(u)' <=> Owns(u) PROVE owner' = owner
  BY <1>0, OwnerIs, OwnerIsNext
<1>1. CASE UNCHANGED vars
  BY <1>0, <1>1 DEF vars, Owns
<1>2. ASSUME NEW t \in Threads, LockCas(t), key = v[t] PROVE Abstract!Acquire(t)
  <2>1. \A u \in Threads : ~Owns(u)
    BY <1>2, WaitersFinite DEF LockCas, WordIsExact, TypeOK, Remembers
  <2>2. Owns(t)'
    BY <1>2 DEF LockCas, Goto, TypeOK, Owns, Remembers
  <2> QED
    BY <2>1, <2>2, OwnerIs, OwnerIsNext DEF Abstract!Acquire
<1>3. ASSUME NEW t \in Threads, UnlockCas(t), key = v[t] PROVE Abstract!Release(t)
  <2>1. Owns(t)
    BY <1>3 DEF UnlockCas, Owns
  <2>2. \A u \in Threads : Owns(u) => u = t
    BY <2>1 DEF MutualExclusion
  <2>3. \A u \in Threads : ~Owns(u)'
    BY <1>3, <2>2 DEF UnlockCas, Goto, TypeOK, Owns, Remembers
  <2> QED
    BY <2>1, <2>3, OwnerIs, OwnerIsNext DEF Abstract!Release
<1>4. ASSUME NEW t \in Threads,
             \/ lock(t) \/ unlock(t) \/ SpuriousWakeup(t)
             \/ LockLoad(t) \/ LockAdd(t) \/ FutexSleep(t) \/ DecLoad(t) \/ DecCas(t)
             \/ UnlockLoad(t) \/ FutexWakeup(t)
             \/ LockCas(t) /\ key # v[t]
             \/ UnlockCas(t) /\ key # v[t]
      PROVE  \A u \in Threads : Owns(u)' <=> Owns(u)
  <2>1. \A u \in Threads : pc'[u] # "throw"
    BY DEF NoThrow
  <2>2. CASE lock(t) \/ unlock(t) \/ SpuriousWakeup(t)
    BY <2>1, <2>2 DEF lock, unlock, SpuriousWakeup, Goto, TypeOK, Owns
  <2>3. CASE LockLoad(t) \/ LockAdd(t) \/ FutexSleep(t) \/ (LockCas(t) /\ key # v[t])
    BY <2>1, <2>3 DEF LockLoad, LockAdd, FutexSleep, LockCas, Goto, TypeOK, Owns, Remembers
  <2>4. CASE DecLoad(t) \/ DecCas(t)
    BY <2>1, <2>4 DEF DecLoad, DecCas, Goto, TypeOK, Owns, Remembers
  <2>5. CASE UnlockLoad(t) \/ FutexWakeup(t) \/ (UnlockCas(t) /\ key # v[t])
    BY <2>1, <2>5 DEF UnlockLoad, FutexWakeup, UnlockCas, Goto, TypeOK, Owns, Remembers
  <2> QED
    BY <1>4, <2>2, <2>3, <2>4, <2>5
<1>5. ASSUME NEW t \in Threads,
             \/ lock(t) \/ unlock(t) \/ Step(t)
             \/ SpuriousWakeup(t) /\ UNCHANGED locks
      PROVE  [Abstract!Next]_owner
  BY <1>0, <1>2, <1>3, <1>4, <1>5 DEF Step, futexlock, futexunlock, Abstract!Next
<1> QED
  BY <1>1, <1>5 DEF Next

\* The lock of the runtime implements the abstract lock.
THEOREM LockImplements == Spec => ImplementsLock
<1>1. Init => Abstract!Init
  BY DEF Init, Abstract!Init, owner, Owns
<1>2. IInv /\ IInv' /\ [Next]_vars => [Abstract!Next]_owner
  BY StepRefines
<1> QED
  BY <1>1, <1>2, Invariance, PTL DEF Spec, ImplementsLock, Abstract!Spec

-----------------------------------------------------------------------------
(***************************************************************************)
(* The handoff of a goroutine to an idle M: noteclear never overwrites a   *)
(* word that somebody uses, and the handoff never throws.  The Ms use the  *)
(* scheduler lock as FutexLock expects, so an M that still wakes the note, *)
(* which holds that lock, keeps Sleeper from clearing it; and the word of  *)
(* the note is exact: it is set until the wakeup, and counts Sleeper while *)
(* it is counted.  First the invariant, and the steps of the other Ms and of *)
(* Sleeper outside the word of the note; then Sleeper's steps on the word. *)
(***************************************************************************)

NTypes ==
    /\ note \in Nat
    /\ nv \in [Threads -> Nat]
    /\ DOMAIN at = Threads /\ DOMAIN back = Threads
    /\ waitnextg \in BOOLEAN /\ nextg \in BOOLEAN

Signals(t) == at[t] \in {"unlock_load", "unlock_cas"}

\* What holds of an M that may wake the note.
WakerAt(t) ==
    /\ at[t] \in {"run", "unlock"} \cup UnlockLabels
    /\ at[t] # "run" => pc[t] = "cs"
    /\ at[t] \in UnlockLabels => back[t] = "unlock" /\ ~waitnextg
    /\ Signals(t) => nextg
    /\ at[t] = "unlock_cas" => nv[t] % 2 = 1

Signalled == \A t \in Wakers : ~Signals(t)

\* Where Sleeper is, in the order of the handoff.
Away ==
    /\ at[Sleeper] \in {"run", "unlock"}
    /\ at[Sleeper] = "unlock" => pc[Sleeper] = "cs"
    /\ ~waitnextg /\ Signalled

Clearing ==
    /\ at[Sleeper] \in {"lock_load", "lock_cas"} /\ back[Sleeper] = "cleared"
    /\ pc[Sleeper] = "cs"
    /\ note = 0
    /\ at[Sleeper] = "lock_cas" => nv[Sleeper] = 0
    /\ waitnextg /\ ~nextg

Cleared ==
    /\ at[Sleeper] = "cleared" /\ pc[Sleeper] = "cs"
    /\ note = 1
    /\ waitnextg /\ ~nextg

Pending == waitnextg \/ ~Signalled

NoteCounts == at[Sleeper] \in {"futexsleep", "asleep", "dec_load", "dec_cas"}

Waiting ==
    /\ \/ at[Sleeper] = "sleep" /\ pc[Sleeper] \in UnlockLabels \cup {"idle"}
       \/ at[Sleeper] \in LockLabels /\ back[Sleeper] = "slept" /\ pc[Sleeper] = "idle"
    /\ note = (IF NoteCounts THEN 2 ELSE 0) + (IF Pending THEN 1 ELSE 0)
    /\ at[Sleeper] = "lock_cas" => nv[Sleeper] % 2 = 0
    /\ at[Sleeper] \in {"lock_add", "futexsleep"} => nv[Sleeper] % 2 = 1
    /\ nextg = ~waitnextg

Slept ==
    /\ at[Sleeper] \in {"slept", "unlock_load", "unlock_cas"} /\ pc[Sleeper] = "idle"
    /\ at[Sleeper] # "slept" => back[Sleeper] = "awake"
    /\ note = 1
    /\ at[Sleeper] = "unlock_cas" => nv[Sleeper] = 1
    /\ nextg /\ ~waitnextg /\ Signalled

Woken ==
    /\ at[Sleeper] = "awake" /\ pc[Sleeper] = "idle"
    /\ nextg /\ ~waitnextg /\ Signalled

SleeperAt == Away \/ Clearing \/ Cleared \/ Waiting \/ Slept \/ Woken

NInv == NTypes /\ (\A t \in Wakers : WakerAt(t)) /\ SleeperAt

-----------------------------------------------------------------------------
\* A step of the handoff is a step of the scheduler lock, or leaves it alone.
LEMMA UsesLock == NoteNext => [Next]_vars
<1> SUFFICES ASSUME NEW t \in Threads,
                    \/ SchedLock(t) \/ NoteStep(t)
                    \/ Step(t) \/ (SpuriousWakeup(t) /\ UNCHANGED locks)
                    \/ Word!SpuriousWakeup(t) /\ UNCHANGED <<vars, waitnextg, nextg>>
             PROVE  [Next]_vars
  BY DEF NoteNext
<1>1. CASE SchedLock(t) \/ Step(t) \/ (SpuriousWakeup(t) /\ UNCHANGED locks)
  BY <1>1 DEF SchedLock, Next
<1>2. CASE SchedUnlock(t)
  BY <1>2 DEF SchedUnlock, Next
<1>3. CASE mnextg(t) \/ OtherWork(t) \/ nextgandunlock(t) \/ Notesleep(t)
           \/ NotesleepUnlock(t) \/ TakeNextg(t) \/ UNCHANGED vars
  BY <1>3 DEF mnextg, OtherWork, nextgandunlock, Notesleep, NotesleepUnlock, TakeNextg
<1> QED
  BY <1>1, <1>2, <1>3 DEF NoteStep

\* The Ms use the scheduler lock by its rules.
THEOREM SchedLockUsed == NoteSpec => Spec
<1>1. NoteInit => Init
  BY DEF NoteInit
<1>2. [NoteNext]_allvars => [Next]_vars
  BY UsesLock DEF allvars
<1> QED
  BY <1>1, <1>2, PTL DEF NoteSpec, Spec

-----------------------------------------------------------------------------
LEMMA NoteInitInv == NoteInit => NInv
<1> SUFFICES ASSUME NoteInit PROVE NInv
  OBVIOUS
<1>1. NTypes
  BY Zenon DEF NoteInit, NTypes
<1>2. \A t \in Threads : at[t] = "run"
  BY Zenon DEF NoteInit
<1>3. \A t \in Wakers : WakerAt(t) /\ ~Signals(t)
  BY Zenon, <1>2 DEF Wakers, WakerAt, Signals, UnlockLabels
<1>4. Away
  BY Zenon, <1>2, <1>3, SleeperAssumption DEF NoteInit, Away, Signalled
<1> QED
  BY <1>1, <1>3, <1>4 DEF NInv, SleeperAt

\* Steps of the scheduler lock move nobody who is in the handoff, but for the
\* M that leaves its unlock.
LEMMA LockStepKeeps ==
    ASSUME IInv, IInv', NEW t \in Threads,
           SchedLock(t) \/ Step(t) \/ (SpuriousWakeup(t) /\ UNCHANGED locks)
    PROVE  \A u \in Threads :
              /\ pc[u] = "cs" => pc'[u] = "cs"
              /\ pc[u] = "idle" /\ at[u] # "run" => pc'[u] = "idle"
              /\ pc[u] \in UnlockLabels => pc'[u] \in UnlockLabels \cup {"idle"}
<1> USE DEF IInv, LockLabels, UnlockLabels
<1>0. \A u \in Threads : pc'[u] # "throw"
  BY DEF NoThrow
<1>1. CASE SchedLock(t) \/ SpuriousWakeup(t)
  BY <1>1 DEF SchedLock, lock, SpuriousWakeup, Goto, TypeOK
<1>2. CASE LockLoad(t) \/ LockCas(t) \/ LockAdd(t)
  BY <1>2 DEF LockLoad, LockCas, LockAdd, Goto, TypeOK
<1>3. CASE FutexSleep(t) \/ DecLoad(t) \/ DecCas(t)
  BY <1>3 DEF FutexSleep, DecLoad, DecCas, Goto, TypeOK
<1>4. CASE UnlockLoad(t) \/ UnlockCas(t)
  BY <1>0, <1>4 DEF UnlockLoad, UnlockCas, Goto, TypeOK, Remembers
<1>5. CASE FutexWakeup(t)
  BY <1>5 DEF FutexWakeup, Goto, TypeOK, Remembers
<1> QED
  BY <1>1, <1>2, <1>3, <1>4, <1>5 DEF Step, futexlock, futexunlock

LEMMA LockStepNInv ==
    ASSUME IInv, IInv', NInv, NEW t \in Threads,
           SchedLock(t) \/ Step(t) \/ (SpuriousWakeup(t) /\ UNCHANGED locks),
           UNCHANGED notevars
    PROVE  NInv'
<1> USE DEF NInv, notevars
<1>1. NTypes'
  BY DEF NTypes
<1>2. \A u \in Threads :
         /\ pc[u] = "cs" => pc'[u] = "cs"
         /\ pc[u] = "idle" /\ at[u] # "run" => pc'[u] = "idle"
         /\ pc[u] \in UnlockLabels => pc'[u] \in UnlockLabels \cup {"idle"}
  BY LockStepKeeps
<1>3. ASSUME NEW w \in Wakers PROVE WakerAt(w)'
  <2>1. w \in Threads /\ WakerAt(w)
    BY <1>3 DEF Wakers
  <2> QED
    BY <1>2, <2>1 DEF WakerAt, Signals
<1>4. Signalled' = Signalled
  BY DEF Signalled, Signals
<1>5. SleeperAt'
  <2>1. CASE Away
    BY Zenon, <1>2, <1>4, <2>1, SleeperAssumption DEF SleeperAt, Away
  <2>2. CASE Clearing \/ Cleared
    BY Zenon, <1>2, <2>2, SleeperAssumption DEF SleeperAt, Clearing, Cleared
  <2>3. CASE Waiting
    BY Zenon, <1>2, <1>4, <2>3, SleeperAssumption
       DEF SleeperAt, Waiting, Pending, NoteCounts, LockLabels
  <2>4. CASE Slept \/ Woken
    BY <1>2, <1>4, <2>4, SleeperAssumption DEF SleeperAt, Slept, Woken
  <2> QED
    BY <2>1, <2>2, <2>3, <2>4 DEF SleeperAt
<1> QED
  BY <1>1, <1>3, <1>5

-----------------------------------------------------------------------------
\* The holder of the scheduler lock is alone in the handoff with Sleeper.
LEMMA OneHolder ==
    ASSUME IInv, NInv, NEW t \in Threads, pc[t] = "cs"
    PROVE  /\ \A u \in Threads : pc[u] = "cs" => u = t
           /\ \A u \in Wakers : u # t => at[u] = "run"
BY DEF IInv, MutualExclusion, Owns, NInv, WakerAt, Wakers

\* A waker that has only to unlock, or is done.
LEMMA WakerUnlocksNInv ==
    ASSUME IInv, IInv', NInv, NEW t \in Wakers, OtherWork(t) \/ SchedUnlock(t)
    PROVE  NInv'
<1> USE DEF NInv
<1>0. t \in Threads /\ t # Sleeper /\ Sleeper \in Threads /\ WakerAt(t)
  BY Zenon, SleeperAssumption DEF Wakers
<1>1. /\ UNCHANGED <<note, nv, back, waitnextg, nextg>>
      /\ at[t] \in {"run", "unlock"}
      /\ at' = [at EXCEPT ![t] = IF at[t] = "run" THEN "unlock" ELSE "run"]
  BY <1>0 DEF OtherWork, SchedUnlock, Move, Locked, WakerAt, UnlockLabels
<1>2. \A u \in Threads : u # t => at'[u] = at[u] /\ pc'[u] = pc[u]
  BY <1>0, <1>1 DEF OtherWork, SchedUnlock, unlock, Goto, vars, NTypes, IInv, TypeOK
<1>3. NTypes'
  BY <1>0, <1>1 DEF NTypes
<1>4. WakerAt(t)'
  BY Zenon, <1>0, <1>1 DEF OtherWork, SchedUnlock, Locked, Move, WakerAt, UnlockLabels, Signals, vars, NTypes
<1>5. ASSUME NEW u \in Wakers, u # t PROVE WakerAt(u)'
  <2>1. u \in Threads /\ WakerAt(u)
    BY <1>5 DEF Wakers
  <2> QED
    BY <1>1, <1>2, <1>5, <2>1 DEF WakerAt, Signals
<1>6. Signalled' = Signalled
  <2>1. \A u \in Wakers : Signals(u)' <=> Signals(u)
    BY <1>0, <1>1, <1>2 DEF Signals, Wakers, NTypes
  <2> QED
    BY <2>1 DEF Signalled
<1>7. at'[Sleeper] = at[Sleeper] /\ pc'[Sleeper] = pc[Sleeper]
  BY <1>0, <1>2
<1>8. SleeperAt'
  <2>1. CASE Away
    BY <1>1, <1>6, <1>7, <2>1 DEF SleeperAt, Away
  <2>2. CASE Clearing \/ Cleared
    BY Zenon, <1>1, <1>7, <2>2 DEF SleeperAt, Clearing, Cleared
  <2>3. CASE Waiting
    BY Zenon, <1>1, <1>6, <1>7, <2>3 DEF SleeperAt, Waiting, Pending, NoteCounts, LockLabels
  <2>4. CASE Slept \/ Woken
    BY <1>1, <1>6, <1>7, <2>4 DEF SleeperAt, Slept, Woken
  <2> QED
    BY <2>1, <2>2, <2>3, <2>4 DEF SleeperAt
<1> QED
  BY <1>3, <1>4, <1>5, <1>8

\* mnextg: Sleeper, which has no goroutine, is away or waits.
LEMMA MnextgNInv ==
    ASSUME IInv, NInv, NEW t \in Threads, mnextg(t)
    PROVE  NInv'
<1> USE DEF NInv
<1>0. /\ t \in Wakers /\ t # Sleeper /\ Sleeper \in Threads
      /\ pc[t] = "cs" /\ at[t] = "run" /\ ~nextg
      /\ UNCHANGED <<pc, note, nv>>
      /\ nextg' = TRUE /\ waitnextg' = FALSE
  BY Zenon, SleeperAssumption DEF mnextg, Wakers, Locked, vars
<1>1. /\ pc[Sleeper] # "cs"
      /\ \A u \in Wakers : at[u] = "run"
  BY <1>0, OneHolder
<1>2. /\ waitnextg => at'[t] = "unlock_load" /\ back'[t] = "unlock"
      /\ ~waitnextg => at'[t] = "unlock"
      /\ \A u \in Threads : u # t => at'[u] = at[u] /\ back'[u] = back[u]
      /\ DOMAIN at' = Threads /\ DOMAIN back' = Threads
  BY <1>0 DEF mnextg, Call, Move, NTypes
<1>3. NTypes'
  BY <1>0, <1>2, Zenon DEF NTypes
<1>4. WakerAt(t)'
  BY <1>0, <1>2 DEF WakerAt, Signals, UnlockLabels
<1>5. ASSUME NEW u \in Wakers, u # t PROVE WakerAt(u)' /\ ~Signals(u)'
  <2>1. at'[u] = "run"
    BY Zenon, <1>1, <1>2, <1>5 DEF Wakers
  <2> QED
    BY <2>1 DEF WakerAt, Signals, UnlockLabels
<1>6. SleeperAt'
  <2>1. CASE Away
    <3>1. Signalled'
      BY <1>0, <1>2, <1>5, <2>1 DEF Away, Signalled, Signals
    <3> QED
      BY Zenon, <1>0, <1>2, <2>1, <3>1 DEF SleeperAt, Away
  <2>2. CASE Waiting
    <3>1. waitnextg
      BY <1>0, <2>2, Zenon DEF Waiting, NTypes
    <3>2. Pending /\ Pending'
      BY <1>0, <1>2, <3>1 DEF Pending, Signalled, Signals
    <3> QED
      BY <1>0, <1>2, <2>2, <3>2, Zenon DEF SleeperAt, Waiting, NoteCounts, LockLabels
  <2> QED
    BY Zenon, <1>0, <1>1, <2>1, <2>2 DEF SleeperAt, Clearing, Cleared, Slept, Woken
<1> QED
  BY Zenon, <1>3, <1>4, <1>5, <1>6

-----------------------------------------------------------------------------
\* While a waker signals, Sleeper waits and the word is still set.
LEMMA SignalsWaiting ==
    ASSUME IInv, NInv, NEW t \in Wakers, Signals(t)
    PROVE  Waiting /\ Pending /\ pc[t] = "cs" /\ nextg /\ ~waitnextg /\ back[t] = "unlock"
<1>1. WakerAt(t) /\ ~Signalled /\ t \in Threads /\ t # Sleeper
  BY DEF NInv, Signalled, Wakers
<1>2. pc[t] = "cs" /\ nextg /\ ~waitnextg /\ back[t] = "unlock"
  BY Zenon, <1>1 DEF WakerAt, Signals, UnlockLabels
<1>3. Waiting
  BY <1>1, <1>2 DEF NInv, SleeperAt, Away, Clearing, Cleared, Slept, Woken
<1> QED
  BY <1>1, <1>2, <1>3 DEF Pending

\* notewakeup up to its compare-and-swap.
LEMMA SignalNInv ==
    ASSUME IInv, NInv, NEW t \in Wakers, Word!UnlockLoad(t) \/ Word!UnlockCas(t),
           UNCHANGED <<vars, waitnextg, nextg>>
    PROVE  NInv'
<1> USE DEF NInv
<1>0. t \in Threads /\ t # Sleeper /\ Sleeper \in Threads /\ WakerAt(t) /\ UNCHANGED pc
  BY SleeperAssumption DEF Wakers, vars
<1>1. Signals(t)
  BY Zenon DEF Word!UnlockLoad, Word!UnlockCas, Signals
<1>2. Waiting /\ Pending /\ pc[t] = "cs" /\ nextg /\ ~waitnextg /\ back[t] = "unlock"
  BY <1>1, SignalsWaiting
<1>3. /\ UNCHANGED back
      /\ \A u \in Threads : u # t => at'[u] = at[u] /\ nv'[u] = nv[u]
      /\ DOMAIN at' = Threads
  BY Zenon, <1>0 DEF Word!UnlockLoad, Word!UnlockCas, Word!Goto, NTypes
<1>4. note % 2 = 1 /\ note \in {1, 3}
  BY <1>2 DEF Waiting
<1>5. /\ \/ at[t] = "unlock_load" /\ at'[t] = "unlock_cas" /\ nv'[t] = note /\ note' = note
         \/ at[t] = "unlock_cas" /\ at'[t] = "unlock_load" /\ nv'[t] = 0 /\ note' = note
         \/ /\ at[t] = "unlock_cas" /\ at'[t] \in {"futexwakeup", "unlock"}
            /\ nv'[t] = 0 /\ note' = note - 1
      /\ nv' \in [Threads -> Nat]
  BY <1>0, <1>2, <1>4 DEF Word!UnlockLoad, Word!UnlockCas, Word!Goto, NTypes
<1>6. NTypes'
  BY <1>3, <1>4, <1>5 DEF NTypes
<1>7. WakerAt(t)'
  BY Zenon, <1>0, <1>2, <1>3, <1>4, <1>5 DEF WakerAt, Signals, UnlockLabels
<1>8. ASSUME NEW u \in Wakers, u # t PROVE WakerAt(u)' /\ ~Signals(u)' /\ ~Signals(u)
  <2>1. u \in Threads /\ at[u] = "run" /\ at'[u] = "run"
    BY <1>0, <1>2, <1>3, <1>8, OneHolder DEF Wakers
  <2> QED
    BY <2>1 DEF WakerAt, Signals, UnlockLabels
<1>9. Waiting'
  <2>1. Pending' <=> Signals(t)'
    BY <1>2, <1>8 DEF Pending, Signalled
  <2>2. note' = (IF NoteCounts THEN 2 ELSE 0) + (IF Pending' THEN 1 ELSE 0)
    BY <1>2, <1>4, <1>5, <2>1 DEF Waiting, Signals
  <2> QED
    BY <1>0, <1>2, <1>3, <2>2, Zenon DEF Waiting, NoteCounts, LockLabels
<1> QED
  BY <1>6, <1>7, <1>8, <1>9 DEF SleeperAt

\* Sleeper is woken from futexsleep, by a waker or spuriously.
LEMMA WokenNInv ==
    ASSUME IInv, NInv, NEW t \in Threads,
           (t \in Wakers /\ Word!FutexWakeup(t)) \/ Word!SpuriousWakeup(t),
           UNCHANGED <<vars, waitnextg, nextg>>
    PROVE  NInv'
<1> USE DEF NInv
<1>0. Sleeper \in Threads /\ UNCHANGED <<pc, note, nv, back>>
  BY SleeperAssumption DEF vars, Word!FutexWakeup, Word!SpuriousWakeup
<1>1. \A u \in Threads : at[u] = "asleep" => u = Sleeper
  BY DEF Wakers, WakerAt, UnlockLabels
<1>2. /\ DOMAIN at' = Threads
      /\ at'[Sleeper] = at[Sleeper] \/ (at[Sleeper] = "asleep" /\ at'[Sleeper] = "dec_load")
      /\ \A u \in Wakers : at'[u] = at[u] \/ (at[u] = "futexwakeup" /\ at'[u] = "unlock")
  <2>1. CASE Word!SpuriousWakeup(t)
    BY <1>1, <2>1 DEF Word!SpuriousWakeup, Word!Goto, Wakers, NTypes
  <2>2. CASE t \in Wakers /\ Word!FutexWakeup(t)
    <3>1. WakerAt(t) /\ back[t] = "unlock" /\ at[t] = "futexwakeup" /\ t # Sleeper
      BY SMTT(30), <2>2 DEF WakerAt, Word!FutexWakeup, UnlockLabels, Wakers
    <3> QED
      BY Zenon, <1>0, <1>1, <2>2, <3>1 DEF Word!FutexWakeup, Word!Goto, Wakers, NTypes
  <2> QED
    BY <2>1, <2>2
<1>3. NTypes'
  BY <1>0, <1>2 DEF NTypes
<1>4. ASSUME NEW u \in Wakers PROVE WakerAt(u)' /\ (Signals(u)' <=> Signals(u))
  <2>1. WakerAt(u)
    BY <1>4
  <2> QED
    BY <1>0, <1>2, <2>1 DEF WakerAt, Signals, UnlockLabels
<1>5. Signalled' = Signalled
  BY <1>4 DEF Signalled
<1>6. SleeperAt'
  <2>1. CASE Away
    BY <1>0, <1>2, <1>5, <2>1, Zenon DEF SleeperAt, Away
  <2>2. CASE Clearing \/ Cleared
    BY <1>0, <1>2, <2>2, Zenon DEF SleeperAt, Clearing, Cleared
  <2>3. CASE Waiting
    BY <1>0, <1>2, <1>5, <2>3, Zenon DEF SleeperAt, Waiting, Pending, NoteCounts, LockLabels
  <2>4. CASE Slept \/ Woken
    BY <1>0, <1>2, <1>5, <2>4, Zenon DEF SleeperAt, Slept, Woken
  <2> QED
    BY <2>1, <2>2, <2>3, <2>4 DEF SleeperAt
<1> QED
  BY <1>3, <1>4, <1>6

-----------------------------------------------------------------------------
\* A step of Sleeper that does not move the wakers, nor the flags they know.
LEMMA WakersStay ==
    ASSUME NInv,
           \A u \in Wakers : at'[u] = at[u] /\ pc'[u] = pc[u] /\ nv'[u] = nv[u] /\ back'[u] = back[u],
           \/ UNCHANGED <<waitnextg, nextg>>
           \/ \A u \in Wakers : at[u] \notin UnlockLabels
           \/ waitnextg' = waitnextg /\ \A u \in Wakers : ~Signals(u)
    PROVE  (\A u \in Wakers : WakerAt(u)') /\ Signalled' = Signalled
<1>1. ASSUME NEW u \in Wakers PROVE WakerAt(u)' /\ (Signals(u)' <=> Signals(u))
  <2>1. WakerAt(u)
    BY <1>1 DEF NInv
  <2> QED
    BY <1>1, <2>1 DEF WakerAt, Signals, UnlockLabels
<1> QED
  BY ZenonT(60), <1>1 DEF Signalled

\* nextgandunlock: no waker is in the handoff, since Sleeper holds the lock.
LEMMA NextgNInv ==
    ASSUME IInv, NInv, NEW t \in Threads, nextgandunlock(t)
    PROVE  NInv'
<1> USE DEF NInv
<1>0. /\ t = Sleeper /\ pc[t] = "cs" /\ at[t] = "run" /\ nextg' = FALSE
      /\ UNCHANGED <<pc, nv>>
  BY DEF nextgandunlock, Locked, vars
<1>1. \A u \in Wakers : u \in Threads /\ u # Sleeper /\ at[u] = "run"
  BY Zenon, <1>0, OneHolder DEF Wakers
<1>2. /\ nextg => at'[t] = "unlock" /\ UNCHANGED <<note, waitnextg>>
      /\ ~nextg => at'[t] = "lock_load" /\ back'[t] = "cleared" /\ waitnextg' = TRUE /\ note' = 0
      /\ \A u \in Threads : u # t => at'[u] = at[u] /\ back'[u] = back[u]
      /\ DOMAIN at' = Threads /\ DOMAIN back' = Threads
  BY <1>0 DEF nextgandunlock, Move, Call, NTypes
<1>3. NTypes'
  <2>1. CASE nextg
    BY <1>0, <1>2, <2>1, Zenon DEF NTypes
  <2>2. CASE ~nextg
    <3>1. note' = 0 /\ waitnextg' = TRUE
      BY <1>2, <2>2
    <3> QED
      BY <1>0, <1>2, <3>1, Zenon DEF NTypes
  <2> QED
    BY <2>1, <2>2
<1>4. (\A u \in Wakers : WakerAt(u)') /\ Signalled' = Signalled
  BY <1>0, <1>1, <1>2, WakersStay, Zenon DEF UnlockLabels
<1>5. Away /\ Signalled
  BY ZenonT(60), <1>0 DEF SleeperAt, Away, Clearing, Cleared, Waiting, Slept, Woken, LockLabels
<1>6. ASSUME nextg PROVE Away'
  <2>1. at'[t] = "unlock" /\ pc'[t] = "cs" /\ waitnextg' = waitnextg
    BY <1>0, <1>2, <1>6, Zenon
  <2>2. ~waitnextg' /\ Signalled'
    BY ZenonT(60), <1>4, <1>5, <2>1 DEF Away
  <2> QED
    BY <1>0, <2>1, <2>2 DEF Away
<1>7. ASSUME ~nextg PROVE Clearing'
  BY <1>0, <1>2, <1>7 DEF Clearing
<1> QED
  BY ZenonT(60), <1>3, <1>4, <1>6, <1>7 DEF SleeperAt

\* The steps of Sleeper between the two words.
LEMMA SleeperNInv ==
    ASSUME IInv, IInv', NInv, NEW t \in Threads, t = Sleeper,
           SchedUnlock(t) \/ Notesleep(t) \/ NotesleepUnlock(t) \/ TakeNextg(t)
    PROVE  NInv'
<1> USE DEF NInv
<1>0. UNCHANGED <<note, nv, waitnextg>>
  BY DEF SchedUnlock, Notesleep, NotesleepUnlock, TakeNextg, vars
<1>1. /\ \A u \in Threads : u # t => at'[u] = at[u] /\ back'[u] = back[u] /\ pc'[u] = pc[u]
      /\ DOMAIN at' = Threads /\ DOMAIN back' = Threads
  BY DEF SchedUnlock, unlock, Goto, Notesleep, NotesleepUnlock, TakeNextg, Move, Call, vars, NTypes, IInv, TypeOK
<1>2. NTypes'
  BY <1>0, <1>1, Zenon DEF NTypes, SchedUnlock, Notesleep, NotesleepUnlock, TakeNextg
<1>3. \A u \in Wakers : u \in Threads /\ u # t
  BY DEF Wakers
<1>4. CASE SchedUnlock(t)
  <2>1. /\ nextg' = nextg /\ back' = back
        /\ at[t] = "unlock" => at'[t] = "run"
        /\ at[t] = "cleared" => at'[t] = "sleep" /\ pc'[t] \in UnlockLabels
    <3>1. pc'[t] # "throw"
      BY Zenon DEF IInv, NoThrow
    <3> QED
      BY <1>4, <3>1, Zenon DEF SchedUnlock, Move, unlock, Goto, NTypes, IInv, TypeOK, UnlockLabels
  <2>2. (\A u \in Wakers : WakerAt(u)') /\ Signalled' = Signalled
    BY <1>0, <1>1, <1>3, <2>1, WakersStay, Zenon
  <2>3. CASE at[t] = "unlock"
    <3>1. Away
      BY Zenon, <2>3 DEF SleeperAt, Away, Clearing, Cleared, Waiting, Slept, Woken, LockLabels
    <3>2. Away'
      BY <1>0, <2>1, <2>2, <2>3, <3>1 DEF Away
    <3> QED
      BY Zenon, <1>2, <2>2, <3>2 DEF SleeperAt
  <2>4. CASE at[t] = "cleared"
    <3>1. Cleared
      BY <2>4 DEF SleeperAt, Away, Clearing, Cleared, Waiting, Slept, Woken, LockLabels
    <3>2. at'[t] = "sleep" /\ pc'[t] \in UnlockLabels /\ note' = 1 /\ waitnextg' /\ ~nextg'
      BY <1>0, <2>1, <2>4, <3>1 DEF Cleared
    <3>3. Pending' /\ ~NoteCounts' /\ nextg' = ~waitnextg'
      BY <1>2, <3>2 DEF Pending, NoteCounts, NTypes
    <3>4. note' = (IF NoteCounts' THEN 2 ELSE 0) + (IF Pending' THEN 1 ELSE 0)
      <4>1. note' = 1 /\ ~NoteCounts' /\ Pending'
        BY <3>2, <3>3, Zenon
      <4> QED
        BY <4>1
    <3>5. Waiting'
      BY <3>2, <3>3, <3>4, Zenon DEF Waiting
    <3> QED
      BY <1>2, <2>2, <3>5 DEF SleeperAt
  <2> QED
    BY <1>4, <2>3, <2>4 DEF SchedUnlock
<1>5. CASE Notesleep(t)
  <2>1. /\ nextg' = nextg /\ pc' = pc /\ pc[t] = "idle"
        /\ at[t] = "sleep" /\ at'[t] = "lock_load" /\ back'[t] = "slept"
    BY <1>5, Zenon DEF Notesleep, Call, vars, NTypes
  <2>2. (\A u \in Wakers : WakerAt(u)') /\ Signalled' = Signalled
    BY <1>0, <1>1, <1>3, <2>1, WakersStay, Zenon
  <2>3. Waiting
    BY <2>1, Zenon DEF SleeperAt, Away, Clearing, Cleared, Slept, Woken
  <2> QED
    BY <1>0, <1>2, <2>1, <2>2, <2>3, Zenon DEF SleeperAt, Waiting, Pending, NoteCounts, LockLabels
<1>6. CASE NotesleepUnlock(t)
  <2>1. /\ nextg' = nextg /\ pc' = pc
        /\ at[t] = "slept" /\ at'[t] = "unlock_load" /\ back'[t] = "awake"
    BY <1>6, Zenon DEF NotesleepUnlock, Call, vars, NTypes
  <2>2. (\A u \in Wakers : WakerAt(u)') /\ Signalled' = Signalled
    BY <1>0, <1>1, <1>3, <2>1, WakersStay, Zenon
  <2>3. Slept
    BY <2>1, Zenon DEF SleeperAt, Away, Clearing, Cleared, Waiting, Woken, LockLabels
  <2> QED
    BY <1>0, <1>2, <2>1, <2>2, <2>3, Zenon DEF SleeperAt, Slept
<1>7. CASE TakeNextg(t)
  <2>0. Woken
    BY <1>7, Zenon DEF TakeNextg, SleeperAt, Away, Clearing, Cleared, Waiting, Slept, LockLabels
  <2>1. at'[t] = "run"
    BY <1>7, <2>0, Zenon DEF TakeNextg, Move, Woken, NTypes
  <2>2. (\A u \in Wakers : WakerAt(u)') /\ Signalled' = Signalled
    BY <1>0, <1>1, <1>3, <2>0, WakersStay, Zenon DEF Woken, Signalled
  <2> QED
    BY <1>0, <1>2, <2>0, <2>1, <2>2, Zenon DEF SleeperAt, Away, Woken
<1> QED
  BY Zenon, <1>4, <1>5, <1>6, <1>7
-----------------------------------------------------------------------------
\* What a step of Sleeper on the word changes.
LEMMA WordStepFrame ==
    ASSUME NInv, NEW t \in Threads, t = Sleeper, Word!futexlock(t) \/ Word!UnlockLoad(t) \/ Word!UnlockCas(t),
           UNCHANGED <<vars, waitnextg, nextg>>
    PROVE  /\ UNCHANGED <<pc, back, waitnextg, nextg>>
           /\ \A u \in Wakers : at'[u] = at[u] /\ nv'[u] = nv[u]
           /\ DOMAIN at' = Threads
           /\ (\A u \in Wakers : WakerAt(u)') /\ Signalled' = Signalled
<1>1. UNCHANGED <<pc, back, waitnextg, nextg>>
  BY DEF Word!futexlock, Word!LockLoad, Word!LockCas, Word!LockAdd, Word!FutexSleep,
         Word!DecLoad, Word!DecCas, Word!UnlockLoad, Word!UnlockCas, vars
<1>2. /\ \A u \in Wakers : at'[u] = at[u] /\ nv'[u] = nv[u]
      /\ DOMAIN at' = Threads
  BY Zenon DEF Word!futexlock, Word!LockLoad, Word!LockCas, Word!LockAdd, Word!FutexSleep,
         Word!DecLoad, Word!DecCas, Word!UnlockLoad, Word!UnlockCas, Word!Goto, Wakers, NInv, NTypes
<1> QED
  BY Zenon, <1>1, <1>2, WakersStay

\* Sleeper takes the word in noteclear: nobody else is there.
LEMMA ClearingNInv ==
    ASSUME NInv, Clearing, NEW t \in Threads, t = Sleeper, Word!futexlock(t),
           UNCHANGED <<vars, waitnextg, nextg>>
    PROVE  NInv'
<1>0. NTypes
  BY Zenon DEF NInv
<1>1. /\ UNCHANGED <<pc, back, waitnextg, nextg>>
      /\ DOMAIN at' = Threads
      /\ (\A u \in Wakers : WakerAt(u)') /\ Signalled' = Signalled
  BY Zenon, WordStepFrame
<1>same. pc' = pc /\ back' = back /\ nextg' = nextg /\ waitnextg' = waitnextg /\ Signalled' = Signalled
  BY Zenon, <1>1
<1>2. CASE Word!LockLoad(t)
  <2>0. note = 0
    BY DEF Clearing
  <2>1. note' = 0 /\ nv' = [nv EXCEPT ![t] = 0] /\ at'[t] = "lock_cas"
    BY SMTT(30), <1>0, <1>2, <2>0 DEF Word!LockLoad, Word!Goto, NTypes
  <2>2. NTypes' /\ nv'[t] = 0
    BY <1>0, <1>1, <2>1 DEF NTypes
  <2>3. Clearing'
    BY <1>same, <2>1, <2>2 DEF Clearing
  <2> QED
    BY Zenon, <1>1, <2>2, <2>3 DEF NInv, SleeperAt
<1>3. CASE Word!LockCas(t)
  <2>1. note' = 1 /\ nv' = [nv EXCEPT ![t] = 0] /\ at'[t] = "cleared"
    BY <1>0, <1>3 DEF Word!LockCas, Word!Goto, Clearing, NTypes
  <2>2. NTypes'
    BY <1>0, <1>1, <2>1 DEF NTypes
  <2>3. Cleared'
    BY <1>same, <2>1 DEF Clearing, Cleared
  <2> QED
    BY <1>1, <2>2, <2>3 DEF NInv, SleeperAt
<1> QED
  BY <1>2, <1>3 DEF Clearing, Word!futexlock, Word!LockAdd, Word!FutexSleep, Word!DecLoad, Word!DecCas

\* A step of Sleeper inside futexlock of notesleep that keeps it there.
LEMMA StillWaiting ==
    ASSUME Waiting, UNCHANGED <<pc, back, waitnextg, nextg>>, Signalled' = Signalled,
           at[Sleeper] \in LockLabels, at'[Sleeper] \in LockLabels,
           note' = (IF NoteCounts' THEN 2 ELSE 0) + (IF Pending THEN 1 ELSE 0),
           at'[Sleeper] = "lock_cas" => nv'[Sleeper] % 2 = 0,
           at'[Sleeper] \in {"lock_add", "futexsleep"} => nv'[Sleeper] % 2 = 1
    PROVE  Waiting'
<1>1. back[Sleeper] = "slept" /\ pc[Sleeper] = "idle" /\ nextg = ~waitnextg
  BY Zenon DEF Waiting, LockLabels
<1>2. Pending' = Pending
  BY DEF Pending
<1> QED
  BY Zenon, <1>1, <1>2 DEF Waiting

\* Sleeper in notesleep takes the word only after the wakeup.
LEMMA WaitingNInv ==
    ASSUME NInv, Waiting, NEW t \in Threads, t = Sleeper, Word!futexlock(t),
           UNCHANGED <<vars, waitnextg, nextg>>
    PROVE  NInv'
<1>0. NTypes
  BY SMTT(30) DEF NInv
<1>1. /\ UNCHANGED <<pc, back, waitnextg, nextg>>
      /\ DOMAIN at' = Threads
      /\ (\A u \in Wakers : WakerAt(u)') /\ Signalled' = Signalled
  BY WordStepFrame
<1>same. pc' = pc /\ back' = back /\ nextg' = nextg /\ waitnextg' = waitnextg /\ Signalled' = Signalled
  BY SMTT(30), <1>1
<1>2. at[t] \in LockLabels
  BY SMTT(30) DEF Word!futexlock, Word!LockLoad, Word!LockCas, Word!LockAdd, Word!FutexSleep,
         Word!DecLoad, Word!DecCas, LockLabels
<1>3. note = (IF NoteCounts THEN 2 ELSE 0) + (IF Pending THEN 1 ELSE 0)
  BY DEF Waiting
<1>4. ASSUME note' \in Nat, nv' \in [Threads -> Nat], Waiting' \/ Slept' PROVE NInv'
  <2>1. NTypes'
    BY <1>0, <1>1, <1>4 DEF NTypes
  <2> QED
    BY <1>1, <1>4, <2>1 DEF NInv, SleeperAt
<1>5. CASE Word!LockLoad(t)
  <2>1. /\ note' = note /\ nv' = [nv EXCEPT ![t] = note]
        /\ at'[t] = IF note % 2 = 0 THEN "lock_cas" ELSE "lock_add"
        /\ at[t] = "lock_load"
    BY <1>0, <1>5 DEF Word!LockLoad, Word!Goto, NTypes
  <2>2. ~NoteCounts /\ ~NoteCounts'
    BY <2>1 DEF NoteCounts
  <2>3. note' \in Nat /\ nv' \in [Threads -> Nat] /\ nv'[t] = note /\ note \in {0, 1}
    BY <1>0, <1>3, <2>1, <2>2 DEF NTypes
  <2>4. Waiting'
    <3>1. at'[t] \in LockLabels
      BY <2>1 DEF LockLabels
    <3>2. note' = (IF NoteCounts' THEN 2 ELSE 0) + (IF Pending THEN 1 ELSE 0)
      BY <1>3, <2>1, <2>2
    <3>3. /\ at'[t] = "lock_cas" => nv'[t] % 2 = 0
          /\ at'[t] \in {"lock_add", "futexsleep"} => nv'[t] % 2 = 1
      <4>1. CASE note = 0
        <5>1. at'[t] = "lock_cas" /\ nv'[t] = 0
          BY <2>1, <2>3, <4>1
        <5> QED
          BY <5>1
      <4>2. CASE note = 1
        <5>1. at'[t] = "lock_add" /\ nv'[t] = 1
          BY <2>1, <2>3, <4>2
        <5> QED
          BY <5>1
      <4> QED
        BY <2>3, <4>1, <4>2
    <3> QED
      BY <1>1, <1>2, <3>1, <3>2, <3>3, StillWaiting
  <2> QED
    BY <1>4, <2>3, <2>4
<1>6. CASE Word!LockCas(t)
  <2>1. /\ nv' = [nv EXCEPT ![t] = 0] /\ at[t] = "lock_cas"
        /\ \/ note = nv[t] /\ note' = note + 1 /\ at'[t] = back[t]
           \/ note' = note /\ at'[t] = "lock_load"
    BY <1>0, <1>6 DEF Word!LockCas, Word!Goto, NTypes
  <2>2. ~NoteCounts /\ nv[t] % 2 = 0 /\ back[t] = "slept" /\ pc[t] = "idle" /\ nextg = ~waitnextg
    BY <1>2, <2>1 DEF NoteCounts, Waiting
  <2>3. note \in {0, 1} /\ note' \in Nat /\ nv' \in [Threads -> Nat]
    BY <1>0, <1>3, <2>1, <2>2 DEF NTypes
  <2>4. CASE note = nv[t] /\ note' = note + 1 /\ at'[t] = back[t]
    <3>0. note = 0
      BY <2>2, <2>3, <2>4
    <3>1. note' = 1 /\ ~Pending /\ at'[t] = "slept"
      BY <1>3, <2>2, <2>4, <3>0
    <3>2. ~waitnextg /\ nextg /\ Signalled
      BY <1>0, <2>2, <3>1, Zenon DEF Pending, NTypes
    <3>3. Slept'
      BY <1>same, <2>2, <3>1, <3>2 DEF Slept
    <3> QED
      BY <1>4, <2>3, <3>3
  <2>5. CASE note' = note /\ at'[t] = "lock_load"
    <3>1. ~NoteCounts' /\ at'[t] \in LockLabels
      BY <2>5 DEF NoteCounts, LockLabels
    <3>2. note' = (IF NoteCounts' THEN 2 ELSE 0) + (IF Pending THEN 1 ELSE 0)
      BY <1>3, <2>2, <2>5, <3>1
    <3>3. Waiting'
      BY <1>1, <1>2, <2>5, <3>1, <3>2, StillWaiting
    <3> QED
      BY <1>4, <2>3, <3>3
  <2> QED
    BY <2>1, <2>4, <2>5
<1>7. CASE Word!LockAdd(t)
  <2>1. /\ at[t] = "lock_add"
        /\ \/ /\ note = nv[t] /\ note' = nv[t] + 2 /\ at'[t] = "futexsleep"
              /\ nv' = [nv EXCEPT ![t] = nv[t] + 2]
           \/ note' = note /\ at'[t] = "lock_load" /\ nv' = [nv EXCEPT ![t] = 0]
    BY <1>0, <1>7 DEF Word!LockAdd, Word!Goto, NTypes
  <2>2. ~NoteCounts /\ nv[t] % 2 = 1 /\ nv[t] \in Nat /\ note \in Nat
    BY <1>0, <2>1 DEF NoteCounts, Waiting, NTypes
  <2>3. note' \in Nat /\ nv' \in [Threads -> Nat]
    BY <1>0, <2>1, <2>2 DEF NTypes
  <2>4. CASE note = nv[t] /\ note' = nv[t] + 2 /\ at'[t] = "futexsleep" /\ nv' = [nv EXCEPT ![t] = nv[t] + 2]
    <3>1. NoteCounts' /\ at'[t] \in LockLabels
      BY <2>4 DEF NoteCounts, LockLabels
    <3>2. note' = (IF NoteCounts' THEN 2 ELSE 0) + (IF Pending THEN 1 ELSE 0)
      BY <1>3, <2>2, <2>4, <3>1
    <3>3. nv'[t] % 2 = 1
      BY <1>0, <2>2, <2>4 DEF NTypes
    <3>4. Waiting'
      BY <1>1, <1>2, <2>4, <3>1, <3>2, <3>3, StillWaiting
    <3> QED
      BY <1>4, <2>3, <3>4
  <2>5. CASE note' = note /\ at'[t] = "lock_load"
    <3>1. ~NoteCounts' /\ at'[t] \in LockLabels
      BY <2>5 DEF NoteCounts, LockLabels
    <3>2. note' = (IF NoteCounts' THEN 2 ELSE 0) + (IF Pending THEN 1 ELSE 0)
      BY <1>3, <2>2, <2>5, <3>1
    <3>3. Waiting'
      BY <1>1, <1>2, <2>5, <3>1, <3>2, StillWaiting
    <3> QED
      BY <1>4, <2>3, <3>3
  <2> QED
    BY <2>1, <2>4, <2>5
<1>8. CASE Word!FutexSleep(t) \/ Word!DecLoad(t)
  <2>0. at[t] \in {"futexsleep", "dec_load"} /\ NoteCounts
    BY <1>8 DEF Word!FutexSleep, Word!DecLoad, NoteCounts
  <2>1. note >= 2
    BY <1>3, <2>0
  <2>2. /\ nv' \in [Threads -> Nat] /\ note' = note /\ note \in Nat
        /\ at'[t] \in {"asleep", "dec_load", "dec_cas"}
    BY <1>0, <1>8, <2>1 DEF Word!FutexSleep, Word!DecLoad, Word!Goto, NTypes
  <2>3. NoteCounts' /\ at'[t] \in LockLabels
    BY Zenon, <2>2 DEF NoteCounts, LockLabels
  <2>4. Waiting'
    BY <1>1, <1>2, <1>3, <2>0, <2>2, <2>3, StillWaiting
  <2> QED
    BY <1>4, <2>2, <2>4
<1>9. CASE Word!DecCas(t)
  <2>0. at[t] = "dec_cas" /\ NoteCounts
    BY <1>9 DEF Word!DecCas, NoteCounts
  <2>1. /\ nv' \in [Threads -> Nat]
        /\ \/ note' = note - 2 /\ at'[t] = "lock_load"
           \/ note' = note /\ at'[t] = "dec_load"
    BY <1>0, <1>9 DEF Word!DecCas, Word!Goto, NTypes
  <2>2. note \in {2, 3}
    BY <1>3, <2>0
  <2>3. (at'[t] = "lock_load" => ~NoteCounts') /\ (at'[t] = "dec_load" => NoteCounts')
    BY DEF NoteCounts
  <2>4. note' = (IF NoteCounts' THEN 2 ELSE 0) + (IF Pending THEN 1 ELSE 0)
    BY <1>3, <2>0, <2>1, <2>2, <2>3
  <2>5. at'[t] \in LockLabels
    BY Zenon, <2>1 DEF LockLabels
  <2>6. Waiting'
    BY <1>1, <1>2, <2>1, <2>4, <2>5, StillWaiting
  <2> QED
    BY <1>4, <2>1, <2>2, <2>6
<1> QED
  BY <1>5, <1>6, <1>7, <1>8, <1>9 DEF Word!futexlock

\* The second half of notesleep: nobody else is on the word.
LEMMA SleptNInv ==
    ASSUME NInv, Slept, NEW t \in Threads, t = Sleeper, Word!UnlockLoad(t) \/ Word!UnlockCas(t),
           UNCHANGED <<vars, waitnextg, nextg>>
    PROVE  NInv'
<1>0. NTypes
  BY Zenon DEF NInv
<1>1. /\ UNCHANGED <<pc, back, waitnextg, nextg>>
      /\ DOMAIN at' = Threads
      /\ (\A u \in Wakers : WakerAt(u)') /\ Signalled' = Signalled
  BY WordStepFrame
<1>same. pc' = pc /\ back' = back /\ nextg' = nextg /\ waitnextg' = waitnextg /\ Signalled' = Signalled
  BY Zenon, <1>1
<1>2. note = 1 /\ back[t] = "awake"
  BY DEF Slept, Word!UnlockLoad, Word!UnlockCas
<1>3. CASE Word!UnlockLoad(t)
  <2>1. note' = 1 /\ at'[t] = "unlock_cas" /\ nv' = [nv EXCEPT ![t] = 1]
    BY <1>0, <1>2, <1>3 DEF Word!UnlockLoad, Word!Goto, NTypes
  <2>2. NTypes' /\ nv'[t] = 1
    BY <1>0, <1>1, <2>1 DEF NTypes
  <2>3. /\ nextg' /\ ~waitnextg' /\ Signalled'
        /\ pc'[t] = "idle" /\ back'[t] = "awake"
    <3>1. nextg /\ ~waitnextg /\ Signalled /\ pc[t] = "idle"
      BY DEF Slept
    <3> QED
      BY SMTT(30), <1>same, <1>2, <3>1
  <2>4. Slept'
    BY <2>1, <2>2, <2>3 DEF Slept
  <2> QED
    BY <1>1, <2>2, <2>4 DEF NInv, SleeperAt
<1>4. CASE Word!UnlockCas(t)
  <2>0. nv[t] = 1
    BY <1>4 DEF Slept, Word!UnlockCas
  <2>1. note' = 0 /\ at'[t] = "awake" /\ nv' = [nv EXCEPT ![t] = 0]
    BY SMTT(30), <1>0, <1>2, <1>4, <2>0 DEF Word!UnlockCas, Word!Goto, NTypes
  <2>2. NTypes'
    BY <1>0, <1>1, <2>1 DEF NTypes
  <2>3. Woken'
    BY <1>same, <2>1 DEF Slept, Woken
  <2> QED
    BY ZenonT(60), <1>1, <2>2, <2>3 DEF NInv, SleeperAt
<1> QED
  BY <1>3, <1>4

LEMMA SleeperWordNInv ==
    ASSUME IInv, NInv, NEW t \in Threads, t = Sleeper, Word!futexlock(t) \/ Word!futexunlock(t),
           UNCHANGED <<vars, waitnextg, nextg>>
    PROVE  NInv'
<1>1. CASE Word!futexlock(t)
  <2>1. at[t] \in LockLabels
    BY <1>1 DEF Word!futexlock, Word!LockLoad, Word!LockCas, Word!LockAdd, Word!FutexSleep,
                Word!DecLoad, Word!DecCas, LockLabels
  <2>2. Clearing \/ Waiting
    BY <2>1 DEF NInv, SleeperAt, Away, Cleared, Slept, Woken, LockLabels
  <2> QED
    BY ZenonT(60), <1>1, <2>2, ClearingNInv, WaitingNInv
<1>2. CASE Word!futexunlock(t)
  <2>1. at[t] \in UnlockLabels
    BY Zenon, <1>2 DEF Word!futexunlock, Word!UnlockLoad, Word!UnlockCas, Word!FutexWakeup, UnlockLabels
  <2>2. Slept
    BY Zenon, <2>1 DEF NInv, SleeperAt, Away, Clearing, Cleared, Waiting, Woken, LockLabels, UnlockLabels
  <2>3. Word!UnlockLoad(t) \/ Word!UnlockCas(t)
    BY <1>2, <2>2 DEF Word!futexunlock, Word!FutexWakeup, Slept
  <2> QED
    BY Zenon, <2>2, <2>3, SleptNInv
<1> QED
  BY <1>1, <1>2

\* A waker is never inside futexlock of the note, nor past it.
LEMMA WakerStepNInv ==
    ASSUME IInv, IInv', NInv, NEW t \in Wakers, NoteStep(t)
    PROVE  NInv'
<1>0. t \in Threads /\ t # Sleeper /\ WakerAt(t)
  BY DEF Wakers, NInv
<1>1. at[t] \in {"run", "unlock", "unlock_load", "unlock_cas", "futexwakeup"}
  BY <1>0 DEF WakerAt, UnlockLabels
<1>2. CASE SchedUnlock(t) \/ OtherWork(t)
  BY <1>2, WakerUnlocksNInv
<1>3. CASE mnextg(t)
  BY <1>0, <1>3, MnextgNInv
<1>4. CASE Word!futexunlock(t) /\ UNCHANGED <<vars, waitnextg, nextg>>
  BY Zenon, <1>0, <1>4, SignalNInv, WokenNInv DEF Word!futexunlock
<1>5. ~(nextgandunlock(t) \/ Notesleep(t) \/ NotesleepUnlock(t) \/ TakeNextg(t))
  BY Zenon, <1>0, <1>1 DEF nextgandunlock, Notesleep, NotesleepUnlock, TakeNextg
<1>6. ~Word!futexlock(t)
  BY <1>1 DEF Word!futexlock, Word!LockLoad, Word!LockCas, Word!LockAdd, Word!FutexSleep,
              Word!DecLoad, Word!DecCas
<1> QED
  BY <1>2, <1>3, <1>4, <1>5, <1>6 DEF NoteStep

LEMMA SleeperStepNInv ==
    ASSUME IInv, IInv', NInv, NEW t \in Threads, t = Sleeper, NoteStep(t)
    PROVE  NInv'
<1>1. CASE nextgandunlock(t)
  BY <1>1, NextgNInv
<1>2. CASE SchedUnlock(t) \/ Notesleep(t) \/ NotesleepUnlock(t) \/ TakeNextg(t)
  BY <1>2, SleeperNInv
<1>3. CASE (Word!futexlock(t) \/ Word!futexunlock(t)) /\ UNCHANGED <<vars, waitnextg, nextg>>
  BY <1>3, SleeperWordNInv
<1>4. ~(mnextg(t) \/ OtherWork(t))
  BY DEF mnextg, OtherWork, Wakers
<1> QED
  BY <1>1, <1>2, <1>3, <1>4 DEF NoteStep

LEMMA NoteNextNInv == IInv /\ IInv' /\ NInv /\ [NoteNext]_allvars => NInv'
<1> SUFFICES ASSUME IInv, IInv', NInv, [NoteNext]_allvars PROVE NInv'
  BY ZenonT(60)
<1>1. CASE UNCHANGED allvars
  BY <1>1 DEF allvars, vars, notevars, NInv, NTypes, WakerAt, Signals, SleeperAt, Away,
              Clearing, Cleared, Waiting, Slept, Woken, Signalled, Pending, NoteCounts
<1>2. ASSUME NEW t \in Threads, NoteStep(t) PROVE NInv'
  BY <1>2, WakerStepNInv, SleeperStepNInv DEF Wakers
<1>3. ASSUME NEW t \in Threads,
             SchedLock(t) \/ ((Step(t) \/ (SpuriousWakeup(t) /\ UNCHANGED locks)) /\ UNCHANGED notevars)
      PROVE  NInv'
  BY <1>3, LockStepNInv DEF SchedLock
<1>4. ASSUME NEW t \in Threads, Word!SpuriousWakeup(t), UNCHANGED <<vars, waitnextg, nextg>>
      PROVE  NInv'
  BY <1>4, WokenNInv
<1> QED
  BY <1>1, <1>2, <1>3, <1>4 DEF NoteNext

-----------------------------------------------------------------------------
\* The hand-off keeps the invariant of the lock and the phases of the note.
THEOREM NoteInvariance == NoteSpec => [](IInv /\ NInv)
<1>1. NoteSpec => []IInv
  BY SchedLockUsed, Invariance
<1> QED
  BY <1>1, NoteInitInv, NoteNextNInv, PTL DEF NoteSpec

\* noteclear stores into the word of the note only while nobody uses it.
THEOREM NoteClearIsAlone == NoteSpec => []ClearIsAlone
<1>1. IInv /\ NInv => ClearIsAlone
  <2> SUFFICES ASSUME IInv, NInv, pc[Sleeper] = "cs", NEW t \in Wakers
               PROVE  at[t] \notin LockLabels \cup UnlockLabels
    BY DEF ClearIsAlone
  <2>1. at[t] = "run"
    BY SleeperAssumption, OneHolder DEF Wakers
  <2> QED
    BY <2>1 DEF LockLabels, UnlockLabels
<1> QED
  BY <1>1, NoteInvariance, PTL

\* The handoff reaches none of the throws: whoever wakes finds its goroutine,
\* and neither the lock nor the note is unlocked twice.
THEOREM HandoffNoThrow == NoteSpec => []NoteNoThrow
<1>1. IInv /\ NInv => NoteNoThrow
  <2> SUFFICES ASSUME IInv, NInv, NEW t \in Threads PROVE pc[t] # "throw" /\ at[t] # "throw"
    BY Zenon DEF NoteNoThrow
  <2>1. pc[t] # "throw"
    BY DEF IInv, NoThrow
  <2>2. ASSUME t \in Wakers PROVE at[t] # "throw"
    <3>1. WakerAt(t)
      BY <2>2 DEF NInv
    <3> QED
      BY <3>1 DEF WakerAt, UnlockLabels
  <2>3. at[Sleeper] # "throw"
    BY DEF NInv, SleeperAt, Away, Clearing, Cleared, Waiting, Slept, Woken, LockLabels
  <2> QED
    BY <2>1, <2>2, <2>3 DEF Wakers
<1> QED
  BY <1>1, NoteInvariance, PTL

\* The scheduler lock implements the abstract lock in the handoff.
THEOREM SchedLockImplements == NoteSpec => ImplementsLock
BY SchedLockUsed, LockImplements
=============================================================================
