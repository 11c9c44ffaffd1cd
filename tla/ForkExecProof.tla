--------------------------- MODULE ForkExecProof ----------------------------
(***************************************************************************)
(* Proofs about RWMutex for every finite set of goroutines, about          *)
(* ForkLock, which is one, and about what a command inherits.              *)
(*                                                                         *)
(* RWMutex: the inductive invariant says who has each of the two mutexes:  *)
(* at most one goroutine, a unit of its semaphore, or, for w, the readers  *)
(* together.                                                               *)
(***************************************************************************)
EXTENDS ForkFilesProof, FiniteSetTheorems

\* The labels of RLock, RUnlock, Lock and Unlock.
Labels == {"idle", "RLock_xadd", "RLock_unlock_r", "reading", "Lock_w", "Lock_unlock_r", "writing"}

Types ==
    /\ key \in [Mutexes -> Nat] /\ sema \in [Mutexes -> Nat]
    /\ pc \in [G -> Labels \cup MutexLabels]
    /\ mu \in [G -> Mutexes] /\ ret \in [G -> Labels]
    /\ readerCount \in Nat

\* Where a call to a mutex came from.
CallsMatch ==
    \A g \in G :
        /\ pc[g] \in {"xadd_lock", "semacquire"} =>
              \/ mu[g] = r /\ ret[g] \in {"RLock_xadd", "Lock_w"}
              \/ mu[g] = w /\ ret[g] \in {"RLock_unlock_r", "Lock_unlock_r"}
        /\ pc[g] \in {"xadd_unlock", "semrelease"} =>
              \/ mu[g] = r /\ ret[g] \in {"reading", "writing"}
              \/ mu[g] = w /\ ret[g] = "idle"

\* g has r, or is about to pass it on.
HasR(g) ==
    \/ pc[g] \in {"RLock_xadd", "RLock_unlock_r", "Lock_w", "Lock_unlock_r"}
    \/ pc[g] \in {"xadd_lock", "semacquire"} /\ mu[g] = w
    \/ pc[g] \in {"xadd_unlock", "semrelease"} /\ mu[g] = r

\* g has w for itself, or is about to pass it on.
HasW(g) ==
    \/ pc[g] \in {"Lock_unlock_r", "writing"}
    \/ pc[g] \in {"xadd_unlock", "semrelease"} /\ mu[g] = r /\ ret[g] = "writing"
    \/ pc[g] \in {"xadd_unlock", "semrelease"} /\ mu[g] = w

\* g is the first reader, and does not have w yet.
Acquires(g) == pc[g] \in {"xadd_lock", "semacquire"} /\ mu[g] = w /\ ret[g] = "RLock_unlock_r"

\* g is counted as a reader.
IsCounted(g) ==
    \/ pc[g] \in {"reading", "RLock_unlock_r"}
    \/ pc[g] \in MutexLabels /\ ret[g] \in {"reading", "RLock_unlock_r"}

\* The readers have w.
ReadersHaveW == (\E g \in G : IsCounted(g)) /\ (\A g \in G : ~Acquires(g))

\* At most one has r; while somebody has, or a unit of the semaphore is there for
\* somebody to take, key is not 0 and the next Lock waits.
RAlone ==
    /\ \A g, h \in G : HasR(g) /\ HasR(h) => g = h
    /\ \A g \in G : HasR(g) => sema[r] = 0 /\ key[r] > 0
    /\ sema[r] <= 1 /\ (sema[r] = 1 => key[r] > 0)

\* The same for w, with the readers as one more that may have it.
WAlone ==
    /\ \A g, h \in G : HasW(g) /\ HasW(h) => g = h
    /\ \A g \in G : HasW(g) => sema[w] = 0 /\ key[w] > 0 /\ ~ReadersHaveW
    /\ sema[w] <= 1 /\ (sema[w] = 1 => key[w] > 0)
    /\ ReadersHaveW => sema[w] = 0 /\ key[w] > 0

\* The reader that locks w is the only one counted.
FirstIsOnly == \A g, h \in G : Acquires(g) /\ IsCounted(h) => g = h

CountExact == readerCount = Cardinality(Counted)

IInv == Types /\ CallsMatch /\ RAlone /\ WAlone /\ FirstIsOnly /\ CountExact

-----------------------------------------------------------------------------
LEMMA CountedFinite == IsFiniteSet(Counted) /\ Cardinality(Counted) \in Nat
BY RWAssumption, FS_Subset, FS_CardinalityType DEF Counted

LEMMA CountedIs == \A g \in G : g \in Counted <=> IsCounted(g)
BY DEF Counted, IsCounted

LEMMA InitIInv == Init => IInv
<1> SUFFICES ASSUME Init PROVE IInv
  OBVIOUS
<1>1. Counted = {}
  BY DEF Init, Counted, MutexLabels
<1>2. CountExact
  BY <1>1, FS_EmptySet DEF CountExact, Init
<1>3. Types
  BY RWAssumption DEF Init, MutexInit, Types, Labels, MutexLabels
<1>4. \A g \in G : ~HasR(g) /\ ~HasW(g) /\ ~Acquires(g) /\ ~IsCounted(g)
  BY Zenon DEF Init, HasR, HasW, Acquires, IsCounted, MutexLabels
<1>5. RAlone /\ WAlone
  BY <1>4, RWAssumption DEF RAlone, WAlone, ReadersHaveW, Init, MutexInit
<1>6. CallsMatch /\ FirstIsOnly
  BY <1>4 DEF CallsMatch, FirstIsOnly, Init
<1> QED
  BY <1>2, <1>3, <1>5, <1>6 DEF IInv

\* What the other goroutines are is not changed by a step of g.
Others(g) ==
    \A h \in G \ {g} : /\ HasR(h)' <=> HasR(h)
                       /\ HasW(h)' <=> HasW(h)
                       /\ Acquires(h)' <=> Acquires(h)
                       /\ IsCounted(h)' <=> IsCounted(h)

LEMMA OthersStay ==
    ASSUME Types, NEW g \in G, NEW l, NEW m, NEW b,
           pc' = [pc EXCEPT ![g] = l],
           \/ mu' = [mu EXCEPT ![g] = m] /\ ret' = [ret EXCEPT ![g] = b]
           \/ UNCHANGED <<mu, ret>>
    PROVE  Others(g)
BY DEF Types, Others, HasR, HasW, Acquires, IsCounted

\* The steps inside RLock, RUnlock, Lock and Unlock that call a mutex: nobody
\* gets or loses anything.
LEMMA CallIInv ==
    ASSUME IInv, NEW g \in G,
           RLock(g) \/ WLock(g) \/ RLockUnlockR(g) \/ WLockW(g) \/ WLockUnlockR(g) \/ WUnlock(g),
           UNCHANGED <<key, sema, readerCount>>
    PROVE  IInv'
<1> USE RWAssumption DEF RLock, WLock, RLockUnlockR, WLockW, WLockUnlockR, WUnlock, Lock, Unlock, Call, Goto, IInv
<1>1. Types'
  BY DEF Types, Labels, MutexLabels
<1>2. CallsMatch'
  BY DEF CallsMatch, Types
<1>3. Others(g)
  BY OthersStay
<1>4. /\ HasR(g)' <=> HasR(g)
      /\ HasW(g)' <=> HasW(g)
      /\ Acquires(g)' <=> Acquires(g)
      /\ IsCounted(g)' <=> IsCounted(g)
  BY DEF Types, HasR, HasW, Acquires, IsCounted, MutexLabels
<1>5. RAlone' /\ WAlone' /\ FirstIsOnly'
  BY <1>3, <1>4 DEF Others, RAlone, WAlone, FirstIsOnly, ReadersHaveW
<1>6. Counted' = Counted
  BY <1>3, <1>4 DEF Others, Counted, IsCounted
<1>7. CountExact'
  BY <1>6 DEF CountExact
<1> QED
  BY SMTT(30), <1>1, <1>2, <1>5, <1>7

\* RLock counts a reader; the first one goes on to lock w.
LEMMA RLockXaddIInv ==
    ASSUME IInv, NEW g \in G, RLockXadd(g), UNCHANGED <<key, sema>>
    PROVE  IInv'
<1> USE RWAssumption DEF RLockXadd, Lock, Call, Goto, IInv
<1>1. Types'
  BY DEF Types, Labels, MutexLabels
<1>2. CallsMatch'
  BY DEF CallsMatch, Types
<1>3. Others(g)
  BY OthersStay
<1>4. /\ HasR(g) /\ HasR(g)' /\ ~HasW(g) /\ ~HasW(g)'
      /\ ~IsCounted(g) /\ IsCounted(g)' /\ ~Acquires(g)
      /\ Acquires(g)' <=> readerCount = 0
  BY DEF Types, HasR, HasW, Acquires, IsCounted, MutexLabels
<1>5. g \notin Counted /\ Counted' = Counted \cup {g}
  BY <1>3, <1>4 DEF Others, Counted, IsCounted
<1>6. CountExact'
  BY <1>5, CountedFinite, FS_AddElement, Zenon DEF CountExact
<1>7. \A h \in G : ~Acquires(h)
  BY <1>4 DEF RAlone, Acquires, HasR, CallsMatch
<1>8. (\E h \in G : IsCounted(h)) <=> readerCount # 0
  <2>1. readerCount = 0 <=> Counted = {}
    BY CountedFinite, FS_EmptySet DEF CountExact
  <2> QED
    BY <2>1, CountedIs DEF Counted
<1>9. ReadersHaveW' <=> ReadersHaveW
  BY SMTT(30), <1>3, <1>4, <1>7, <1>8 DEF Others, ReadersHaveW
<1>10. RAlone' /\ WAlone'
  BY SMTT(30), <1>3, <1>4, <1>9 DEF Others, RAlone, WAlone
<1>11. FirstIsOnly'
  BY SMTT(30), <1>3, <1>4, <1>7, <1>8 DEF Others, FirstIsOnly
<1> QED
  BY SMTT(30), <1>1, <1>2, <1>6, <1>10, <1>11

\* RUnlock; the last reader takes w over from the readers to unlock it.
LEMMA RUnlockIInv ==
    ASSUME IInv, NEW g \in G, RUnlock(g), UNCHANGED <<key, sema>>
    PROVE  IInv'
<1> USE RWAssumption DEF RUnlock, Unlock, Call, Goto, IInv
<1>1. /\ ~HasR(g) /\ ~HasR(g)' /\ ~HasW(g)
      /\ IsCounted(g) /\ ~IsCounted(g)' /\ ~Acquires(g) /\ ~Acquires(g)'
      /\ HasW(g)' <=> readerCount = 1
  BY DEF Types, HasR, HasW, Acquires, IsCounted, MutexLabels
<1>2. Others(g)
  BY OthersStay
<1>3. g \in Counted /\ Counted' = Counted \ {g}
  BY <1>1, <1>2 DEF Others, Counted, IsCounted
<1>4. IsFiniteSet(Counted') /\ Cardinality(Counted') \in Nat
  BY <1>3, CountedFinite, FS_Subset, FS_CardinalityType
<1>5. CountExact'
  BY <1>3, CountedFinite, FS_RemoveElement, Zenon DEF CountExact
<1>6. readerCount' \in Nat
  BY <1>4, <1>5 DEF CountExact
<1>7. Types'
  BY <1>6 DEF Types, Labels, MutexLabels
<1>8. CallsMatch'
  BY DEF CallsMatch, Types
<1>9. \A h \in G : ~Acquires(h) /\ ~Acquires(h)'
  BY <1>1, <1>2 DEF FirstIsOnly, Others
<1>10. (\E h \in G : IsCounted(h)') <=> readerCount # 1
  <2>1. Counted' = {} <=> readerCount' = 0
    BY <1>4, <1>5, FS_EmptySet DEF CountExact
  <2>2. readerCount' = 0 <=> readerCount = 1
    BY DEF Types
  <2>3. (\E h \in G : IsCounted(h)') <=> Counted' # {}
    BY DEF Counted, IsCounted
  <2> QED
    BY <2>1, <2>2, <2>3
<1>11. ReadersHaveW /\ (ReadersHaveW' <=> readerCount # 1)
  BY SMTT(30), <1>1, <1>9, <1>10 DEF ReadersHaveW
<1>12. RAlone' /\ WAlone' /\ FirstIsOnly'
  BY SMTT(30), <1>1, <1>2, <1>9, <1>11 DEF Others, RAlone, WAlone, FirstIsOnly
<1> QED
  BY SMTT(30), <1>5, <1>7, <1>8, <1>12

\* Lock of one of the mutexes, r or w: the one that finds key = 0 has it, for
\* itself or, the first reader, for the readers.
LEMMA XaddLockIInv ==
    ASSUME IInv, NEW g \in G, XaddLock(g), UNCHANGED readerCount
    PROVE  IInv'
<1> USE RWAssumption DEF XaddLock, Goto, IInv
<1>1. Types'
  BY DEF Types, Labels, MutexLabels
<1>2. CallsMatch'
  BY DEF CallsMatch, Types
<1>3. Others(g)
  BY OthersStay, Zenon
<1>4. IsCounted(g)' <=> IsCounted(g)
  BY DEF Types, CallsMatch, IsCounted, MutexLabels
<1>5. Counted' = Counted
  BY <1>3, <1>4 DEF Others, Counted, IsCounted
<1>6. CountExact'
  BY <1>5 DEF CountExact
<1>7. CASE mu[g] = r
  <2>1. /\ ~HasR(g) /\ (HasR(g)' <=> key[r] = 0)
        /\ ~HasW(g) /\ ~HasW(g)' /\ ~Acquires(g) /\ ~Acquires(g)'
    BY <1>7 DEF Types, CallsMatch, HasR, HasW, Acquires
  <2>2. key'[r] = key[r] + 1 /\ key'[w] = key[w] /\ sema' = sema
    BY <1>7 DEF Types
  <2>3. RAlone'
    BY SMTT(30), <1>3, <2>1, <2>2 DEF Types, Others, RAlone
  <2>4. WAlone' /\ FirstIsOnly'
    BY SMTT(30), <1>3, <1>4, <2>1, <2>2 DEF Others, WAlone, FirstIsOnly, ReadersHaveW
  <2> QED
    BY SMTT(30), <1>1, <1>2, <1>6, <2>3, <2>4
<1>8. CASE mu[g] = w
  <2>1. /\ HasR(g) /\ HasR(g)' /\ ~HasW(g)
        /\ HasW(g)' <=> key[w] = 0 /\ ret[g] = "Lock_unlock_r"
        /\ Acquires(g) <=> ret[g] = "RLock_unlock_r"
        /\ Acquires(g)' <=> key[w] # 0 /\ ret[g] = "RLock_unlock_r"
        /\ ret[g] \in {"RLock_unlock_r", "Lock_unlock_r"}
    BY <1>8 DEF Types, CallsMatch, HasR, HasW, Acquires
  <2>2. key'[w] = key[w] + 1 /\ key'[r] = key[r] /\ sema' = sema
    BY <1>8 DEF Types
  <2>3. RAlone'
    BY SMTT(30), <1>3, <2>1, <2>2 DEF Types, Others, RAlone
  <2>4. FirstIsOnly'
    BY SMTT(30), <1>3, <1>4, <2>1 DEF Others, FirstIsOnly
  <2>5. key[w] # 0 \/ ret[g] = "Lock_unlock_r" => (ReadersHaveW' <=> ReadersHaveW)
    BY <1>3, <1>4, <2>1 DEF Others, ReadersHaveW
  <2>6. key[w] = 0 => ~ReadersHaveW /\ sema[w] = 0 /\ \A h \in G : ~HasW(h)
    BY DEF Types, WAlone
  <2>7. WAlone'
    BY SMTT(30), <1>3, <2>1, <2>2, <2>5, <2>6 DEF Types, Others, WAlone
  <2> QED
    BY SMTT(30), <1>1, <1>2, <1>6, <2>3, <2>4, <2>7
<1> QED
  BY <1>7, <1>8 DEF Types

\* A Lock that slept takes the unit of the semaphore.
LEMMA SemacquireIInv ==
    ASSUME IInv, NEW g \in G, Semacquire(g), UNCHANGED readerCount
    PROVE  IInv'
<1> USE RWAssumption DEF Semacquire, Goto, IInv
<1>1. Types'
  BY DEF Types, Labels, MutexLabels
<1>2. CallsMatch'
  BY DEF CallsMatch, Types
<1>3. Others(g)
  BY OthersStay, Zenon
<1>4. IsCounted(g)' <=> IsCounted(g)
  BY DEF Types, CallsMatch, IsCounted, MutexLabels
<1>5. Counted' = Counted
  BY <1>3, <1>4 DEF Others, Counted, IsCounted
<1>6. CountExact'
  BY <1>5 DEF CountExact
<1>7. CASE mu[g] = r
  <2>1. /\ ~HasR(g) /\ HasR(g)'
        /\ ~HasW(g) /\ ~HasW(g)' /\ ~Acquires(g) /\ ~Acquires(g)'
    BY <1>7 DEF Types, CallsMatch, HasR, HasW, Acquires
  <2>2. sema[r] = 1 /\ sema'[r] = 0 /\ sema'[w] = sema[w] /\ key' = key
    BY <1>7 DEF Types, RAlone
  <2>3. RAlone'
    BY SMTT(30), <1>3, <2>1, <2>2 DEF Types, Others, RAlone
  <2>4. WAlone' /\ FirstIsOnly'
    BY SMTT(30), <1>3, <1>4, <2>1, <2>2 DEF Others, WAlone, FirstIsOnly, ReadersHaveW
  <2> QED
    BY SMTT(30), <1>1, <1>2, <1>6, <2>3, <2>4
<1>8. CASE mu[g] = w
  <2>1. /\ HasR(g) /\ HasR(g)' /\ ~HasW(g) /\ ~Acquires(g)'
        /\ HasW(g)' <=> ret[g] = "Lock_unlock_r"
        /\ Acquires(g) <=> ret[g] # "Lock_unlock_r"
    BY <1>8 DEF Types, CallsMatch, HasR, HasW, Acquires
  <2>2. sema[w] = 1 /\ sema'[w] = 0 /\ sema'[r] = sema[r] /\ key' = key
    BY <1>8 DEF Types, WAlone
  <2>3. RAlone'
    BY SMTT(30), <1>3, <2>1, <2>2 DEF Types, Others, RAlone
  <2>4. FirstIsOnly'
    BY SMTT(30), <1>3, <1>4, <2>1 DEF Others, FirstIsOnly
  <2>5. ret[g] = "Lock_unlock_r" => (ReadersHaveW' <=> ReadersHaveW)
    BY <1>3, <1>4, <2>1 DEF Others, ReadersHaveW
  <2>6. key[w] > 0 /\ ~ReadersHaveW /\ \A h \in G : ~HasW(h)
    BY <2>2 DEF Types, WAlone
  <2>7. WAlone'
    BY SMTT(30), <1>3, <2>1, <2>2, <2>5, <2>6 DEF Types, Others, WAlone
  <2> QED
    BY SMTT(30), <1>1, <1>2, <1>6, <2>3, <2>4, <2>7
<1> QED
  BY SMTT(30), <1>7, <1>8 DEF Types

\* Unlock of one of the mutexes: it is free, or to be passed on.
LEMMA XaddUnlockIInv ==
    ASSUME IInv, NEW g \in G, XaddUnlock(g), UNCHANGED readerCount
    PROVE  IInv'
<1> USE RWAssumption DEF XaddUnlock, Goto, IInv
<1>1. /\ mu[g] = r => HasR(g)
      /\ mu[g] = w => HasW(g) /\ ~HasR(g) /\ ~HasR(g)'
      /\ ~Acquires(g) /\ ~Acquires(g)'
      /\ IsCounted(g)' <=> IsCounted(g)
  BY DEF Types, CallsMatch, HasR, HasW, Acquires, IsCounted, MutexLabels
<1>2. Types'
  BY <1>1 DEF Types, Labels, MutexLabels, RAlone, WAlone
<1>3. CallsMatch'
  BY DEF CallsMatch, Types
<1>4. Others(g)
  BY OthersStay, Zenon
<1>5. Counted' = Counted
  BY ZenonT(60), <1>1, <1>4 DEF Others, Counted, IsCounted
<1>6. CountExact' /\ FirstIsOnly' /\ (ReadersHaveW' <=> ReadersHaveW)
  BY <1>1, <1>4, <1>5 DEF Others, CountExact, FirstIsOnly, ReadersHaveW
<1>7. CASE mu[g] = r
  <2>1. (HasR(g)' <=> key[r] # 1) /\ (HasW(g)' <=> HasW(g))
    BY <1>7 DEF Types, CallsMatch, HasR, HasW
  <2>2. key'[r] = key[r] - 1 /\ key'[w] = key[w] /\ sema' = sema
    BY <1>7 DEF Types
  <2>3. RAlone' /\ WAlone'
    BY SMTT(30), <1>1, <1>4, <1>6, <1>7, <2>1, <2>2 DEF Types, Others, RAlone, WAlone
  <2> QED
    BY SMTT(30), <1>2, <1>3, <1>6, <2>3
<1>8. CASE mu[g] = w
  <2>1. HasW(g)' <=> key[w] # 1
    BY <1>8 DEF Types, CallsMatch, HasW
  <2>2. key'[w] = key[w] - 1 /\ key'[r] = key[r] /\ sema' = sema
    BY <1>8 DEF Types
  <2>3. RAlone' /\ WAlone'
    BY SMTT(30), <1>1, <1>4, <1>6, <1>8, <2>1, <2>2 DEF Types, Others, RAlone, WAlone
  <2> QED
    BY <1>2, <1>3, <1>6, <2>3
<1> QED
  BY SMTT(30), <1>7, <1>8 DEF Types

\* The mutex is passed on: from now on the semaphore has it.
LEMMA SemreleaseIInv ==
    ASSUME IInv, NEW g \in G, Semrelease(g), UNCHANGED readerCount
    PROVE  IInv'
<1> USE RWAssumption DEF Semrelease, Goto, IInv
<1>1. /\ mu[g] = r => HasR(g)
      /\ mu[g] = w => HasW(g) /\ ~HasR(g) /\ ~HasR(g)'
      /\ ~Acquires(g) /\ ~Acquires(g)'
      /\ IsCounted(g)' <=> IsCounted(g)
  BY DEF Types, CallsMatch, HasR, HasW, Acquires, IsCounted, MutexLabels
<1>2. Types'
  BY <1>1 DEF Types, Labels, MutexLabels, RAlone, WAlone
<1>3. CallsMatch'
  BY DEF CallsMatch, Types
<1>4. Others(g)
  BY OthersStay, Zenon
<1>5. Counted' = Counted
  BY SMTT(30), <1>1, <1>4 DEF Others, Counted, IsCounted
<1>6. CountExact' /\ FirstIsOnly' /\ (ReadersHaveW' <=> ReadersHaveW)
  BY <1>1, <1>4, <1>5 DEF Others, CountExact, FirstIsOnly, ReadersHaveW
<1>7. CASE mu[g] = r
  <2>1. ~HasR(g)' /\ (HasW(g)' <=> HasW(g))
    BY <1>7 DEF Types, CallsMatch, HasR, HasW
  <2>2. sema'[r] = sema[r] + 1 /\ sema'[w] = sema[w] /\ key' = key
    BY <1>7 DEF Types
  <2>3. RAlone' /\ WAlone'
    BY SMTT(30), <1>1, <1>4, <1>6, <1>7, <2>1, <2>2 DEF Types, Others, RAlone, WAlone
  <2> QED
    BY SMTT(30), <1>2, <1>3, <1>6, <2>3
<1>8. CASE mu[g] = w
  <2>1. ~HasW(g)'
    BY <1>8 DEF Types, CallsMatch, HasW
  <2>2. sema'[w] = sema[w] + 1 /\ sema'[r] = sema[r] /\ key' = key
    BY <1>8 DEF Types
  <2>3. RAlone' /\ WAlone'
    BY SMTT(30), <1>1, <1>4, <1>6, <1>8, <2>1, <2>2 DEF Types, Others, RAlone, WAlone
  <2> QED
    BY <1>2, <1>3, <1>6, <2>3
<1> QED
  BY SMTT(30), <1>7, <1>8 DEF Types

\* Who has r and w is as IInv says in every state of sync.RWMutex.
THEOREM RWInvariance == Spec => []IInv
<1>1. IInv /\ [Next]_vars => IInv'
  <2> SUFFICES ASSUME IInv, [Next]_vars PROVE IInv'
    OBVIOUS
  <2>1. CASE UNCHANGED vars
    <3>1. Types' /\ CallsMatch'
      BY <2>1 DEF vars, IInv, Types, CallsMatch
    <3>2. RAlone'
      BY <2>1 DEF vars, IInv, RAlone, HasR
    <3>3. WAlone' /\ FirstIsOnly'
      BY <2>1 DEF vars, IInv, WAlone, FirstIsOnly, HasW, Acquires, IsCounted, ReadersHaveW
    <3>4. CountExact'
      BY <2>1 DEF vars, IInv, CountExact, Counted, IsCounted
    <3> QED
      BY SMTT(30), <3>1, <3>2, <3>3, <3>4 DEF IInv
  <2>2. ASSUME NEW g \in G, Calls(g) PROVE IInv'
    BY <2>2, CallIInv DEF Calls
  <2>3. ASSUME NEW g \in G, Steps(g) PROVE IInv'
    BY SMTT(30), <2>3, CallIInv, RLockXaddIInv, RUnlockIInv, XaddLockIInv, XaddUnlockIInv, SemreleaseIInv DEF Steps
  <2>4. ASSUME NEW g \in G, Wakes(g) PROVE IInv'
    BY <2>4, SemacquireIInv DEF Wakes
  <2> QED
    BY <2>1, <2>2, <2>3, <2>4 DEF Next
<1> QED
  BY InitIInv, <1>1, PTL DEF Spec

\* Any number of goroutines that call RLock and Lock never read while one
\* writes, and never write together.
THEOREM RWExclusion == Spec => []ReadersOrWriter
<1>1. IInv => ReadersOrWriter
  <2> SUFFICES ASSUME IInv PROVE ReadersOrWriter
    OBVIOUS
  <2>1. \A g \in Writers : HasW(g) /\ ~Acquires(g)
    BY DEF Writers, HasW, Acquires
  <2>2. \A g \in Readers : IsCounted(g) /\ ~Acquires(g)
    BY DEF Readers, IsCounted, Acquires
  <2>3. \A g, h \in Writers : g = h
    BY <2>1 DEF IInv, WAlone, Writers
  <2>4. Cardinality(Writers) <= 1
    <3>1. CASE Writers = {}
      BY <3>1, FS_EmptySet
    <3>2. ASSUME NEW g \in Writers PROVE Cardinality(Writers) <= 1
      <4>1. Writers = {g}
        BY <2>3, <3>2
      <4> QED
        BY <4>1, FS_Singleton
    <3> QED
      BY <3>1, <3>2
  <2>5. Readers # {} => ReadersHaveW
    BY SMTT(30), <2>2 DEF IInv, FirstIsOnly, ReadersHaveW, Readers
  <2> QED
    BY <2>1, <2>4, <2>5 DEF IInv, WAlone, ReadersOrWriter, Writers
<1> QED
  BY RWInvariance, <1>1, PTL

\* readerCount is the number of readers that RLock has counted and RUnlock has
\* not, and w stays locked as long as one of them reads.
THEOREM RWCount == Spec => []WHeldForReaders
<1>1. IInv => WHeldForReaders
  <2> SUFFICES ASSUME IInv PROVE WHeldForReaders
    OBVIOUS
  <2>1. \A g \in Readers : IsCounted(g) /\ ~Acquires(g)
    BY DEF Readers, IsCounted, Acquires
  <2>2. Readers # {} => ReadersHaveW
    BY <2>1 DEF IInv, FirstIsOnly, ReadersHaveW, Readers
  <2> QED
    BY <2>2 DEF IInv, WAlone, CountExact, WHeldForReaders
<1> QED
  BY RWInvariance, <1>1, PTL

-----------------------------------------------------------------------------
(***************************************************************************)
(* ForkLock does what it is for, for every number of goroutines, of        *)
(* descriptors and every list: no child is forked while a descriptor that  *)
(* is not meant for it is unmarked.  The goroutines use ForkLock as RWMutex *)
(* expects, so the theorems above hold here; and a descriptor that is not  *)
(* marked yet belongs to a goroutine that holds ForkLock.                  *)
(***************************************************************************)

FTypes == DOMAIN at = G /\ DOMAIN p = G /\ DOMAIN child = G /\ DOMAIN tab = Fds

\* g is between creating the descriptor n and marking it, or has failed there.
Makes(g, n) ==
    /\ \/ pc[g] = "reading" /\ at[g] = "mark"
       \/ pc[g] = "writing" /\ at[g] \in {"fcntl", "failed"}
    /\ n \in Range(p[g])

Unmarked(n) == tab[n] # NoFile /\ tab[n][1] # "std" /\ n \notin clo

UnmarkedHeld == \A n \in Fds : Unmarked(n) => \E g \in G : Makes(g, n)

FInv == FTypes /\ UnmarkedHeld

-----------------------------------------------------------------------------
\* Steps outside ForkLock leave it alone, the others are steps of RWMutex.
LEMMA UsesLock == FNext => [Next]_vars
<1> SUFFICES ASSUME NEW g \in G, Calling(g) \/ Working(g) \/ ChildStep(g) \/ Exit(g)
             PROVE  [Next]_vars
  BY DEF FNext
<1>1. ASSUME Locking(g) \/ ReadUnlock(g) \/ WriteUnlock(g) PROVE Next
  BY <1>1 DEF Locking, ReadUnlock, WriteUnlock, Next
<1>2. ASSUME ReadLock(g) \/ WriteLock(g) PROVE Next
  BY <1>2 DEF ReadLock, WriteLock, Next, Calls
<1>3. ASSUME Calling(g) \/ ChildStep(g) \/ Exit(g) PROVE UNCHANGED vars
  BY <1>3, Zenon DEF Calling, Run, OsForkExec, Socket, ChildStep, Exec, ChildError, Exit
<1>4. ASSUME Create(g) \/ MarkCloseOnExec(g) \/ CloseSocket(g) \/ modeToFiles(g) \/ Piped(g)
             \/ StatusPipe(g) \/ MarkStatusPipe(g) \/ Fork(g) \/ ForkFails(g)
             \/ CloseStatusPipe(g) \/ CloseWriteEnd(g) \/ ReadStatus(g) \/ Wait4(g)
             \/ Started(g) \/ Error(g) \/ CmdClose(g)
      PROVE  UNCHANGED vars
  BY Zenon, <1>4 DEF Create, MarkCloseOnExec, CloseSocket, modeToFiles, Piped, StatusPipe,
              MarkStatusPipe, Fork, ForkFails, CloseStatusPipe, CloseWriteEnd, ReadStatus,
              Wait4, Started, Error, CmdClose
<1> QED
  BY <1>1, <1>2, <1>3, <1>4 DEF Working

\* The program uses ForkLock by the rules of RWMutex.
THEOREM ForkLockUsed == FSpec => Spec
<1>1. FInit => Init
  BY DEF FInit
<1>2. [FNext]_fvars => [Next]_vars
  BY UsesLock DEF fvars
<1> QED
  BY <1>1, <1>2, PTL DEF FSpec, Spec

-----------------------------------------------------------------------------
LEMMA FInitInv == FInit => FInv
<1> SUFFICES ASSUME FInit PROVE FInv
  OBVIOUS
<1>1. FTypes
  BY DEF FInit, FTypes
<1>2. ASSUME NEW n \in Fds PROVE tab[n] = NoFile \/ tab[n][1] = "std"
  <2>1. tab[n] = Std(n) \/ tab[n] = NoFile
    BY DEF FInit
  <2>2. Std(n)[1] = "std"
    BY DEF Std
  <2> QED
    BY <2>1, <2>2
<1> QED
  BY <1>1, <1>2 DEF FInv, UnmarkedHeld, Unmarked

\* A step of g, which has nothing unmarked in hand, that leaves the other
\* goroutines where they are and unmarks or creates nothing.
LEMMA NothingNew ==
    ASSUME UnmarkedHeld, NEW g \in G,
           \A n \in Fds : ~Makes(g, n),
           \A x \in G : x # g => pc'[x] = pc[x] /\ at'[x] = at[x] /\ p'[x] = p[x],
           \A n \in Fds : Unmarked(n)' => Unmarked(n)
    PROVE  UnmarkedHeld'
BY DEF UnmarkedHeld, Makes

\* Closing descriptors leaves the marks of the others.
LEMMA CloseUnmarks ==
    ASSUME NEW S, CloseFds(S)
    PROVE  /\ DOMAIN tab' = Fds
           /\ \A n \in Fds : Unmarked(n)' => Unmarked(n) /\ n \notin S
BY DEF CloseFds, Unmarked

\* The steps of ForkLock itself.
LEMMA LockFInv ==
    ASSUME Types, FInv, NEW g \in G,
           Locking(g) \/ ReadLock(g) \/ ReadUnlock(g) \/ WriteLock(g) \/ WriteUnlock(g)
    PROVE  FInv'
<1> USE DEF FInv, FTypes
<1>0. DOMAIN pc = G
  BY DEF Types
<1>1. \A x \in G : x # g => pc'[x] = pc[x]
  BY Zenon, <1>0, LockMovesOne DEF Locking, ReadLock, ReadUnlock, WriteLock, WriteUnlock
<1>2. /\ DOMAIN at' = G /\ p' = p /\ child' = child /\ tab' = tab /\ clo' = clo
      /\ \A x \in G : x # g => at'[x] = at[x]
  BY Zenon DEF Locking, ReadLock, ReadUnlock, WriteLock, WriteUnlock, Step, client, kernel
<1>3. \A n \in Fds : ~Makes(g, n)
  BY DEF Locking, ReadLock, ReadUnlock, WriteLock, WriteUnlock, Step, Makes, RLock, WLock
<1>4. \A n \in Fds : Unmarked(n)' => Unmarked(n)
  BY Zenon, <1>2 DEF Unmarked
<1> QED
  BY Zenon, <1>1, <1>2, <1>3, <1>4, NothingNew

\* Calls, and the steps of a goroutine or a child that touch no descriptor of
\* the program.
LEMMA QuietFInv ==
    ASSUME FInv, NEW g \in G,
           \/ Calling(g) \/ ChildStep(g) \/ Exit(g)
           \/ Piped(g) \/ Fork(g) \/ ForkFails(g) \/ Wait4(g)
    PROVE  FInv'
<1> USE DEF FInv, FTypes
<1>1. /\ DOMAIN at' = G /\ DOMAIN p' = G /\ DOMAIN child' = G
      /\ pc' = pc /\ tab' = tab /\ clo' = clo
      /\ \A x \in G : x # g => at'[x] = at[x] /\ p'[x] = p[x]
  <2>1. ASSUME Calling(g) PROVE <1>1!:
    BY <2>1, Zenon DEF Calling, Run, OsForkExec, Socket, Step, kernel, vars
  <2>2. ASSUME ChildStep(g) \/ Exit(g) PROVE <1>1!:
    BY <2>2, Zenon DEF ChildStep, Exec, ChildError, Exit, client, vars
  <2>3. ASSUME Piped(g) PROVE <1>1!:
    BY <2>3, Zenon DEF Piped, Chosen, kernel, vars
  <2>4. ASSUME Fork(g) \/ ForkFails(g) \/ Wait4(g) PROVE <1>1!:
    BY Zenon, <2>4 DEF Fork, ForkFails, Wait4, Step, kernel, vars
  <2> QED
    BY <2>1, <2>2, <2>3, <2>4
<1>2. \A n \in Fds : Unmarked(n)' <=> Unmarked(n)
  BY <1>1 DEF Unmarked
<1>3. CASE ChildStep(g) \/ Exit(g)
  <2>1. at' = at /\ p' = p
    BY <1>3, Zenon DEF ChildStep, Exec, ChildError, Exit, client
  <2> QED
    BY <1>1, <1>2, <2>1, Zenon DEF UnmarkedHeld, Makes
<1>4. CASE Calling(g) \/ Piped(g) \/ Fork(g) \/ ForkFails(g) \/ Wait4(g)
  <2>1. \A n \in Fds : ~Makes(g, n)
    BY <1>4, Zenon DEF Calling, Run, OsForkExec, Socket, Piped, Fork, ForkFails, Wait4, Step, Makes
  <2> QED
    BY <1>1, <1>2, <2>1, NothingNew, Zenon
<1> QED
  BY Zenon, <1>3, <1>4

\* Descriptors that are created are in the hand of the goroutine that made
\* them.
LEMMA MadeFInv ==
    ASSUME FInv, NEW g \in G, Create(g) \/ StatusPipe(g)
    PROVE  FInv'
<1> USE DEF FInv, FTypes
<1>1. \A n \in Fds : ~Makes(g, n)
  BY DEF Create, StatusPipe, Step, Makes
<1>2. /\ DOMAIN at' = G /\ pc' = pc /\ child' = child /\ clo' = clo
      /\ \A x \in G : x # g => at'[x] = at[x]
  BY Zenon DEF Create, StatusPipe, Step, vars
<1>3. CASE UNCHANGED <<p, tab>>
  <2>1. \A n \in Fds : Unmarked(n)' => Unmarked(n)
    BY SMTT(30), <1>2, <1>3 DEF Unmarked
  <2> QED
    BY ZenonT(60), <1>1, <1>2, <1>3, <2>1, NothingNew
<1>4. ASSUME NEW d, NEW i, NEW a, NEW b, Made(g, i, d), d = <<a>> \/ d = <<a, b>>,
             \/ pc[g] = "reading" /\ at'[g] = "mark"
             \/ pc[g] = "writing" /\ at'[g] = "fcntl"
      PROVE  FInv'
  <2>1. DOMAIN p' = G /\ p'[g] = d /\ (\A x \in G : x # g => p'[x] = p[x]) /\ DOMAIN tab' = Fds
    BY Zenon, <1>4 DEF Made
  <2>2. ASSUME NEW n \in Fds, Unmarked(n)', ~Unmarked(n) PROVE n \in Range(d)
    <3>1. tab'[n] # tab[n]
      BY SMTT(30), <1>2, <2>2 DEF Unmarked
    <3>2. CASE d = <<a>>
      BY SMTT(30), <1>4, <3>1, <3>2 DEF Made, Range
    <3>3. CASE d = <<a, b>>
      BY SMTT(30), <1>4, <3>1, <3>3 DEF Made, Range
    <3> QED
      BY SMTT(30), <1>4, <3>2, <3>3
  <2>3. ASSUME NEW n \in Fds, Unmarked(n)' PROVE \E x \in G : Makes(x, n)'
    <3>1. CASE Unmarked(n)
      <4>1. PICK x \in G : Makes(x, n)
        BY <3>1 DEF UnmarkedHeld
      <4>2. x # g
        BY SMTT(30), <4>1, <1>1
      <4> QED
        BY SMTT(30), <4>1, <4>2, <1>2, <2>1 DEF Makes
    <3>2. CASE ~Unmarked(n)
      BY SMTT(30), <3>2, <2>3, <2>2, <2>1, <1>2, <1>4 DEF Makes
    <3> QED
      BY SMTT(30), <3>1, <3>2
  <2> QED
    BY <1>2, <2>1, <2>3 DEF UnmarkedHeld
<1>5. \A k : k \in {1, 2} => \E a, b : Alloc(k) = <<a>> \/ Alloc(k) = <<a, b>>
  BY DEF Alloc
<1>6. CASE Create(g)
  <2>1. \/ UNCHANGED <<p, tab>>
        \/ /\ \E k \in {1, 2} : \E i : Made(g, i, Alloc(k))
           /\ pc[g] = "reading" /\ at'[g] = "mark"
    BY Zenon, <1>6 DEF Create, Step
  <2> QED
    BY Zenon, <2>1, <1>3, <1>4, <1>5
<1>7. CASE StatusPipe(g)
  <2>1. \/ Made(g, 3, Alloc(2)) /\ pc[g] = "writing" /\ at'[g] = "fcntl"
        \/ UNCHANGED <<p, tab>>
    BY ZenonT(60), <1>7 DEF StatusPipe, Step
  <2> QED
    BY SMTT(30), <2>1, <1>3, <1>4, <1>5
<1> QED
  BY SMTT(30), <1>6, <1>7

\* Marking, and the steps that close descriptors.
LEMMA MarkFInv ==
    ASSUME FInv, NEW g \in G, MarkCloseOnExec(g) \/ MarkStatusPipe(g) \/ CloseStatusPipe(g)
    PROVE  FInv'
<1> USE DEF FInv, FTypes
<1>1. /\ DOMAIN at' = G /\ DOMAIN p' = G /\ pc' = pc /\ child' = child /\ DOMAIN tab' = Fds
      /\ \A x \in G : x # g => at'[x] = at[x] /\ p'[x] = p[x]
  BY ZenonT(60) DEF MarkCloseOnExec, MarkStatusPipe, CloseStatusPipe, CloseFds, Step, vars
<1>2. \/ UNCHANGED <<p, tab, clo>> /\ pc[g] = "writing" /\ at'[g] = "failed"
      \/ \A n \in Fds : Unmarked(n)' => Unmarked(n) /\ n \notin Range(p[g])
  <2>1. CASE MarkCloseOnExec(g) \/ MarkStatusPipe(g)
    BY <2>1 DEF MarkCloseOnExec, MarkStatusPipe, Step, Unmarked
  <2>2. CASE CloseStatusPipe(g)
    BY <2>2, CloseUnmarks, Zenon DEF CloseStatusPipe
  <2> QED
    BY SMTT(30), <2>1, <2>2
<1>3. CASE UNCHANGED <<p, tab, clo>> /\ pc[g] = "writing" /\ at'[g] = "failed"
  <2>1. ASSUME NEW n \in Fds, NEW x \in G, Makes(x, n) PROVE Makes(x, n)'
    BY SMTT(30), <1>1, <1>3, <2>1 DEF Makes
  <2> QED
    BY ZenonT(60), <1>1, <1>3, <2>1 DEF UnmarkedHeld, Unmarked
<1>4. CASE \A n \in Fds : Unmarked(n)' => Unmarked(n) /\ n \notin Range(p[g])
  <2>1. ASSUME NEW n \in Fds, Unmarked(n)' PROVE \E x \in G : Makes(x, n)'
    <3>1. PICK x \in G : Makes(x, n)
      BY <1>4, <2>1 DEF UnmarkedHeld
    <3>2. x # g
      BY <1>4, <2>1, <3>1 DEF Makes
    <3> QED
      BY SMTT(30), <1>1, <3>1, <3>2 DEF Makes
  <2> QED
    BY SMTT(30), <1>1, <2>1 DEF UnmarkedHeld
<1> QED
  BY SMTT(30), <1>2, <1>3, <1>4

LEMMA CloseFInv ==
    ASSUME FInv, NEW g \in G,
           \/ CloseSocket(g) \/ CloseWriteEnd(g) \/ ReadStatus(g)
           \/ Started(g) \/ Error(g) \/ CmdClose(g)
    PROVE  FInv'
<1> USE DEF FInv, FTypes
<1>1. /\ DOMAIN at' = G /\ DOMAIN p' = G /\ DOMAIN child' = G /\ pc' = pc
      /\ \A x \in G : x # g => at'[x] = at[x] /\ p'[x] = p[x]
  BY Zenon DEF CloseSocket, CloseWriteEnd, ReadStatus, Started, Error, CmdClose, Return, Step, vars
<1>2. \E S : CloseFds(S)
  BY ZenonT(60) DEF CloseSocket, CloseWriteEnd, ReadStatus, Started, Error, CmdClose
<1>3. \A n \in Fds : ~Makes(g, n)
  BY DEF CloseSocket, CloseWriteEnd, ReadStatus, Started, Error, CmdClose, Step, Makes
<1> QED
  BY ZenonT(60), <1>1, <1>2, <1>3, CloseUnmarks, NothingNew

LEMMA ModeFInv ==
    ASSUME FInv, NEW g \in G, modeToFiles(g)
    PROVE  FInv'
<1> USE DEF FInv, FTypes
<1>1. /\ DOMAIN at' = G /\ p' = p /\ child' = child /\ pc' = pc
      /\ \A x \in G : x # g => at'[x] = at[x]
  BY Zenon DEF modeToFiles, Chosen, Step, vars
<1>2. \/ UNCHANGED <<tab, clo>>
      \/ \E a, f : tab' = [tab EXCEPT ![a] = f] /\ clo' = clo \cup {a}
  BY Zenon DEF modeToFiles
<1>3. DOMAIN tab' = Fds /\ \A n \in Fds : Unmarked(n)' => Unmarked(n)
  BY ZenonT(60), <1>2 DEF Unmarked
<1>4. \A n \in Fds : ~Makes(g, n)
  BY DEF modeToFiles, Makes
<1> QED
  BY ZenonT(60), <1>1, <1>3, <1>4, NothingNew

-----------------------------------------------------------------------------
\* Whoever has an unmarked descriptor open holds ForkLock.
THEOREM ForkInvariance == FSpec => []FInv
<1>1. Types /\ FInv /\ [FNext]_fvars => FInv'
  <2> SUFFICES ASSUME Types, FInv, [FNext]_fvars PROVE FInv'
    BY Zenon
  <2>1. CASE UNCHANGED fvars
    <3>1. UNCHANGED <<pc, at, p, child, tab, clo>>
      BY <2>1 DEF fvars, vars, client, kernel
    <3> QED
      BY <3>1 DEF FInv, FTypes, UnmarkedHeld, Unmarked, Makes
  <2>2. ASSUME NEW g \in G, Calling(g) \/ Working(g) \/ ChildStep(g) \/ Exit(g) PROVE FInv'
    BY SMTT(30), <2>2, LockFInv, QuietFInv, MadeFInv, MarkFInv, CloseFInv, ModeFInv DEF Working
  <2> QED
    BY <2>1, <2>2 DEF FNext
<1>2. FSpec => []Types
  <2>1. IInv => Types
    BY Zenon DEF IInv
  <2> QED
    BY <2>1, ForkLockUsed, RWInvariance, PTL
<1> QED
  BY FInitInv, <1>1, <1>2, PTL DEF FSpec

\* No other step makes a child that is between fork and exec.
LEMMA OnlyForkForks ==
    ASSUME FTypes, NEW g \in G, NEW h \in G,
           Calling(h) \/ Working(h) \/ ChildStep(h) \/ Exit(h),
           child[g].st = "none", child'[g].st = "forked"
    PROVE  Fork(h) /\ h = g
<1> USE DEF FTypes
<1>1. child' # child
  OBVIOUS
<1>2. ~Calling(h)
  BY <1>1, Zenon DEF Calling, Run, OsForkExec, Socket, kernel
<1>3. ~(ChildStep(h) \/ Exit(h))
  BY Zenon DEF ChildStep, Exec, ChildError, Exit, Gone
<1>4. ~(CloseSocket(h) \/ Error(h) \/ CmdClose(h))
  <2>1. ~Return(h)
    BY DEF Return, NoChild, Gone
  <2> QED
    BY <2>1, Zenon DEF CloseSocket, Error, CmdClose
<1>5. ~(Locking(h) \/ ReadLock(h) \/ ReadUnlock(h) \/ WriteLock(h) \/ WriteUnlock(h)
          \/ Create(h) \/ MarkCloseOnExec(h) \/ modeToFiles(h) \/ Piped(h) \/ StatusPipe(h)
          \/ MarkStatusPipe(h) \/ ForkFails(h) \/ CloseStatusPipe(h) \/ CloseWriteEnd(h)
          \/ ReadStatus(h) \/ Wait4(h) \/ Started(h))
  BY <1>1, Zenon DEF Locking, ReadLock, ReadUnlock, WriteLock, WriteUnlock, Create, MarkCloseOnExec,
              modeToFiles, Piped, StatusPipe, MarkStatusPipe, ForkFails, CloseStatusPipe,
              CloseWriteEnd, ReadStatus, Wait4, Started, kernel
<1>6. Fork(h)
  BY <1>2, <1>3, <1>4, <1>5, Zenon DEF Working
<1> QED
  BY <1>6, Zenon DEF Fork

\* A child is forked by the goroutine that holds ForkLock for writing, and at
\* that moment no descriptor but the standard ones is unmarked: the race that
\* the comment on ForkLock describes cannot happen, however many goroutines
\* create descriptors and fork.
THEOREM ForkLockWorks == FSpec => ForkClean
<1>1. IInv /\ ReadersOrWriter /\ FInv /\ [FNext]_fvars => [\A g \in G : CleanFork(g)]_fvars
  <2> SUFFICES ASSUME IInv, ReadersOrWriter, FInv, FNext, NEW g \in G,
                      child[g].st = "none", child'[g].st = "forked",
                      NEW n \in Fds, tab[n] # NoFile, tab[n][1] # "std", n \notin clo
               PROVE  FALSE
    BY DEF CleanFork
  <2>1. PICK x \in G : Makes(x, n)
    BY DEF FInv, UnmarkedHeld, Unmarked
  <2>2. PICK h \in G : Calling(h) \/ Working(h) \/ ChildStep(h) \/ Exit(h)
    BY Zenon DEF FNext
  <2>3. Fork(h) /\ h = g
    BY SMTT(30), <2>2, OnlyForkForks DEF FInv, FTypes
  <2>4. pc[g] = "writing" /\ at[g] = "fork"
    BY SMTT(30), <2>3 DEF Fork, Step
  <2>5. pc[x] = "writing"
    BY SMTT(30), <2>1, <2>4 DEF Makes, ReadersOrWriter, Readers, Writers
  <2>6. x = g
    BY <2>4, <2>5 DEF IInv, WAlone, HasW
  <2> QED
    BY <2>1, <2>4, <2>6, Zenon DEF Makes
<1> QED
  BY <1>1, ForkInvariance, ForkLockUsed, RWInvariance, RWExclusion, PTL DEF FSpec, ForkClean

-----------------------------------------------------------------------------
(***************************************************************************)
(* The descriptors and the child: the steps are in ForkFilesProof.         *)
(***************************************************************************)

\* The descriptors of each goroutine that are open are those it will close.
THEOREM FilesKnown == FSpec => []KInv
<1>1. Types /\ KInv /\ [FNext]_fvars => KInv'
  <2>1. Types => DOMAIN pc = G
    BY DEF Types
  <2> QED BY <2>1, KNext
<1>2. IInv => Types
  BY Zenon DEF IInv
<1> QED
  BY <1>1, <1>2, KInitInv, ForkLockUsed, RWInvariance, PTL DEF FSpec

\* Whatever exec.Run, os.ForkExec or socket opened, and on whichever step it
\* failed, none of it is open when the call is over.
THEOREM NothingStaysOpen == FSpec => []NothingLeftOpen
BY KClosed, FilesKnown, PTL

\* What became of a child is what the parent is told.
THEOREM ChildrenKnown == ASSUME ShortLists PROVE FSpec => []CInv
<1>1. KInv /\ CInv /\ [FNext]_fvars /\ [\A g \in G : CleanFork(g)]_fvars => CInv'
  BY CNext
<1> QED
  BY <1>1, CInitInv, FilesKnown, ForkLockWorks, PTL DEF FSpec, ForkClean

\* Run and os.ForkExec report success only for a command that was exec'ed, and
\* an error only when no child is left: the close-on-exec status pipe of
\* forkExec tells the two apart, wherever the child fails.
THEOREM StatusIsTrue == ASSUME ShortLists PROVE FSpec => []StatusTrue
<1>1. CInv => StatusTrue
  BY Zenon DEF CInv, Child, StatusTrue
<1> QED
  BY <1>1, ChildrenKnown, PTL

\* A command holds nothing but the files of its own list, whatever the other
\* goroutines had open when forkExec forked it.
THEOREM IntendedOnly == ASSUME ShortLists PROVE FSpec => []OnlyIntended
<1>1. CInv => OnlyIntended
  BY Zenon DEF CInv, Child, OnlyIntended
<1> QED
  BY <1>1, ChildrenKnown, PTL

\* The two passes of forkAndExecInChild put the file of each position there,
\* when pass 1 dups onto no descriptor that the list names.
THEOREM FilesArrive == ASSUME ShortLists PROVE FSpec => []ChildGetsFiles
<1>1. CInv => ChildGetsFiles
  BY Zenon DEF CInv, Child, ChildGetsFiles
<1> QED
  BY <1>1, ChildrenKnown, PTL
=============================================================================
