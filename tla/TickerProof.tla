---------------------------- MODULE TickerProof -----------------------------
(***************************************************************************)
(* Proofs about once.Do, the start of tickerLoop and the phase of ticks.   *)
(*                                                                         *)
(* once.Do returns to nobody before the function has returned, for every   *)
(* set of goroutines and of functions. A job that was entered and has not  *)
(* finished is run by a goroutine that holds its mutex from before the job *)
(* was in the table, so whoever gets that mutex after it finds the job     *)
(* finished.                                                               *)
(***************************************************************************)
EXTENDS Ticker, TLAPS

ONext == \E g \in G : (\E f \in Funcs : Do(g, f)) \/ Steps(g) \/ Wakes(g)

OSpec == Init /\ [][ONext]_vars

DoLabels == {"idle", "lookup", "enter", "call", "running", "check", "waited"}

OTypes ==
    /\ key \in [Mutexes -> Nat] /\ sema \in [Mutexes -> Nat]
    /\ pc \in [G -> DoLabels \cup MutexLabels]
    /\ mu \in [G -> Mutexes] /\ ret \in [G -> DoLabels] /\ arg \in [G -> Funcs]
    /\ jobs \subseteq Funcs /\ finished \subseteq jobs /\ done \subseteq finished

Locks(g) == pc[g] \in {"xadd_lock", "semacquire"}
Unlocks(g) == pc[g] \in {"xadd_unlock", "semrelease"}

\* Where a call of Lock or Unlock came from.
CallMatches(g) ==
    /\ Locks(g) => \/ mu[g] = joblock /\ ret[g] = "lookup"
                   \/ mu[g] = arg[g] /\ ret[g] \in {"enter", "waited"}
    /\ Unlocks(g) => \/ mu[g] = joblock /\ ret[g] \in {"call", "check"}
                     \/ mu[g] = arg[g] /\ ret[g] = "idle"

\* g has the mutex m, or is about to pass it on.
Has(g, m) ==
    \/ m = joblock /\ (pc[g] \in {"lookup", "enter"} \/ (Locks(g) /\ ret[g] = "enter"))
    \/ m = arg[g] /\ (\/ pc[g] \in {"enter", "call", "running", "waited"}
                      \/ Unlocks(g) /\ ret[g] = "call")
    \/ m = mu[g] /\ Unlocks(g)

\* At most one has m; while somebody has, or a unit of its semaphore is there to
\* be taken, key is not 0 and the next Lock waits.
Alone(m) ==
    /\ \A g, h \in G : Has(g, m) /\ Has(h, m) => g = h
    /\ \A g \in G : Has(g, m) => sema[m] = 0 /\ key[m] > 0
    /\ sema[m] <= 1 /\ (sema[m] = 1 => key[m] > 0)

\* g is about to enter its job, runs it, or has found it in the table.
Entering(g) == pc[g] = "enter" \/ (Locks(g) /\ ret[g] = "enter")
Calling(g) == pc[g] \in {"call", "running"} \/ (Unlocks(g) /\ ret[g] = "call")
Finding(g) ==
    pc[g] = "check" \/ (Locks(g) /\ ret[g] = "waited") \/ (Unlocks(g) /\ ret[g] = "check")
Ending(g) == pc[g] = "waited" \/ (Unlocks(g) /\ ret[g] = "idle")

JobOf(g) ==
    /\ Entering(g) => arg[g] \notin jobs
    /\ Calling(g) => arg[g] \in jobs /\ arg[g] \notin finished
    /\ Finding(g) => arg[g] \in jobs
    /\ Ending(g) => arg[g] \in finished

Called == \A f \in jobs : f \notin finished => \E g \in G : Calling(g) /\ arg[g] = f

OInv ==
    /\ OTypes
    /\ \A g \in G : CallMatches(g) /\ JobOf(g)
    /\ \A m \in Mutexes : Alone(m)
    /\ Called

-----------------------------------------------------------------------------
LEMMA OnceInit == Init => OInv
<1> SUFFICES ASSUME Init PROVE OInv
  OBVIOUS
<1> USE OnceAssumption
<1>1. OTypes
  BY DEF Init, MutexInit, OTypes, DoLabels
<1>2. \A g \in G : pc[g] = "idle"
  BY Zenon DEF Init
<1>3. \A g \in G : ~Locks(g) /\ ~Unlocks(g)
  BY Zenon, <1>2 DEF Locks, Unlocks
<1>4. \A g \in G : CallMatches(g) /\ JobOf(g)
  BY Zenon, <1>2, <1>3 DEF CallMatches, JobOf, Entering, Calling, Finding, Ending
<1>5. ASSUME NEW m \in Mutexes PROVE Alone(m)
  <2>1. \A g \in G : ~Has(g, m)
    BY Zenon, <1>2, <1>3 DEF Has
  <2>2. sema[m] = 0
    BY DEF Init, MutexInit
  <2> QED
    BY <2>1, <2>2 DEF Alone
<1>6. Called
  BY DEF Init, Called
<1> QED
  BY <1>1, <1>4, <1>5, <1>6 DEF OInv

-----------------------------------------------------------------------------
\* h is where it was.
Stays(h) == pc'[h] = pc[h] /\ mu'[h] = mu[h] /\ ret'[h] = ret[h] /\ arg'[h] = arg[h]

LEMMA StaysSame ==
    ASSUME NEW h \in G, Stays(h)
    PROVE  /\ \A m \in Mutexes : Has(h, m)' <=> Has(h, m)
           /\ CallMatches(h)' <=> CallMatches(h)
           /\ Entering(h)' <=> Entering(h)
           /\ Calling(h)' <=> Calling(h)
           /\ Finding(h)' <=> Finding(h)
           /\ Ending(h)' <=> Ending(h)
<1>1. (Locks(h)' <=> Locks(h)) /\ (Unlocks(h)' <=> Unlocks(h))
  BY DEF Stays, Locks, Unlocks
<1>2. \A m \in Mutexes : Has(h, m)' <=> Has(h, m)
  BY <1>1 DEF Stays, Has
<1>3. CallMatches(h)' <=> CallMatches(h)
  BY <1>1 DEF Stays, CallMatches
<1> QED
  BY <1>1, <1>2, <1>3 DEF Stays, Entering, Calling, Finding, Ending

\* A step of g that touches no mutex and gives it none.
LEMMA MoveAlone ==
    ASSUME NEW g \in G, NEW m \in Mutexes, Alone(m),
           \A h \in G : h # g => Stays(h),
           Has(g, m)' => Has(g, m),
           key'[m] = key[m], sema'[m] = sema[m]
    PROVE  Alone(m)'
<1>1. \A h \in G : Has(h, m)' => Has(h, m)
  BY StaysSame
<1> QED
  BY <1>1 DEF Alone

\* The jobs of the other goroutines, when the table stays as it is.
LEMMA MoveJobs ==
    ASSUME NEW g \in G, OInv,
           \A h \in G : h # g => Stays(h),
           jobs' = jobs, finished' = finished,
           CallMatches(g)', JobOf(g)',
           Calling(g) => Calling(g)' /\ arg'[g] = arg[g]
    PROVE  (\A h \in G : CallMatches(h) /\ JobOf(h))' /\ Called'
<1>1. ASSUME NEW h \in G, h # g PROVE CallMatches(h)' /\ JobOf(h)'
  <2>1. arg'[h] = arg[h]
    BY <1>1 DEF Stays
  <2>2. CallMatches(h) /\ JobOf(h)
    BY DEF OInv
  <2> QED
    BY <1>1, <2>1, <2>2, StaysSame DEF JobOf
<1>2. ASSUME NEW f \in jobs', f \notin finished' PROVE \E h \in G : Calling(h)' /\ arg'[h] = f
  <2>1. PICK h \in G : Calling(h) /\ arg[h] = f
    BY <1>2 DEF OInv, Called
  <2>2. h # g => Calling(h)' /\ arg'[h] = arg[h]
    BY <2>1, StaysSame DEF Stays
  <2> QED
    BY <2>1, <2>2
<1>3. Called'
  BY <1>2 DEF Called
<1> QED
  BY <1>1, <1>3

-----------------------------------------------------------------------------
\* A step of g that leaves the mutexes and the table alone, and after which g has
\* no mutex that it had not.
LEMMA MovePreserves ==
    ASSUME NEW g \in G, OInv, OTypes',
           \A h \in G : h # g => Stays(h),
           key' = key, sema' = sema, jobs' = jobs, finished' = finished,
           CallMatches(g)', JobOf(g)',
           \A m \in Mutexes : Has(g, m)' => Has(g, m),
           Calling(g) => Calling(g)' /\ arg'[g] = arg[g]
    PROVE  OInv'
<1>1. \A m \in Mutexes : Alone(m)'
  BY MoveAlone DEF OInv
<1>2. (\A h \in G : CallMatches(h) /\ JobOf(h))' /\ Called'
  BY MoveJobs
<1> QED
  BY <1>1, <1>2 DEF OInv

\* What a call of Lock or Unlock does to the goroutine g that makes it.
LEMMA CallTypes ==
    ASSUME OTypes, NEW g \in G, NEW l \in MutexLabels, NEW m \in Mutexes, NEW b \in DoLabels,
           Call(g, l, m, b)
    PROVE  /\ pc'[g] = l /\ mu'[g] = m /\ ret'[g] = b
           /\ \A h \in G : h # g => pc'[h] = pc[h] /\ mu'[h] = mu[h] /\ ret'[h] = ret[h]
           /\ pc' \in [G -> DoLabels \cup MutexLabels]
           /\ mu' \in [G -> Mutexes] /\ ret' \in [G -> DoLabels]
  BY DEF Call, Goto, OTypes

LEMMA GotoTypes ==
    ASSUME OTypes, NEW g \in G, NEW l \in DoLabels \cup MutexLabels, Goto(g, l)
    PROVE  /\ pc'[g] = l
           /\ \A h \in G : h # g => pc'[h] = pc[h]
           /\ pc' \in [G -> DoLabels \cup MutexLabels]
  BY DEF Goto, OTypes

LEMMA DoPreserves ==
    ASSUME OInv, NEW g \in G, NEW f \in Funcs, Do(g, f)
    PROVE  OInv'
<1> USE OnceAssumption
<1>1. OTypes /\ pc[g] = "idle"
  BY DEF OInv, Do
<1>2. /\ pc'[g] = "xadd_lock" /\ mu'[g] = joblock /\ ret'[g] = "lookup"
      /\ \A h \in G : h # g => Stays(h)
      /\ OTypes'
  <2>1. Call(g, "xadd_lock", joblock, "lookup")
    BY DEF Do, Lock
  <2>2. arg' = [arg EXCEPT ![g] = f]
        /\ key' = key /\ sema' = sema /\ jobs' = jobs /\ finished' = finished /\ done' = done
    BY DEF Do
  <2>3. "xadd_lock" \in MutexLabels /\ "lookup" \in DoLabels
    BY DEF MutexLabels, DoLabels
  <2> QED
    BY <1>1, <2>1, <2>2, <2>3, CallTypes DEF Stays, OTypes
<1>3. Locks(g)' /\ ~Unlocks(g)' /\ ~Unlocks(g) /\ ~Calling(g)
  BY <1>1, <1>2 DEF Locks, Unlocks, Calling
<1>4. CallMatches(g)'
  BY <1>2, <1>3 DEF CallMatches
<1>5. JobOf(g)'
  BY <1>2, <1>3 DEF JobOf, Entering, Calling, Finding, Ending
<1>6. \A m \in Mutexes : ~Has(g, m)'
  BY <1>2, <1>3 DEF Has
<1>7. key' = key /\ sema' = sema /\ jobs' = jobs /\ finished' = finished
  BY DEF Do
<1> QED
  BY <1>2, <1>3, <1>4, <1>5, <1>6, <1>7, MovePreserves

LEMMA LookupPreserves ==
    ASSUME OInv, NEW g \in G, Lookup(g)
    PROVE  OInv'
<1> USE OnceAssumption
<1>1. /\ OTypes /\ pc[g] = "lookup" /\ arg' = arg
      /\ key' = key /\ sema' = sema /\ jobs' = jobs /\ finished' = finished /\ done' = done
  BY DEF OInv, Lookup
<1>2. arg[g] \in Mutexes
  BY <1>1 DEF OTypes
<1>3. ~Unlocks(g) /\ ~Calling(g) /\ Has(g, joblock)
  BY <1>1 DEF Unlocks, Calling, Has
<1>4. CASE arg[g] \notin jobs /\ Lock(g, arg[g], "enter")
  <2>1. /\ pc'[g] = "xadd_lock" /\ mu'[g] = arg[g] /\ ret'[g] = "enter"
        /\ \A h \in G : h # g => Stays(h)
        /\ OTypes'
    <3>1. "xadd_lock" \in MutexLabels /\ "enter" \in DoLabels
      BY DEF MutexLabels, DoLabels
    <3> QED
      BY <1>1, <1>2, <1>4, <3>1, CallTypes DEF Lock, Stays, OTypes
  <2>2. Locks(g)' /\ ~Unlocks(g)'
    BY <2>1 DEF Locks, Unlocks
  <2>3. CallMatches(g)' /\ JobOf(g)'
    BY <1>1, <1>4, <2>1, <2>2 DEF CallMatches, JobOf, Entering, Calling, Finding, Ending
  <2>4. \A m \in Mutexes : Has(g, m)' => m = joblock
    BY <2>1, <2>2 DEF Has
  <2> QED
    BY <1>1, <1>3, <2>1, <2>3, <2>4, MovePreserves
<1>5. CASE arg[g] \in jobs /\ Unlock(g, joblock, "check")
  <2>1. /\ pc'[g] = "xadd_unlock" /\ mu'[g] = joblock /\ ret'[g] = "check"
        /\ \A h \in G : h # g => Stays(h)
        /\ OTypes'
    <3>1. "xadd_unlock" \in MutexLabels /\ "check" \in DoLabels
      BY DEF MutexLabels, DoLabels
    <3> QED
      BY <1>1, <1>5, <3>1, CallTypes DEF Unlock, Stays, OTypes
  <2>2. ~Locks(g)' /\ Unlocks(g)'
    BY <2>1 DEF Locks, Unlocks
  <2>3. CallMatches(g)' /\ JobOf(g)'
    BY <1>1, <1>5, <2>1, <2>2 DEF CallMatches, JobOf, Entering, Calling, Finding, Ending
  <2>4. \A m \in Mutexes : Has(g, m)' => m = joblock
    BY <2>1, <2>2 DEF Has
  <2> QED
    BY <1>1, <1>3, <2>1, <2>3, <2>4, MovePreserves
<1> QED
  BY <1>4, <1>5 DEF Lookup

\* EnterJob puts the job of g into the table: nobody else is about to, since g
\* has joblock, and g runs it from here on.
LEMMA EnterJobPreserves ==
    ASSUME OInv, NEW g \in G, EnterJob(g)
    PROVE  OInv'
<1> USE OnceAssumption
<1>1. /\ OTypes /\ pc[g] = "enter" /\ arg' = arg
      /\ key' = key /\ sema' = sema /\ finished' = finished /\ done' = done
      /\ jobs' = jobs \cup {arg[g]}
  BY DEF OInv, EnterJob
<1>2. /\ pc'[g] = "xadd_unlock" /\ mu'[g] = joblock /\ ret'[g] = "call"
      /\ \A h \in G : h # g => Stays(h)
      /\ OTypes'
  <2>1. "xadd_unlock" \in MutexLabels /\ "call" \in DoLabels
    BY DEF MutexLabels, DoLabels
  <2>2. Call(g, "xadd_unlock", joblock, "call")
    BY DEF EnterJob, Unlock
  <2>3. jobs' \subseteq Funcs /\ finished' \subseteq jobs'
    BY <1>1 DEF OTypes
  <2> QED
    BY <1>1, <2>1, <2>2, <2>3, CallTypes DEF Stays, OTypes
<1>3. ~Locks(g)' /\ Unlocks(g)'
  BY <1>2 DEF Locks, Unlocks
<1>4. Entering(g) /\ Has(g, joblock) /\ Has(g, arg[g])
  BY <1>1 DEF Entering, Has
<1>5. arg[g] \notin jobs /\ arg[g] \notin finished
  BY <1>1, <1>4 DEF OInv, JobOf, OTypes
<1>6. \A m \in Mutexes : Alone(m)'
  <2>1. \A m \in Mutexes : Has(g, m)' => Has(g, m)
    BY <1>1, <1>2, <1>3, <1>4 DEF Has
  <2> QED
    BY <1>1, <1>2, <2>1, MoveAlone DEF OInv
<1>7. CallMatches(g)' /\ JobOf(g)'
  BY Zenon, <1>1, <1>2, <1>3, <1>5 DEF CallMatches, JobOf, Entering, Calling, Finding, Ending
<1>8. ASSUME NEW h \in G, h # g PROVE CallMatches(h)' /\ JobOf(h)'
  <2>1. ~Entering(h)
    <3>1. Entering(h) => Has(h, joblock)
      BY DEF Entering, Has
    <3>2. Alone(joblock)
      BY DEF OInv
    <3> QED
      BY <1>4, <1>8, <3>1, <3>2 DEF Alone
  <2>2. CallMatches(h) /\ JobOf(h)
    BY DEF OInv
  <2>3. arg'[h] = arg[h]
    BY <1>1
  <2> QED
    BY <1>1, <1>2, <1>8, <2>1, <2>2, <2>3, StaysSame DEF JobOf
<1>9. Called'
  <2>1. Calling(g)'
    BY <1>2, <1>3 DEF Calling
  <2>2. ASSUME NEW f \in jobs, f \notin finished PROVE \E h \in G : Calling(h)' /\ arg'[h] = f
    <3>1. PICK h \in G : Calling(h) /\ arg[h] = f
      BY <2>2 DEF OInv, Called
    <3>2. h # g
      BY <1>5, <2>2, <3>1
    <3> QED
      BY <1>1, <1>2, <3>1, <3>2, StaysSame
  <2> QED
    BY <1>1, <2>1, <2>2 DEF Called
<1> QED
  BY <1>2, <1>6, <1>7, <1>8, <1>9 DEF OInv

LEMMA CallFPreserves ==
    ASSUME OInv, NEW g \in G, CallF(g)
    PROVE  OInv'
<1>1. /\ OTypes /\ pc[g] = "call" /\ arg' = arg /\ mu' = mu /\ ret' = ret
      /\ key' = key /\ sema' = sema /\ jobs' = jobs /\ finished' = finished /\ done' = done
  BY DEF OInv, CallF
<1>2. /\ pc'[g] = "running"
      /\ \A h \in G : h # g => Stays(h)
      /\ OTypes'
  <2>1. "running" \in DoLabels
    BY DEF DoLabels
  <2>2. Goto(g, "running")
    BY DEF CallF
  <2> QED
    BY <1>1, <2>1, <2>2, GotoTypes DEF Stays, OTypes
<1>3. ~Locks(g)' /\ ~Unlocks(g)' /\ Calling(g) /\ Calling(g)'
  BY <1>1, <1>2 DEF Locks, Unlocks, Calling
<1>4. CallMatches(g)' /\ JobOf(g)'
  <2>1. JobOf(g)
    BY DEF OInv
  <2> QED
    BY <1>1, <1>2, <1>3, <2>1 DEF CallMatches, JobOf, Entering, Finding, Ending
<1>5. \A m \in Mutexes : Has(g, m)' => Has(g, m)
  <2>1. Has(g, arg[g])
    BY <1>1 DEF Has
  <2>2. \A m \in Mutexes : Has(g, m)' => m = arg[g]
    BY <1>1, <1>2, <1>3 DEF Has
  <2> QED
    BY <2>1, <2>2
<1> QED
  BY <1>1, <1>2, <1>3, <1>4, <1>5, MovePreserves

\* The call of f returns: nobody else runs it, since g has its mutex.
LEMMA FinishFPreserves ==
    ASSUME OInv, NEW g \in G, FinishF(g)
    PROVE  OInv'
<1> USE OnceAssumption
<1>1. /\ OTypes /\ pc[g] = "running" /\ arg' = arg
      /\ key' = key /\ sema' = sema /\ jobs' = jobs
      /\ finished' = finished \cup {arg[g]} /\ done' = done \cup {arg[g]}
  BY DEF OInv, FinishF
<1>2. arg[g] \in Mutexes /\ arg[g] \in Funcs
  BY <1>1 DEF OTypes
<1>3. Calling(g) /\ Has(g, arg[g])
  BY <1>1 DEF Calling, Has
<1>4. arg[g] \in jobs
  BY <1>3 DEF OInv, JobOf
<1>5. /\ pc'[g] = "xadd_unlock" /\ mu'[g] = arg[g] /\ ret'[g] = "idle"
      /\ \A h \in G : h # g => Stays(h)
      /\ OTypes'
  <2>1. "xadd_unlock" \in MutexLabels /\ "idle" \in DoLabels
    BY DEF MutexLabels, DoLabels
  <2>2. Call(g, "xadd_unlock", arg[g], "idle")
    BY DEF FinishF, Unlock
  <2>3. finished' \subseteq jobs' /\ done' \subseteq finished'
    BY <1>1, <1>4 DEF OTypes
  <2> QED
    BY <1>1, <1>2, <2>1, <2>2, <2>3, CallTypes DEF Stays, OTypes
<1>6. ~Locks(g)' /\ Unlocks(g)'
  BY <1>5 DEF Locks, Unlocks
<1>7. \A m \in Mutexes : Alone(m)'
  <2>1. \A m \in Mutexes : Has(g, m)' => m = arg[g]
    BY <1>1, <1>5, <1>6 DEF Has
  <2> QED
    BY <1>1, <1>3, <1>5, <2>1, MoveAlone DEF OInv
<1>8. CallMatches(g)' /\ JobOf(g)'
  BY <1>1, <1>5, <1>6 DEF CallMatches, JobOf, Entering, Calling, Finding, Ending
<1>9. ASSUME NEW h \in G, h # g PROVE CallMatches(h)' /\ JobOf(h)'
  <2>1. Calling(h) => arg[h] # arg[g]
    <3>1. Calling(h) => Has(h, arg[h])
      BY DEF Calling, Has
    <3>2. Alone(arg[g])
      BY <1>2 DEF OInv
    <3> QED
      BY <1>3, <1>9, <3>1, <3>2 DEF Alone
  <2>2. CallMatches(h) /\ JobOf(h)
    BY DEF OInv
  <2>3. arg'[h] = arg[h]
    BY <1>1
  <2> QED
    BY <1>1, <1>5, <1>9, <2>1, <2>2, <2>3, StaysSame DEF JobOf
<1>10. Called'
  <2>1. ASSUME NEW f \in jobs, f \notin finished, f # arg[g]
        PROVE \E h \in G : Calling(h)' /\ arg'[h] = f
    <3>1. PICK h \in G : Calling(h) /\ arg[h] = f
      BY <2>1 DEF OInv, Called
    <3>2. h # g
      BY <2>1, <3>1
    <3> QED
      BY <1>1, <1>5, <3>1, <3>2, StaysSame
  <2> QED
    BY <1>1, <2>1 DEF Called
<1> QED
  BY <1>5, <1>7, <1>8, <1>9, <1>10 DEF OInv

LEMMA CheckPreserves ==
    ASSUME OInv, NEW g \in G, Check(g)
    PROVE  OInv'
<1> USE OnceAssumption
<1>1. /\ OTypes /\ pc[g] = "check" /\ arg' = arg
      /\ key' = key /\ sema' = sema /\ jobs' = jobs /\ finished' = finished /\ done' = done
  BY DEF OInv, Check
<1>2. arg[g] \in Mutexes
  BY <1>1 DEF OTypes
<1>3. ~Unlocks(g) /\ ~Calling(g) /\ Finding(g)
  BY <1>1 DEF Unlocks, Calling, Finding
<1>4. CASE Goto(g, "idle") /\ UNCHANGED <<mu, ret>>
  <2>1. /\ pc'[g] = "idle"
        /\ \A h \in G : h # g => Stays(h)
        /\ OTypes'
    <3>1. "idle" \in DoLabels
      BY DEF DoLabels
    <3> QED
      BY <1>1, <1>4, <3>1, GotoTypes DEF Stays, OTypes
  <2>2. ~Locks(g)' /\ ~Unlocks(g)'
    BY <2>1 DEF Locks, Unlocks
  <2>3. CallMatches(g)' /\ JobOf(g)'
    BY <2>1, <2>2 DEF CallMatches, JobOf, Entering, Calling, Finding, Ending
  <2>4. \A m \in Mutexes : ~Has(g, m)'
    BY <2>1, <2>2 DEF Has
  <2> QED
    BY <1>1, <1>3, <2>1, <2>3, <2>4, MovePreserves
<1>5. CASE Lock(g, arg[g], "waited")
  <2>1. /\ pc'[g] = "xadd_lock" /\ mu'[g] = arg[g] /\ ret'[g] = "waited"
        /\ \A h \in G : h # g => Stays(h)
        /\ OTypes'
    <3>1. "xadd_lock" \in MutexLabels /\ "waited" \in DoLabels
      BY DEF MutexLabels, DoLabels
    <3> QED
      BY <1>1, <1>2, <1>5, <3>1, CallTypes DEF Lock, Stays, OTypes
  <2>2. Locks(g)' /\ ~Unlocks(g)'
    BY <2>1 DEF Locks, Unlocks
  <2>3. arg[g] \in jobs
    BY <1>3 DEF OInv, JobOf
  <2>4. CallMatches(g)' /\ JobOf(g)'
    BY <1>1, <2>1, <2>2, <2>3 DEF CallMatches, JobOf, Entering, Calling, Finding, Ending
  <2>5. \A m \in Mutexes : ~Has(g, m)'
    BY <2>1, <2>2 DEF Has
  <2> QED
    BY <1>1, <1>3, <2>1, <2>4, <2>5, MovePreserves
<1> QED
  BY <1>4, <1>5 DEF Check

LEMMA WaitedPreserves ==
    ASSUME OInv, NEW g \in G, Waited(g)
    PROVE  OInv'
<1> USE OnceAssumption
<1>1. /\ OTypes /\ pc[g] = "waited" /\ arg' = arg
      /\ key' = key /\ sema' = sema /\ jobs' = jobs /\ finished' = finished /\ done' = done
  BY DEF OInv, Waited
<1>2. arg[g] \in Mutexes
  BY <1>1 DEF OTypes
<1>3. ~Unlocks(g) /\ ~Calling(g) /\ Ending(g) /\ Has(g, arg[g])
  BY <1>1 DEF Unlocks, Calling, Ending, Has
<1>4. /\ pc'[g] = "xadd_unlock" /\ mu'[g] = arg[g] /\ ret'[g] = "idle"
      /\ \A h \in G : h # g => Stays(h)
      /\ OTypes'
  <2>1. "xadd_unlock" \in MutexLabels /\ "idle" \in DoLabels
    BY DEF MutexLabels, DoLabels
  <2>2. Call(g, "xadd_unlock", arg[g], "idle")
    BY DEF Waited, Unlock
  <2> QED
    BY <1>1, <1>2, <2>1, <2>2, CallTypes DEF Stays, OTypes
<1>5. ~Locks(g)' /\ Unlocks(g)'
  BY <1>4 DEF Locks, Unlocks
<1>6. arg[g] \in finished
  BY <1>3 DEF OInv, JobOf
<1>7. CallMatches(g)' /\ JobOf(g)'
  BY <1>1, <1>4, <1>5, <1>6 DEF CallMatches, JobOf, Entering, Calling, Finding, Ending
<1>8. \A m \in Mutexes : Has(g, m)' => m = arg[g]
  BY <1>1, <1>4, <1>5 DEF Has
<1> QED
  BY <1>1, <1>3, <1>4, <1>7, <1>8, MovePreserves

-----------------------------------------------------------------------------
\* g gets the mutex it waits for: nobody has it.  If that is the mutex of a job
\* that g has found in the table, the job has finished: whoever ran it had the
\* mutex meanwhile.
LEMMA GotMutex ==
    ASSUME OInv, OTypes', NEW g \in G, Locks(g),
           pc'[g] = ret[g], arg' = arg, mu' = mu, ret' = ret,
           \A h \in G : h # g => Stays(h),
           jobs' = jobs, finished' = finished,
           \A m \in Mutexes : m # mu[g] => key'[m] = key[m] /\ sema'[m] = sema[m],
           \A h \in G : ~Has(h, mu[g]),
           sema'[mu[g]] = 0, key'[mu[g]] > 0
    PROVE  OInv'
<1> USE OnceAssumption
<1>1. OTypes /\ CallMatches(g) /\ JobOf(g)
  BY DEF OInv
<1>2. mu[g] \in Mutexes /\ ~Unlocks(g)
  BY <1>1 DEF OTypes, Locks, Unlocks
<1>3. \/ mu[g] = joblock /\ ret[g] = "lookup"
      \/ mu[g] = arg[g] /\ ret[g] \in {"enter", "waited"}
  BY <1>1 DEF CallMatches
<1>4. ~Locks(g)' /\ ~Unlocks(g)' /\ ~Calling(g)
  BY Zenon, <1>2, <1>3 DEF Locks, Unlocks, Calling
<1>5. \A m \in Mutexes : Has(g, m)' => Has(g, m) \/ m = mu[g]
  BY <1>3, <1>4 DEF Has
<1>6. ASSUME NEW m \in Mutexes PROVE Alone(m)'
  <2>1. CASE m = mu[g]
    <3>1. \A h \in G : h # g => ~Has(h, m)'
      BY Zenon, <2>1, StaysSame
    <3> QED
      BY <2>1, <3>1 DEF Alone
  <2>2. CASE m # mu[g]
    BY Zenon, <1>5, <2>2, MoveAlone DEF OInv
  <2> QED
    BY <2>1, <2>2
<1>7. CallMatches(g)'
  BY Zenon, <1>4 DEF CallMatches
<1>8. ret[g] = "waited" => arg[g] \in finished
  <2> SUFFICES ASSUME ret[g] = "waited", arg[g] \notin finished PROVE FALSE
    OBVIOUS
  <2>1. Finding(g) /\ mu[g] = arg[g]
    BY Zenon, <1>3 DEF Finding
  <2>2. arg[g] \in jobs
    BY Zenon, <1>1, <2>1 DEF JobOf
  <2>3. PICK h \in G : Calling(h) /\ arg[h] = arg[g]
    BY Zenon, <2>2 DEF OInv, Called
  <2>4. Has(h, arg[h])
    BY Zenon, <2>3 DEF Calling, Has
  <2> QED
    BY Zenon, <2>1, <2>3, <2>4
<1>9. ret[g] = "enter" => arg[g] \notin jobs
  BY Zenon, <1>1 DEF JobOf, Entering
<1>10. JobOf(g)'
  BY <1>3, <1>4, <1>8, <1>9 DEF JobOf, Entering, Calling, Finding, Ending
<1>11. (\A h \in G : CallMatches(h) /\ JobOf(h))' /\ Called'
  BY <1>4, <1>7, <1>10, MoveJobs, Zenon
<1> QED
  BY <1>6, <1>11 DEF OInv

LEMMA XaddLockPreserves ==
    ASSUME OInv, NEW g \in G, XaddLock(g),
           jobs' = jobs, done' = done, arg' = arg, finished' = finished
    PROVE  OInv'
<1>1. /\ OTypes /\ pc[g] = "xadd_lock" /\ arg' = arg /\ mu' = mu /\ ret' = ret
      /\ sema' = sema /\ jobs' = jobs /\ finished' = finished /\ done' = done
      /\ key' = [key EXCEPT ![mu[g]] = @ + 1]
  BY Zenon DEF OInv, XaddLock
<1>2. mu[g] \in Mutexes /\ key[mu[g]] \in Nat /\ ret[g] \in DoLabels /\ sema[mu[g]] \in Nat
  BY <1>1 DEF OTypes
<1>3. /\ key' \in [Mutexes -> Nat] /\ key'[mu[g]] = key[mu[g]] + 1
      /\ \A m \in Mutexes : m # mu[g] => key'[m] = key[m]
  BY <1>1, <1>2 DEF OTypes
<1>4. Locks(g) /\ ~Unlocks(g)
  BY <1>1 DEF Locks, Unlocks
<1>5. Alone(mu[g])
  BY Zenon, <1>2 DEF OInv
<1>6. CASE key[mu[g]] = 0
  <2>1. Goto(g, ret[g])
    BY <1>6 DEF XaddLock
  <2>2. pc'[g] = ret[g] /\ (\A h \in G : h # g => Stays(h)) /\ OTypes'
    BY <1>1, <1>2, <1>3, <2>1, GotoTypes DEF Stays, OTypes
  <2>3. \A h \in G : ~Has(h, mu[g])
    BY ONLY <1>5, <1>6 DEF Alone
  <2>4. sema[mu[g]] = 0
    BY <1>2, <1>5, <1>6 DEF Alone
  <2> QED
    BY SMTT(30), <1>1, <1>2, <1>3, <1>4, <2>2, <2>3, <2>4, GotMutex
<1>7. CASE key[mu[g]] # 0
  <2>1. Goto(g, "semacquire")
    BY <1>2, <1>7 DEF XaddLock
  <2>2. pc'[g] = "semacquire" /\ (\A h \in G : h # g => Stays(h)) /\ OTypes'
    <3>1. "semacquire" \in MutexLabels
      BY DEF MutexLabels
    <3> QED
      BY <1>1, <1>2, <1>3, <2>1, <3>1, GotoTypes DEF Stays, OTypes
  <2>3. Locks(g)' /\ ~Unlocks(g)' /\ ~Calling(g)
    BY Zenon, <1>1, <1>4, <2>2 DEF Locks, Unlocks, Calling
  <2>4. CallMatches(g)' /\ JobOf(g)'
    <3>1. CallMatches(g) /\ JobOf(g)
      BY DEF OInv
    <3> QED
      BY <1>1, <1>4, <2>2, <2>3, <3>1 DEF CallMatches, JobOf, Entering, Calling, Finding, Ending
  <2>5. \A m \in Mutexes : Has(g, m)' => Has(g, m)
    BY <1>1, <1>4, <2>2, <2>3, Zenon DEF Has
  <2>6. ASSUME NEW m \in Mutexes PROVE Alone(m)'
    <3>1. CASE m # mu[g]
      BY Zenon, <1>1, <1>3, <2>2, <2>5, <3>1, MoveAlone DEF OInv
    <3>2. CASE m = mu[g]
      <4>1. \A h \in G : Has(h, m)' => Has(h, m)
        BY <2>2, <2>5, StaysSame
      <4>2. key'[m] > 0 /\ sema'[m] = sema[m]
        BY <1>1, <1>2, <1>3, <3>2
      <4> QED
        BY <1>5, <3>2, <4>1, <4>2 DEF Alone
    <3> QED
      BY Zenon, <3>1, <3>2
  <2>7. (\A h \in G : CallMatches(h) /\ JobOf(h))' /\ Called'
    BY Zenon, <1>1, <2>2, <2>3, <2>4, MoveJobs
  <2> QED
    BY <2>2, <2>6, <2>7 DEF OInv
<1> QED
  BY <1>6, <1>7

LEMMA SemacquirePreserves ==
    ASSUME OInv, NEW g \in G, Wakes(g)
    PROVE  OInv'
<1>1. /\ OTypes /\ pc[g] = "semacquire" /\ arg' = arg /\ mu' = mu /\ ret' = ret
      /\ key' = key /\ jobs' = jobs /\ finished' = finished /\ done' = done
      /\ sema[mu[g]] > 0 /\ sema' = [sema EXCEPT ![mu[g]] = @ - 1]
      /\ Goto(g, ret[g])
  BY DEF OInv, Wakes, Semacquire
<1>2. mu[g] \in Mutexes /\ key[mu[g]] \in Nat /\ ret[g] \in DoLabels /\ sema[mu[g]] \in Nat
  BY Zenon, <1>1 DEF OTypes
<1>3. sema[mu[g]] = 1 /\ key[mu[g]] > 0 /\ \A h \in G : ~Has(h, mu[g])
  <2>1. Alone(mu[g])
    BY <1>2 DEF OInv
  <2> QED
    BY ONLY <1>1, <1>2, <2>1 DEF Alone
<1>4. /\ sema' \in [Mutexes -> Nat] /\ sema'[mu[g]] = 0
      /\ \A m \in Mutexes : m # mu[g] => sema'[m] = sema[m]
  BY <1>1, <1>2, <1>3 DEF OTypes
<1>5. pc'[g] = ret[g] /\ (\A h \in G : h # g => Stays(h)) /\ OTypes'
  BY <1>1, <1>2, <1>4, GotoTypes DEF Stays, OTypes
<1>6. Locks(g)
  BY <1>1, Zenon DEF Locks
<1> QED
  BY Zenon, <1>1, <1>2, <1>3, <1>4, <1>5, <1>6, GotMutex

\* g passes the mutex on: it is free, or a unit of its semaphore is there.
LEMMA PassedOn ==
    ASSUME OInv, OTypes', NEW g \in G, Unlocks(g),
           pc'[g] = ret[g], arg' = arg, mu' = mu, ret' = ret,
           \A h \in G : h # g => Stays(h),
           jobs' = jobs, finished' = finished,
           \A m \in Mutexes : m # mu[g] => key'[m] = key[m] /\ sema'[m] = sema[m],
           sema'[mu[g]] = 0 \/ (sema'[mu[g]] = 1 /\ key'[mu[g]] > 0)
    PROVE  OInv'
<1> USE OnceAssumption
<1>1. OTypes /\ CallMatches(g) /\ JobOf(g)
  BY Zenon DEF OInv
<1>2. mu[g] \in Mutexes /\ arg[g] # joblock
  BY <1>1 DEF OTypes
<1>3. \/ mu[g] = joblock /\ ret[g] \in {"call", "check"}
      \/ mu[g] = arg[g] /\ ret[g] = "idle"
  BY <1>1, Zenon DEF CallMatches
<1>4. ~Locks(g)' /\ ~Unlocks(g)' /\ (Calling(g) => Calling(g)')
  <2>1. Calling(g) => ret[g] = "call"
    BY ZenonT(60) DEF Calling, Unlocks
  <2> QED
    BY <1>3, <2>1 DEF Locks, Unlocks, Calling
<1>5. Has(g, mu[g]) /\ ~Has(g, mu[g])'
  BY <1>2, <1>3, <1>4 DEF Has
<1>6. \A m \in Mutexes : Has(g, m)' => Has(g, m)
  BY <1>2, <1>3, <1>4, Zenon DEF Has
<1>7. ASSUME NEW m \in Mutexes PROVE Alone(m)'
  <2>1. CASE m = mu[g]
    <3>1. \A h \in G : ~Has(h, m)'
      <4>1. Alone(m)
        BY DEF OInv
      <4>2. \A h \in G : h # g => ~Has(h, m)
        BY <1>5, <2>1, <4>1, Zenon DEF Alone
      <4> QED
        BY <1>5, <2>1, <4>2, StaysSame, Zenon
    <3>2. sema'[m] = 0 \/ (sema'[m] = 1 /\ key'[m] > 0)
      BY Zenon, <2>1
    <3> QED
      BY ONLY <3>1, <3>2 DEF Alone
  <2>2. CASE m # mu[g]
    BY <1>6, <2>2, MoveAlone DEF OInv
  <2> QED
    BY <2>1, <2>2
<1>8. CallMatches(g)'
  BY <1>4 DEF CallMatches
<1>9. JobOf(g)'
  BY <1>1, <1>3, <1>4, Zenon DEF JobOf, Entering, Calling, Finding, Ending
<1>10. (\A h \in G : CallMatches(h) /\ JobOf(h))' /\ Called'
  BY <1>4, <1>8, <1>9, MoveJobs, Zenon
<1> QED
  BY Zenon, <1>7, <1>10 DEF OInv

LEMMA XaddUnlockPreserves ==
    ASSUME OInv, NEW g \in G, XaddUnlock(g),
           jobs' = jobs, done' = done, arg' = arg, finished' = finished
    PROVE  OInv'
<1>1. /\ OTypes /\ pc[g] = "xadd_unlock" /\ arg' = arg /\ mu' = mu /\ ret' = ret
      /\ sema' = sema /\ jobs' = jobs /\ finished' = finished /\ done' = done
      /\ key' = [key EXCEPT ![mu[g]] = @ - 1]
  BY Zenon DEF OInv, XaddUnlock
<1>2. mu[g] \in Mutexes /\ key[mu[g]] \in Nat /\ ret[g] \in DoLabels
  BY Zenon, <1>1 DEF OTypes
<1>3. Unlocks(g) /\ ~Locks(g)
  BY Zenon, <1>1 DEF Unlocks, Locks
<1>4. key[mu[g]] > 0 /\ sema[mu[g]] = 0
  <2>1. Has(g, mu[g])
    BY Zenon, <1>3 DEF Has
  <2>2. Alone(mu[g])
    BY <1>2 DEF OInv
  <2> QED
    BY Zenon, <2>1, <2>2 DEF Alone
<1>5. /\ key' \in [Mutexes -> Nat] /\ key'[mu[g]] = key[mu[g]] - 1
      /\ \A m \in Mutexes : m # mu[g] => key'[m] = key[m]
  BY <1>1, <1>2, <1>4 DEF OTypes
<1>6. CASE key[mu[g]] - 1 = 0
  <2>1. Goto(g, ret[g])
    BY <1>6 DEF XaddUnlock
  <2>2. pc'[g] = ret[g] /\ (\A h \in G : h # g => Stays(h)) /\ OTypes'
    BY <1>1, <1>2, <1>5, <2>1, GotoTypes DEF Stays, OTypes
  <2> QED
    BY <1>1, <1>3, <1>4, <1>5, <2>2, PassedOn
<1>7. CASE key[mu[g]] - 1 # 0
  <2>1. Goto(g, "semrelease")
    BY <1>7 DEF XaddUnlock
  <2>2. pc'[g] = "semrelease" /\ (\A h \in G : h # g => Stays(h)) /\ OTypes'
    <3>1. "semrelease" \in MutexLabels
      BY DEF MutexLabels
    <3> QED
      BY <1>1, <1>2, <1>5, <2>1, <3>1, GotoTypes DEF Stays, OTypes
  <2>3. Unlocks(g)' /\ ~Locks(g)'
    BY Zenon, <2>2 DEF Unlocks, Locks
  <2>4. CallMatches(g)' /\ JobOf(g)' /\ (Calling(g) => Calling(g)')
    <3>1. CallMatches(g) /\ JobOf(g)
      BY DEF OInv
    <3> QED
      BY Zenon, <1>1, <1>3, <2>2, <2>3, <3>1 DEF CallMatches, JobOf, Entering, Calling, Finding, Ending
  <2>5. \A m \in Mutexes : Has(g, m)' => Has(g, m)
    BY Zenon, <1>1, <1>3, <2>2, <2>3 DEF Has
  <2>6. ASSUME NEW m \in Mutexes PROVE Alone(m)'
    <3>1. CASE m # mu[g]
      BY Zenon, <1>1, <1>5, <2>2, <2>5, <3>1, MoveAlone DEF OInv
    <3>2. CASE m = mu[g]
      <4>1. \A h \in G : Has(h, m)' => Has(h, m)
        BY <2>2, <2>5, StaysSame
      <4>2. key'[m] > 0 /\ sema'[m] = 0
        BY ONLY <1>1, <1>2, <1>4, <1>5, <1>7, <3>2
      <4>3. Alone(m)
        BY DEF OInv
      <4> QED
        BY ONLY <4>1, <4>2, <4>3 DEF Alone
    <3> QED
      BY <3>1, <3>2
  <2>7. (\A h \in G : CallMatches(h) /\ JobOf(h))' /\ Called'
    BY <1>1, <2>2, <2>4, MoveJobs
  <2> QED
    BY <2>2, <2>6, <2>7 DEF OInv
<1> QED
  BY <1>6, <1>7

LEMMA SemreleasePreserves ==
    ASSUME OInv, NEW g \in G, Semrelease(g),
           jobs' = jobs, done' = done, arg' = arg, finished' = finished
    PROVE  OInv'
<1>1. /\ OTypes /\ pc[g] = "semrelease" /\ arg' = arg /\ mu' = mu /\ ret' = ret
      /\ key' = key /\ jobs' = jobs /\ finished' = finished /\ done' = done
      /\ sema' = [sema EXCEPT ![mu[g]] = @ + 1]
      /\ Goto(g, ret[g])
  BY DEF OInv, Semrelease
<1>2. mu[g] \in Mutexes /\ key[mu[g]] \in Nat /\ ret[g] \in DoLabels
  BY <1>1 DEF OTypes
<1>3. Unlocks(g)
  BY <1>1 DEF Unlocks
<1>4. key[mu[g]] > 0 /\ sema[mu[g]] = 0
  <2>1. Has(g, mu[g])
    BY <1>3 DEF Has
  <2>2. Alone(mu[g])
    BY <1>2 DEF OInv
  <2> QED
    BY <2>1, <2>2 DEF Alone
<1>5. /\ sema' \in [Mutexes -> Nat] /\ sema'[mu[g]] = 1
      /\ \A m \in Mutexes : m # mu[g] => sema'[m] = sema[m]
  BY <1>1, <1>2, <1>4 DEF OTypes
<1>6. pc'[g] = ret[g] /\ (\A h \in G : h # g => Stays(h)) /\ OTypes'
  BY <1>1, <1>2, <1>5, GotoTypes DEF Stays, OTypes
<1> QED
  BY Zenon, <1>1, <1>3, <1>4, <1>5, <1>6, PassedOn

\* Every step of once.Do keeps the invariant.
LEMMA OnceNext == OInv /\ [ONext]_vars => OInv'
<1>1. ASSUME OInv, UNCHANGED vars PROVE OInv'
  <2>1. \A h \in G : Stays(h)
    BY <1>1 DEF vars, Stays
  <2>2. OTypes'
    BY <1>1 DEF vars, OInv, OTypes
  <2>3. key' = key /\ sema' = sema /\ jobs' = jobs /\ finished' = finished /\ arg' = arg
    BY <1>1 DEF vars
  <2>4. ASSUME NEW h \in G PROVE CallMatches(h)' /\ JobOf(h)'
    BY <1>1, <2>1, <2>3, StaysSame DEF OInv, JobOf
  <2>5. ASSUME NEW m \in Mutexes PROVE Alone(m)'
    <3>1. \A h \in G : Has(h, m)' <=> Has(h, m)
      BY <2>1, StaysSame
    <3> QED
      BY <1>1, <2>3, <3>1 DEF OInv, Alone
  <2>6. Called'
    BY <1>1, <2>1, <2>3, StaysSame DEF OInv, Called
  <2> QED
    BY <2>2, <2>4, <2>5, <2>6 DEF OInv
<1>2. ASSUME OInv, NEW g \in G, Steps(g) PROVE OInv'
  <2>1. CASE Lookup(g) \/ EnterJob(g) \/ CallF(g) \/ FinishF(g) \/ Check(g) \/ Waited(g)
    BY <1>2, <2>1, LookupPreserves, EnterJobPreserves, CallFPreserves, FinishFPreserves,
       CheckPreserves, WaitedPreserves
  <2>2. CASE (XaddLock(g) \/ XaddUnlock(g) \/ Semrelease(g))
                /\ UNCHANGED <<jobs, done, arg, ran, finished>>
    <3>1. jobs' = jobs /\ done' = done /\ arg' = arg /\ finished' = finished
      BY <2>2
    <3> QED
      BY <1>2, <2>2, <3>1, XaddLockPreserves, XaddUnlockPreserves, SemreleasePreserves
  <2> QED
    BY <1>2, <2>1, <2>2 DEF Steps
<1> QED
  BY <1>1, <1>2, DoPreserves, SemacquirePreserves DEF ONext

-----------------------------------------------------------------------------
LEMMA OnceInvariance == OSpec => []OInv
BY OnceInit, OnceNext, PTL DEF OSpec

\* What a step of Do does to the goroutine that takes it.
LEMMA StepReturns ==
    ASSUME OInv, NEW g \in G, Steps(g) \/ Wakes(g)
    PROVE  /\ pc[g] # "idle" /\ arg' = arg
           /\ \A h \in G : h # g => pc'[h] = pc[h]
           /\ pc'[g] = "idle" => arg[g] \in finished
           /\ IF pc[g] = "running" THEN finished' = finished \cup {arg[g]}
                                   ELSE finished' = finished
<1> USE OnceAssumption
<1>1. OTypes /\ CallMatches(g) /\ JobOf(g)
  BY DEF OInv
<1>2. CASE Lookup(g) \/ EnterJob(g) \/ FinishF(g) \/ Waited(g)
  BY <1>1, <1>2 DEF Lookup, EnterJob, FinishF, Waited, Lock, Unlock, Call, Goto, OTypes
<1>3. CASE CallF(g) \/ Check(g)
  BY <1>1, <1>3 DEF CallF, Check, Lock, Call, Goto, OTypes
<1>4. CASE (XaddLock(g) \/ Wakes(g)) /\ UNCHANGED <<jobs, done, arg, ran, finished>>
  <2>1. Locks(g)
    BY <1>4 DEF XaddLock, Wakes, Semacquire, Locks
  <2>2. ret[g] # "idle"
    BY <1>1, <2>1 DEF CallMatches
  <2> QED
    BY <1>1, <1>4, <2>2 DEF XaddLock, Wakes, Semacquire, Goto, OTypes
<1>5. CASE (XaddUnlock(g) \/ Semrelease(g)) /\ UNCHANGED <<jobs, done, arg, ran, finished>>
  <2>1. Unlocks(g)
    BY <1>5 DEF XaddUnlock, Semrelease, Unlocks
  <2>2. ret[g] = "idle" => arg[g] \in finished
    BY <1>1, <2>1 DEF JobOf, Ending
  <2> QED
    BY <1>1, <1>5, <2>2 DEF XaddUnlock, Semrelease, Goto, OTypes
<1> QED
  BY <1>2, <1>3, <1>4, <1>5, Zenon DEF Steps, Wakes

\* "the others will block until f finishes running" (once.go): no call of Do
\* returns before the function has, for every set of goroutines.
THEOREM DoReturnsAfterFinish == OSpec => ReturnsAfterFinish
<1>1. ASSUME OInv, [ONext]_vars, NEW g \in G, pc[g] # "idle", pc'[g] = "idle"
      PROVE  arg[g] \in finished'
  <2>1. PICK h \in G : (\E f \in Funcs : Do(h, f)) \/ Steps(h) \/ Wakes(h)
    BY <1>1 DEF ONext, vars
  <2>2. ASSUME NEW f \in Funcs, Do(h, f) PROVE FALSE
    <3>1. pc' = [pc EXCEPT ![h] = "xadd_lock"] /\ OTypes
      BY <1>1, <2>2 DEF Do, Lock, Call, Goto, OInv
    <3> QED
      BY <1>1, <3>1 DEF OTypes
  <2>3. Steps(h) \/ Wakes(h)
    BY <2>1, <2>2
  <2>4. g = h
    BY <1>1, <2>3, StepReturns
  <2>5. arg[g] \in finished /\ (finished' = finished \/ finished' = finished \cup {arg[g]})
    BY <1>1, <2>3, <2>4, StepReturns
  <2> QED
    BY <2>5
<1>2. OInv /\ [ONext]_vars =>
        [\A g \in G : pc[g] # "idle" /\ pc'[g] = "idle" => arg[g] \in finished']_vars
  BY <1>1
<1> QED
  BY <1>2, OnceInvariance, PTL DEF OSpec, ReturnsAfterFinish

-----------------------------------------------------------------------------
(***************************************************************************)
(* once.Do starts one tickerLoop, and starts it before NewTicker hands over *)
(* a ticker, for every set of goroutines and of tickers.  NewTicker uses   *)
(* once.Do by its rules, so what is shown of it above holds here.          *)
(***************************************************************************)

\* A step of the tickers is a step of once.Do or leaves it alone.
LEMMA UsesOnce == TNext => [ONext]_vars
<1> SUFFICES ASSUME TNext PROVE [ONext]_vars
  OBVIOUS
<1>1. ASSUME NEW g \in G, OnceStep(g) PROVE ONext
  BY <1>1 DEF OnceStep, ONext
<1>2. ASSUME NEW g \in G, NEW t \in T, NewTicker(g, t) PROVE ONext
  BY <1>2 DEF NewTicker, ONext
<1>3. ASSUME NEW g \in G, SendTicker(g) PROVE UNCHANGED vars
  BY <1>3 DEF SendTicker
<1>4. ASSUME NEW t \in T, Stop(t) \/ Receive(t) PROVE UNCHANGED vars
  BY <1>4 DEF Stop, Receive
<1>5. ASSUME Pass PROVE UNCHANGED vars
  BY <1>5 DEF Pass
<1>6. ASSUME TickerLoop PROVE UNCHANGED vars
  BY <1>6, Zenon DEF TickerLoop, AddTicker, TakeWakeUp, ScanShutdown, ScanTick, EndScan
<1>7. ASSUME NEW k \in 1..Cardinality(T), WakeLoop(k) PROVE UNCHANGED vars
  BY <1>7 DEF WakeLoop, WakeMeAt, WakeUp
<1> QED
  BY <1>1, <1>2, <1>3, <1>4, <1>5, <1>6, <1>7 DEF TNext, Making

\* The goroutines that make tickers use once.Do by its rules, so that nobody
\* returns from Do before startTickerLoop has returned.
THEOREM OnceUsed == TSpec => OSpec
<1>1. TInit => Init
  BY DEF TInit
<1>2. [TNext]_tvars => [ONext]_vars
  BY UsesOnce DEF tvars
<1> QED
  BY <1>1, <1>2, PTL DEF TSpec, OSpec

-----------------------------------------------------------------------------
\* tickerLoop is started by the one call of startTickerLoop; until then every
\* ticker is still in the hands of a NewTicker whose Do has not returned.
LoopInv ==
    /\ DOMAIN tk = T /\ DOMAIN making = G
    /\ (finished = {} /\ loops = 0) \/ (finished = Funcs /\ loops = 1)
    /\ \A g \in G : making[g] # 0 /\ pc[g] = "idle" => finished # {}
    /\ loops = 0 => lp = "off" /\ \A t \in T : tk[t].at \notin {"sent", "listed"} /\ tk[t].c = 0

LEMMA LoopInit == TInit => LoopInv
<1> SUFFICES ASSUME TInit PROVE LoopInv
  OBVIOUS
<1>1. \A t \in T : tk[t] = NoTicker
  BY DEF TInit
<1>2. NoTicker.at = "none" /\ NoTicker.c = 0
  BY DEF NoTicker
<1>3. DOMAIN tk = T /\ DOMAIN making = G /\ (\A g \in G : making[g] = 0)
  BY DEF TInit
<1> QED
  BY <1>1, <1>2, <1>3 DEF TInit, Init, LoopInv

\* Once tickerLoop runs, a step that leaves once.Do and the starting of loops
\* alone keeps the invariant, whatever it does to the tickers.
LEMMA RunningKeeps ==
    ASSUME LoopInv, loops = 1, loops' = loops, finished' = finished,
           DOMAIN tk' = T, DOMAIN making' = G
    PROVE  LoopInv'
<1>1. PICK f0 \in Funcs : Funcs = {f0}
  BY TickerAssumption
<1>2. finished # {}
  BY <1>1 DEF LoopInv
<1> QED
  BY <1>2 DEF LoopInv

\* Whoever returns from startTickerLoop is the first to.
LEMMA StartsOnce ==
    ASSUME OInv, LoopInv, NEW g \in G, pc[g] = "running"
    PROVE  arg[g] \in Funcs /\ arg[g] \notin finished /\ finished = {} /\ loops = 0
<1>1. Calling(g) /\ JobOf(g)
  BY DEF OInv, Calling
<1>2. arg[g] \in Funcs /\ arg[g] \notin finished
  BY Zenon, <1>1 DEF OInv, OTypes, JobOf
<1> QED
  BY <1>2 DEF LoopInv

LEMMA LoopNext == OInv /\ LoopInv /\ [TNext]_tvars => LoopInv'
<1> SUFFICES ASSUME OInv, LoopInv, [TNext]_tvars PROVE LoopInv'
  OBVIOUS
<1> USE OnceAssumption
<1>0. PICK f0 \in Funcs : Funcs = {f0}
  BY Zenon, TickerAssumption
<1>1. CASE UNCHANGED tvars
  BY <1>1 DEF tvars, vars, loopvars, LoopInv
<1>2. ASSUME NEW g \in G, NEW t \in T, NewTicker(g, t) PROVE LoopInv'
  <2>1. /\ loops' = loops /\ finished' = finished /\ lp' = lp
        /\ making' = [making EXCEPT ![g] = t]
    BY <1>2 DEF NewTicker, Do, loopvars
  <2>2. DOMAIN tk' = T /\ \A u \in T : u # t => tk'[u] = tk[u]
    BY <1>2 DEF NewTicker, LoopInv
  <2>3. tk'[t].at = "made" /\ tk'[t].c = 0
    BY <1>2 DEF NewTicker, LoopInv
  <2>4. \A h \in G : making'[h] # 0 /\ pc'[h] = "idle" => making[h] # 0 /\ pc[h] = "idle"
    <3>1. OTypes /\ pc' = [pc EXCEPT ![g] = "xadd_lock"]
      BY <1>2 DEF NewTicker, Do, Lock, Call, Goto, OInv
    <3> QED
      BY <2>1, <3>1 DEF OTypes, LoopInv
  <2> QED
    BY <2>1, <2>2, <2>3, <2>4 DEF LoopInv
<1>3. ASSUME NEW g \in G, OnceStep(g) PROVE LoopInv'
  <2>1. tk' = tk /\ making' = making /\ (Steps(g) \/ Wakes(g))
    BY <1>3 DEF OnceStep
  <2>2. /\ \A h \in G : h # g => pc'[h] = pc[h]
        /\ pc'[g] = "idle" => finished # {}
    BY <2>1, StepReturns
  <2>3. CASE pc[g] = "running"
    <3>1. finished' = finished \cup {arg[g]} /\ loops' = loops + 1
      BY <1>3, <2>1, <2>3, StepReturns DEF OnceStep
    <3>2. arg[g] \in Funcs /\ arg[g] \notin finished
      BY Zenon, <2>3, StartsOnce
    <3>3. finished = {} /\ loops = 0
      BY Zenon, <2>3, StartsOnce
    <3>4. finished' = Funcs /\ loops' = 1
      BY <1>0, <3>1, <3>2, <3>3
    <3>5. finished' # {} /\ loops' # 0
      BY <3>2, <3>4
    <3>6. DOMAIN tk' = T /\ DOMAIN making' = G
      BY Zenon, <2>1 DEF LoopInv
    <3> QED
      BY ONLY SMTT(30), <3>4, <3>5, <3>6 DEF LoopInv
  <2>4. CASE pc[g] # "running"
    <3>1. finished' = finished /\ loops' = loops /\ lp' = lp
      BY <1>3, <2>1, <2>4, StepReturns DEF OnceStep
    <3>2. DOMAIN tk' = T /\ DOMAIN making' = G
      BY Zenon, <2>1 DEF LoopInv
    <3>3. \A h \in G : making'[h] # 0 /\ pc'[h] = "idle" => finished' # {}
      BY Zenon, <2>1, <2>2, <3>1 DEF LoopInv
    <3> QED
      BY Zenon, <2>1, <3>1, <3>2, <3>3 DEF LoopInv
  <2> QED
    BY <2>3, <2>4
<1>4. ASSUME NEW g \in G, SendTicker(g) PROVE LoopInv'
  <2>1. loops = 1
    BY <1>4 DEF SendTicker, LoopInv
  <2>2. loops' = loops /\ finished' = finished /\ DOMAIN tk' = T /\ DOMAIN making' = G
    BY <1>4 DEF SendTicker, LoopInv, vars
  <2> QED
    BY <2>1, <2>2, RunningKeeps
<1>5. ASSUME NEW t \in T, Stop(t) \/ Receive(t) PROVE LoopInv'
  <2>1. loops = 1
    BY <1>5 DEF Stop, Receive, LoopInv
  <2>2. loops' = loops /\ finished' = finished /\ DOMAIN tk' = T /\ DOMAIN making' = G
    BY <1>5 DEF Stop, Receive, LoopInv, vars
  <2> QED
    BY <2>1, <2>2, RunningKeeps
<1>6. ASSUME Pass PROVE LoopInv'
  BY <1>6 DEF Pass, vars, loopvars, LoopInv
<1>7. ASSUME TickerLoop PROVE LoopInv'
  <2>1. lp \in {"select", "scan", "tick"}
    BY <1>7, Zenon DEF TickerLoop, AddTicker, TakeWakeUp, ScanShutdown, ScanTick, EndScan
  <2>2. loops = 1
    BY <2>1 DEF LoopInv
  <2>3. loops' = loops /\ finished' = finished /\ making' = making
    BY <1>7, Zenon DEF TickerLoop, AddTicker, TakeWakeUp, ScanShutdown, ScanTick, EndScan, vars
  <2>4. DOMAIN tk' = T
    BY ZenonT(60), <1>7 DEF TickerLoop, AddTicker, TakeWakeUp, ScanShutdown, ScanTick, EndScan, LoopInv
  <2> QED
    BY <2>2, <2>3, <2>4, RunningKeeps DEF LoopInv
<1>8. ASSUME NEW k \in 1..Cardinality(T), WakeLoop(k) PROVE LoopInv'
  BY <1>8 DEF WakeLoop, WakeMeAt, WakeUp, vars, loopvars, LoopInv
<1> QED
  BY <1>1, <1>2, <1>3, <1>4, <1>5, <1>6, <1>7, <1>8 DEF TNext, Making

\* However many goroutines make their first ticker at once, NewTicker sends it
\* to a newTicker that startTickerLoop has made, and one tickerLoop serves all.
THEOREM OneLoopStarted == TSpec => []LoopStarted
<1>1. LoopInv => LoopStarted
  BY DEF LoopInv, LoopStarted
<1> QED
  BY <1>1, LoopInit, LoopNext, OnceUsed, OnceInvariance, PTL DEF TSpec

-----------------------------------------------------------------------------
(***************************************************************************)
(* The phase of the ticks.  That nextTick is a whole number of periods     *)
(* after NewTicker is kept by Advanced; that a scan leaves it in the       *)
(* future by one period at most needs to know that it was not further      *)
(* ahead before (a ticker is never made, and never advanced, beyond one    *)
(* period after the clock), that the scan passes each ticker of the list   *)
(* once though it removes some on the way, and that now and prevTime       *)
(* agree between scans.                                                    *)
(***************************************************************************)
Live(t) == tk[t].at \in {"made", "sent", "listed"}

\* nextTick is a whole number of periods after the making of the ticker.
OnPhase(t) == \E k \in Int : tk[t].nextTick = tk[t].born + k * t

Listed(t) == tk[t].at = "listed"

TickerRecord ==
    [at : {"none", "made", "sent", "listed", "removed"}, born : Int, nextTick : Int,
     c : Int, shutdown : BOOLEAN]

TickTypes ==
    /\ tk \in [T -> TickerRecord]
    /\ making \in [G -> T \cup {0}]
    /\ list \in Seq(T) /\ cur \in Nat /\ seen \subseteq T
    /\ clock \in Int /\ now \in Int /\ prevTime \in Int
    /\ lp \in {"off", "select", "scan", "tick"}

\* The list holds each listed ticker once; a ticker that is being made has one
\* maker; only listed tickers are scanned.
ListExact ==
    /\ \A i, j \in 1..Len(list) : list[i] = list[j] => i = j
    /\ \A t \in T : Listed(t) <=> \E i \in 1..Len(list) : list[i] = t
    /\ \A g \in G : making[g] # 0 => tk[making[g]].at = "made"
    /\ \A g, h \in G : making[g] # 0 /\ making[g] = making[h] => g = h
    /\ \A t \in seen : tk[t].at \in {"listed", "removed"}

\* The times of tickerLoop, and how far ahead a ticker may be: one period
\* after the clock, and during a scan one period after now.
Times ==
    /\ prevTime <= now /\ now <= clock
    /\ lp \in {"off", "select"} => now = prevTime
    /\ \A t \in T : Live(t) => tk[t].nextTick <= clock + t /\ OnPhase(t)

Scanning ==
    /\ lp \in {"scan", "tick"} =>
          /\ cur >= 1 /\ (lp = "tick" => cur <= Len(list))
          /\ \A t \in T : Listed(t) => tk[t].nextTick <= now + t
          /\ \A i \in 1..Len(list) : i < cur => tk[list[i]].nextTick > now
    /\ lp = "select" => \A t \in seen : Listed(t) =>
          tk[t].nextTick > prevTime /\ tk[t].nextTick <= prevTime + t

PInv == TickTypes /\ ListExact /\ Times /\ Scanning

-----------------------------------------------------------------------------
\* Division by a period.
LEMMA Quotient ==
    ASSUME NEW a \in Nat, NEW n \in Nat \ {0}
    PROVE  /\ a \div n \in Int
           /\ (a \div n) * n <= a /\ a < (a \div n) * n + n
OBVIOUS

\* A whole number of periods leaves no remainder.
LEMMA Multiple ==
    ASSUME NEW k \in Int, NEW n \in Nat \ {0}
    PROVE  (k * n) % n = 0
OBVIOUS

\* The next tick of a ticker that is due lies after now, by one period at
\* most, and is a whole number of periods later.
LEMMA AdvancedIs ==
    ASSUME NEW next \in Int, NEW n \in Nat \ {0}, now \in Int, next <= now
    PROVE  /\ Advanced(next, n) \in Int /\ Advanced(next, n) > now /\ Advanced(next, n) <= now + n
           /\ \E k \in Int : Advanced(next, n) = next + k * n
<1>1. CASE next + n <= now
  <2>1. PICK a \in Nat : a = now - (next + n) + n
    BY <1>1
  <2>2. PICK q \in Int : q = a \div n /\ q * n <= a /\ a < q * n + n
    BY <2>1, Quotient
  <2>3. Advanced(next, n) = next + n + q * n
    BY <1>1, <2>1, <2>2 DEF Advanced
  <2>4. q * n \in Int /\ next + n + q * n = next + (q + 1) * n
    BY <2>2
  <2>5. \E k \in Int : next + n + q * n = next + k * n
    BY <2>4
  <2> QED BY <2>1, <2>2, <2>3, <2>4, <2>5
<1>2. CASE ~(next + n <= now)
  <2>1. Advanced(next, n) = next + n
    BY <1>2 DEF Advanced
  <2>2. next + n = next + 1 * n
    OBVIOUS
  <2> QED BY <1>2, <2>1, <2>2
<1> QED BY <1>1, <1>2

\* Nothing is made or listed at the start.
LEMMA PhaseInit == TInit => PInv
<1> SUFFICES ASSUME TInit PROVE PInv
  OBVIOUS
<1>1. tk = [t \in T |-> NoTicker] /\ making = [g \in G |-> 0] /\ list = <<>> /\ cur = 0 /\ seen = {}
      /\ clock = 0 /\ now = 0 /\ prevTime = 0 /\ lp = "off"
  BY DEF TInit
<1>2. \A t \in T : tk[t].at = "none"
  BY <1>1 DEF NoTicker
<1>3. TickTypes
  <2>1. NoTicker \in TickerRecord
    BY DEF NoTicker, TickerRecord
  <2> QED BY <1>1, <2>1 DEF TickTypes
<1>4. ListExact
  BY <1>1, <1>2 DEF ListExact, Listed
<1> QED BY <1>1, <1>2, <1>3, <1>4 DEF PInv, Times, Scanning, Live

\* Steps that change no ticker but for its channel and its shutdown, and of
\* the times only the clock.
LEMMA PhaseKeeps ==
    ASSUME PInv, tk' \in [T -> TickerRecord],
           \A t \in T : tk'[t].at = tk[t].at /\ tk'[t].born = tk[t].born /\ tk'[t].nextTick = tk[t].nextTick,
           clock' \in Int, clock' >= clock,
           making' = making, list' = list, cur' = cur, seen' = seen, now' = now, prevTime' = prevTime,
           lp' = lp \/ (lp = "off" /\ lp' = "select" /\ \A t \in T : ~Listed(t))
    PROVE  PInv'
<1>1. TickTypes'
  BY DEF PInv, TickTypes
<1>2. (\A t \in T : Listed(t)' = Listed(t)) /\ (\A t \in T : Live(t)' = Live(t))
  BY DEF Listed, Live
<1>3. ListExact'
  BY <1>2 DEF PInv, TickTypes, ListExact
<1>4. \A t \in T : OnPhase(t)' = OnPhase(t)
  BY DEF OnPhase
<1>5. Times'
  <2>1. \A t \in T : tk[t].nextTick \in Int /\ t \in Int
    BY TickerAssumption DEF PInv, TickTypes, TickerRecord
  <2>2. clock \in Int /\ \A t \in T : Live(t) => tk[t].nextTick <= clock + t
    BY Zenon DEF PInv, Times, TickTypes
  <2>3. \A t \in T : Live(t) => tk'[t].nextTick <= clock' + t
    BY <2>1, <2>2
  <2>4. prevTime' <= now' /\ now' <= clock'
    BY DEF PInv, Times, TickTypes
  <2> QED BY Zenon, <1>2, <1>4, <2>3, <2>4 DEF PInv, Times, TickTypes
<1>6. Scanning'
  <2>1. (\A i \in 1..Len(list) : list[i] \in T) /\ \A t \in seen : t \in T
    BY DEF PInv, TickTypes
  <2>2. CASE lp' = lp
    BY Zenon, <1>2, <2>1, <2>2 DEF PInv, Scanning
  <2>3. CASE lp' = "select" /\ \A t \in T : ~Listed(t)
    <3>1. lp' \notin {"scan", "tick"} /\ \A t \in seen : ~Listed(t)'
      BY <1>2, <2>1, <2>3
    <3> QED BY Zenon, <3>1 DEF Scanning
  <2> QED BY Zenon, <2>2, <2>3
<1> QED BY <1>1, <1>3, <1>5, <1>6 DEF PInv

\* Stop and a receive from the channel of the ticker.
LEMMA StopPhase == ASSUME PInv, NEW t \in T, Stop(t) PROVE PInv'
<1>0. PICK u : u = [tk[t] EXCEPT !.shutdown = TRUE]
  BY Zenon
<1>1. tk' = [tk EXCEPT ![t] = u] /\ tk \in [T -> TickerRecord]
  BY <1>0 DEF Stop, PInv, TickTypes
<1>2. u \in TickerRecord /\ u.at = tk[t].at /\ u.born = tk[t].born /\ u.nextTick = tk[t].nextTick
  BY Zenon, <1>0, <1>1 DEF TickerRecord
<1>3. /\ clock' = clock /\ making' = making /\ list' = list /\ cur' = cur /\ seen' = seen
      /\ now' = now /\ prevTime' = prevTime /\ lp' = lp
  BY DEF Stop, loopvars
<1>4. tk' \in [T -> TickerRecord]
  BY Zenon, <1>1, <1>2
<1>5. \A x \in T : tk'[x].at = tk[x].at /\ tk'[x].born = tk[x].born /\ tk'[x].nextTick = tk[x].nextTick
  BY Zenon, <1>1, <1>2
<1>6. clock' \in Int /\ clock' >= clock
  BY <1>3 DEF PInv, TickTypes
<1> QED BY <1>3, <1>4, <1>5, <1>6, PhaseKeeps

LEMMA ReceivePhase == ASSUME PInv, NEW t \in T, Receive(t) PROVE PInv'
<1>0. PICK u : u = [tk[t] EXCEPT !.c = 0]
  BY Zenon
<1>1. tk' = [tk EXCEPT ![t] = u] /\ tk \in [T -> TickerRecord]
  BY <1>0 DEF Receive, PInv, TickTypes
<1>2. u \in TickerRecord /\ u.at = tk[t].at /\ u.born = tk[t].born /\ u.nextTick = tk[t].nextTick
  BY <1>0, <1>1 DEF TickerRecord
<1>3. /\ clock' = clock /\ making' = making /\ list' = list /\ cur' = cur /\ seen' = seen
      /\ now' = now /\ prevTime' = prevTime /\ lp' = lp
  BY DEF Receive, loopvars
<1>4. tk' \in [T -> TickerRecord]
  BY Zenon, <1>1, <1>2
<1>5. \A x \in T : tk'[x].at = tk[x].at /\ tk'[x].born = tk[x].born /\ tk'[x].nextTick = tk[x].nextTick
  BY Zenon, <1>1, <1>2
<1>6. clock' \in Int /\ clock' >= clock
  BY <1>3 DEF PInv, TickTypes
<1> QED BY <1>3, <1>4, <1>5, <1>6, PhaseKeeps

\* The clock, the wakeLoops and the steps of once.Do that start no loop.
LEMMA OtherPhase ==
    ASSUME PInv, tk' = tk, clock' = clock \/ clock' = clock + 1,
           making' = making, list' = list, cur' = cur, seen' = seen, now' = now, prevTime' = prevTime,
           lp' = lp \/ (lp = "off" /\ lp' = "select" /\ \A t \in T : ~Listed(t))
    PROVE  PInv'
<1>1. clock' \in Int /\ clock' >= clock
  BY DEF PInv, TickTypes
<1> QED BY <1>1, PhaseKeeps DEF PInv, TickTypes

\* The steps of NewTicker.
LEMMA NewTickerPhase == ASSUME PInv, NEW g \in G, NEW t \in T, NewTicker(g, t) PROVE PInv'
<1>0. t \in Nat \ {0} /\ T \subseteq Nat \ {0}
  BY TickerAssumption
<1>1. /\ making' = [making EXCEPT ![g] = t] /\ making[g] = 0 /\ tk[t].at = "none"
      /\ tk' = [tk EXCEPT ![t] =
          [at |-> "made", born |-> clock, nextTick |-> clock + t, c |-> 0, shutdown |-> FALSE]]
  BY DEF NewTicker
<1>2. /\ clock' = clock /\ list' = list /\ cur' = cur /\ seen' = seen
      /\ now' = now /\ prevTime' = prevTime /\ lp' = lp
  BY DEF NewTicker, loopvars
<1>3. /\ tk'[t].at = "made" /\ tk'[t].born = clock /\ tk'[t].nextTick = clock + t
      /\ \A u \in T : u # t => tk'[u] = tk[u]
  BY <1>1 DEF PInv, TickTypes
<1>4. clock \in Int /\ clock + t \in Int
  BY <1>0 DEF PInv, TickTypes
<1>5. TickTypes'
  <2>1. tk'[t] \in TickerRecord
    BY <1>1, <1>4 DEF PInv, TickTypes, TickerRecord
  <2>2. tk' \in [T -> TickerRecord]
    BY Zenon, <1>1, <2>1 DEF PInv, TickTypes
  <2> QED BY Zenon, <1>1, <1>2, <2>2 DEF PInv, TickTypes
<1>6. \A u \in T : Listed(u)' = Listed(u)
  BY Zenon, <1>1, <1>3 DEF Listed
<1>7. ListExact'
  <2>1. \A h \in G : making'[h] = (IF h = g THEN t ELSE making[h])
    BY <1>1 DEF PInv, TickTypes
  <2>2. \A h \in G : making[h] # 0 => making[h] \in T /\ making[h] # t /\ tk[making[h]].at = "made"
    BY ZenonT(60), <1>1 DEF PInv, TickTypes, ListExact
  <2>3. \A h \in G : making'[h] # 0 => tk'[making'[h]].at = "made"
    BY Zenon, <1>3, <2>1, <2>2
  <2>4. \A h, j \in G : making'[h] # 0 /\ making'[h] = making'[j] => h = j
    BY <1>0, <2>1, <2>2 DEF PInv, ListExact
  <2>5. \A u \in seen : tk'[u].at \in {"listed", "removed"}
    BY <1>1, <1>3 DEF PInv, ListExact, TickTypes
  <2> QED BY <1>2, <1>6, <2>3, <2>4, <2>5 DEF PInv, ListExact, TickTypes
<1>8. Times'
  <2>1. OnPhase(t)'
    <3>1. clock + t = clock + 1 * t
      BY <1>0
    <3> QED BY <1>3, <3>1 DEF OnPhase
  <2>2. \A u \in T : u # t => OnPhase(u)' = OnPhase(u) /\ Live(u)' = Live(u)
    BY <1>3 DEF OnPhase, Live
  <2>3. tk'[t].nextTick <= clock' + t
    BY <1>2, <1>3, <1>4
  <2> QED BY Zenon, <1>2, <1>3, <2>1, <2>2, <2>3 DEF PInv, Times
<1>9. Scanning'
  <2>1. \A i \in 1..Len(list) : list[i] \in T
    BY DEF PInv, TickTypes
  <2>2. \A i \in 1..Len(list) : list[i] # t
    BY Zenon, <1>1, <2>1 DEF PInv, ListExact, Listed
  <2> QED BY Zenon, <1>1, <1>2, <1>3, <1>6, <2>1, <2>2 DEF PInv, Scanning, TickTypes, Listed
<1> QED BY <1>5, <1>7, <1>8, <1>9 DEF PInv

LEMMA SendPhase == ASSUME PInv, NEW g \in G, SendTicker(g) PROVE PInv'
<1>1. /\ tk' = [tk EXCEPT ![making[g]].at = "sent"] /\ making[g] # 0
      /\ making' = [making EXCEPT ![g] = 0]
  BY DEF SendTicker
<1>2. /\ clock' = clock /\ list' = list /\ cur' = cur /\ seen' = seen
      /\ now' = now /\ prevTime' = prevTime /\ lp' = lp
  BY DEF SendTicker, loopvars
<1>3. PICK t \in T : t = making[g] /\ tk[t].at = "made"
  BY <1>1 DEF PInv, TickTypes, ListExact
<1>4. PICK v : v = [tk[t] EXCEPT !.at = "sent"]
  BY Zenon
<1>5. tk' = [tk EXCEPT ![t] = v] /\ tk \in [T -> TickerRecord]
  BY <1>1, <1>3, <1>4 DEF PInv, TickTypes
<1>6. v \in TickerRecord /\ v.at = "sent" /\ v.born = tk[t].born /\ v.nextTick = tk[t].nextTick
  BY <1>4, <1>5 DEF TickerRecord
<1>7. /\ tk'[t].at = "sent" /\ tk'[t].born = tk[t].born /\ tk'[t].nextTick = tk[t].nextTick
      /\ \A u \in T : u # t => tk'[u] = tk[u]
  BY Zenon, <1>5, <1>6
<1>8. TickTypes'
  BY Zenon, <1>1, <1>2, <1>5, <1>6 DEF PInv, TickTypes
<1>9. \A u \in T : Listed(u)' = Listed(u)
  <2>1. Listed(t)' = Listed(t)
    BY ONLY <1>3, <1>7 DEF Listed
  <2>2. \A u \in T : u # t => Listed(u)' = Listed(u)
    BY ZenonT(60), <1>7 DEF Listed
  <2> QED BY Zenon, <2>1, <2>2
<1>10. ListExact'
  <2>1. \A h \in G : making'[h] = (IF h = g THEN 0 ELSE making[h])
    BY <1>1 DEF PInv, TickTypes
  <2>2. \A h \in G : making'[h] # 0 => h # g /\ making[h] \in T /\ making[h] # t /\ tk[making[h]].at = "made"
    <3>1. \A h \in G : making[h] # 0 => making[h] \in T /\ tk[making[h]].at = "made"
      BY Zenon DEF PInv, TickTypes, ListExact
    <3>2. \A h \in G : making[h] = making[g] => h = g
      BY Zenon, <1>1 DEF PInv, ListExact
    <3> QED BY Zenon, <1>3, <2>1, <3>1, <3>2
  <2>3. \A h \in G : making'[h] # 0 => tk'[making'[h]].at = "made"
    BY Zenon, <1>7, <2>1, <2>2
  <2>4. \A h, j \in G : making'[h] # 0 /\ making'[h] = making'[j] => h = j
    <3>1. \A h, j \in G : making[h] # 0 /\ making[h] = making[j] => h = j
      BY Zenon DEF PInv, ListExact
    <3> QED BY ONLY <2>1, <3>1
  <2>5. \A u \in seen : tk'[u].at \in {"listed", "removed"}
    <3>1. \A u \in seen : u \in T /\ tk[u].at \in {"listed", "removed"}
      BY Zenon DEF PInv, ListExact, TickTypes
    <3> QED BY <1>3, <1>7, <3>1
  <2> QED BY <1>2, <1>9, <2>3, <2>4, <2>5 DEF PInv, ListExact, TickTypes
<1>11. Times'
  <2>1. \A u \in T : OnPhase(u)' = OnPhase(u) /\ Live(u)' = Live(u) /\ tk'[u].nextTick = tk[u].nextTick
    BY <1>3, <1>7 DEF OnPhase, Live
  <2> QED BY Zenon, <1>2, <2>1 DEF PInv, Times
<1>12. Scanning'
  <2>1. \A u \in T : tk'[u].nextTick = tk[u].nextTick
    BY <1>3, <1>7
  <2>2. \A i \in 1..Len(list) : list[i] \in T
    BY DEF PInv, TickTypes
  <2> QED BY Zenon, <1>2, <1>9, <2>1, <2>2 DEF PInv, Scanning, TickTypes
<1> QED BY <1>8, <1>10, <1>11, <1>12 DEF PInv

\* The steps of tickerLoop.
LEMMA AddPhase == ASSUME PInv, NEW t \in T, AddTicker(t) PROVE PInv'
<1>1. /\ lp = "select" /\ tk[t].at = "sent" /\ tk' = [tk EXCEPT ![t].at = "listed"]
      /\ list' = <<t>> \o list /\ prevTime' = now
  BY DEF AddTicker
<1>2. /\ clock' = clock /\ making' = making /\ cur' = cur /\ seen' = seen /\ now' = now /\ lp' = lp
  BY DEF AddTicker
<1>3. PICK v : v = [tk[t] EXCEPT !.at = "listed"]
  BY Zenon
<1>4. tk' = [tk EXCEPT ![t] = v] /\ tk \in [T -> TickerRecord]
  BY <1>1, <1>3 DEF PInv, TickTypes
<1>5. v \in TickerRecord /\ v.at = "listed" /\ v.born = tk[t].born /\ v.nextTick = tk[t].nextTick
  BY <1>3, <1>4 DEF TickerRecord
<1>6. /\ tk'[t].at = "listed" /\ (\A u \in T : u # t => tk'[u] = tk[u])
      /\ \A u \in T : tk'[u].born = tk[u].born /\ tk'[u].nextTick = tk[u].nextTick
  BY Zenon, <1>4, <1>5
<1>7. prevTime' = prevTime
  BY <1>1 DEF PInv, Times
<1>8. /\ list' \in Seq(T) /\ Len(list') = Len(list) + 1 /\ Len(list) \in Nat /\ list'[1] = t
      /\ \A i \in 2..Len(list') : i - 1 \in 1..Len(list) /\ list'[i] = list[i - 1]
      /\ \A i \in 1..Len(list) : list'[i + 1] = list[i] /\ i + 1 \in 1..Len(list')
  <2>1. list \in Seq(T) /\ <<t>> \in Seq(T)
    BY DEF PInv, TickTypes
  <2> QED BY <1>1, <2>1
<1>9. TickTypes'
  BY Zenon, <1>2, <1>4, <1>5, <1>7, <1>8 DEF PInv, TickTypes
<1>10. \A i \in 1..Len(list) : list[i] \in T /\ list[i] # t
  <2>1. \A i \in 1..Len(list) : list[i] \in T
    BY DEF PInv, TickTypes
  <2> QED BY Zenon, <1>1, <2>1 DEF PInv, ListExact, Listed
<1>11. ListExact'
  <2>1. \A i, j \in 1..Len(list') : list'[i] = list'[j] => i = j
    <3> SUFFICES ASSUME NEW i \in 1..Len(list'), NEW j \in 1..Len(list'), list'[i] = list'[j]
                 PROVE  i = j
      OBVIOUS
    <3>1. (i = 1 \/ i \in 2..Len(list')) /\ (j = 1 \/ j \in 2..Len(list'))
      BY <1>8
    <3>2. i \in Int /\ j \in Int
      OBVIOUS
    <3>3. CASE i = 1 \/ j = 1
      BY Zenon, <1>8, <1>10, <3>1, <3>3
    <3>4. CASE i \in 2..Len(list') /\ j \in 2..Len(list')
      <4>1. i - 1 \in 1..Len(list) /\ j - 1 \in 1..Len(list) /\ list[i - 1] = list[j - 1]
        BY Zenon, <1>8, <3>4
      <4>2. \A k, l \in 1..Len(list) : list[k] = list[l] => k = l
        BY DEF PInv, ListExact
      <4>3. i - 1 = j - 1
        BY Zenon, <4>1, <4>2
      <4> QED BY <3>2, <4>3
    <3> QED BY <3>1, <3>3, <3>4
  <2>2. \A u \in T : Listed(u)' <=> \E i \in 1..Len(list') : list'[i] = u
    <3>1. \A u \in T : (\E i \in 1..Len(list') : list'[i] = u) <=> u = t \/ \E i \in 1..Len(list) : list[i] = u
      <4>1. 1 \in 1..Len(list') /\ \A i \in 1..Len(list') : i = 1 \/ i \in 2..Len(list')
        BY <1>8
      <4> QED BY ZenonT(60), <1>8, <4>1
    <3>2. \A u \in T : Listed(u)' <=> u = t \/ Listed(u)
      BY Zenon, <1>1, <1>6 DEF Listed
    <3>3. \A u \in T : Listed(u) <=> \E i \in 1..Len(list) : list[i] = u
      BY DEF PInv, ListExact
    <3> QED BY Zenon, <3>1, <3>2, <3>3
  <2>3. \A h \in G : making'[h] # 0 => tk'[making'[h]].at = "made"
    BY Zenon, <1>1, <1>2, <1>6 DEF PInv, ListExact, TickTypes
  <2>4. \A u \in seen' : tk'[u].at \in {"listed", "removed"}
    BY Zenon, <1>2, <1>6 DEF PInv, ListExact, TickTypes
  <2> QED BY Zenon, <1>2, <2>1, <2>2, <2>3, <2>4 DEF PInv, ListExact
<1>12. Times'
  <2>1. \A u \in T : OnPhase(u) => OnPhase(u)'
    BY Zenon, <1>6 DEF OnPhase
  <2>2. \A u \in T : Live(u)' => Live(u)
    BY Zenon, <1>1, <1>6 DEF Live
  <2> QED BY Zenon, <1>2, <1>6, <1>7, <2>1, <2>2 DEF PInv, Times
<1>13. Scanning'
  <2>1. t \notin seen
    BY <1>1 DEF PInv, ListExact
  <2>2. \A u \in seen : u \in T /\ (Listed(u)' => Listed(u))
    BY Zenon, <1>6, <2>1 DEF Listed, PInv, TickTypes
  <2>3. lp' = "select" /\ "select" \notin {"scan", "tick"}
    BY <1>1, <1>2
  <2> QED BY Zenon, <1>1, <1>2, <1>6, <1>7, <2>2, <2>3 DEF PInv, Scanning
<1> QED BY Zenon, <1>9, <1>11, <1>12, <1>13 DEF PInv

LEMMA WakeUpPhase == ASSUME PInv, TakeWakeUp PROVE PInv'
<1>1. /\ lp = "select" /\ now' = clock /\ lp' = "scan" /\ cur' = 1
  <2>1. ~(clock < prevTime)
    BY DEF PInv, Times, TickTypes
  <2> QED BY <2>1 DEF TakeWakeUp
<1>2. tk' = tk /\ clock' = clock /\ making' = making /\ list' = list /\ seen' = seen /\ prevTime' = prevTime
  BY DEF TakeWakeUp
<1>3. TickTypes'
  BY <1>1, <1>2 DEF PInv, TickTypes
<1>4. ListExact'
  BY <1>2 DEF PInv, ListExact, Listed
<1>5. Times'
  <2>1. prevTime' <= now' /\ now' <= clock'
    BY <1>1, <1>2 DEF PInv, Times, TickTypes
  <2> QED BY Zenon, <1>1, <1>2, <2>1 DEF PInv, Times, Live, OnPhase
<1>6. Scanning'
  <2>1. \A t \in T : Listed(t) => tk[t].nextTick <= clock + t
    BY Zenon DEF PInv, Times, Listed, Live
  <2>2. cur' >= 1 /\ lp' # "tick" /\ lp' # "select" /\ \A i \in 1..Len(list) : ~(i < cur')
    BY <1>1
  <2> QED BY Zenon, <1>1, <1>2, <2>1, <2>2 DEF Scanning, Listed
<1> QED BY Zenon, <1>3, <1>4, <1>5, <1>6 DEF PInv

LEMMA ShutdownPhase == ASSUME PInv, ScanShutdown PROVE PInv'
<1>1. lp = "scan" /\ cur <= Len(list) /\ cur \in 1..Len(list)
  BY DEF ScanShutdown, PInv, Scanning, TickTypes
<1>2. /\ clock' = clock /\ making' = making /\ cur' = cur /\ seen' = seen /\ now' = now /\ prevTime' = prevTime
  BY DEF ScanShutdown
<1>3. CASE ~tk[list[cur]].shutdown
  <2>1. lp' = "tick" /\ list' = list /\ tk' = tk
    BY <1>3 DEF ScanShutdown
  <2>2. TickTypes' /\ ListExact'
    BY <1>2, <2>1 DEF PInv, TickTypes, ListExact, Listed
  <2>3. Times'
    BY <1>1, <1>2, <2>1 DEF PInv, Times, Live, OnPhase
  <2>4. Scanning'
    BY <1>1, <1>2, <2>1 DEF PInv, Scanning, Listed
  <2> QED BY <2>2, <2>3, <2>4 DEF PInv
<1>4. CASE tk[list[cur]].shutdown
  <2>1. PICK t \in T : t = list[cur] /\ Listed(t)
    <3>1. list[cur] \in T
      BY <1>1 DEF PInv, TickTypes
    <3> QED BY Zenon, <1>1, <3>1 DEF PInv, ListExact
  <2>2. /\ list' = [i \in 1..(Len(list) - 1) |-> IF i < cur THEN list[i] ELSE list[i + 1]] /\ lp' = lp
        /\ tk' = [tk EXCEPT ![t] = [NoTicker EXCEPT !.at = "removed"]]
    BY Zenon, <1>4, <2>1 DEF ScanShutdown
  <2>3. PICK v : v = [NoTicker EXCEPT !.at = "removed"]
    BY Zenon
  <2>4. v \in TickerRecord /\ v.at = "removed"
    <3>1. v = [at |-> "removed", born |-> 0, nextTick |-> 0, c |-> 0, shutdown |-> FALSE]
      BY Zenon, <2>3 DEF NoTicker
    <3> QED BY <3>1 DEF TickerRecord
  <2>5. tk' = [tk EXCEPT ![t] = v] /\ tk \in [T -> TickerRecord]
    BY Zenon, <2>2, <2>3 DEF PInv, TickTypes
  <2>6. tk'[t].at = "removed" /\ \A u \in T : u # t => tk'[u] = tk[u]
    BY Zenon, <2>4, <2>5
  <2>7. /\ list' \in Seq(T) /\ Len(list') = Len(list) - 1 /\ Len(list) \in Nat
        /\ \A i \in 1..Len(list') : list'[i] = IF i < cur THEN list[i] ELSE list[i + 1]
    <3>1. list \in Seq(T) /\ Len(list) \in Nat /\ Len(list) - 1 \in Nat
      BY <1>1 DEF PInv, TickTypes
    <3>2. \A i \in 1..(Len(list) - 1) : (IF i < cur THEN list[i] ELSE list[i + 1]) \in T
      BY <1>1, <3>1
    <3> QED BY <2>2, <3>1, <3>2
  <2>8. TickTypes'
    BY Zenon, <1>2, <2>2, <2>4, <2>5, <2>7 DEF PInv, TickTypes
  <2>9. /\ \A i \in 1..Len(list') : \E k \in 1..Len(list) :
              list'[i] = list[k] /\ k # cur /\ k = IF i < cur THEN i ELSE i + 1
        /\ \A k \in 1..Len(list) : k # cur => \E i \in 1..Len(list') : list'[i] = list[k]
    <3>1. \A i \in 1..Len(list') : /\ i < cur => i \in 1..Len(list) /\ i # cur
                                   /\ ~(i < cur) => i + 1 \in 1..Len(list) /\ i + 1 # cur
      BY <1>1, <2>7
    <3>2. \A k \in 1..Len(list) : /\ k < cur => k \in 1..Len(list') /\ list'[k] = list[k]
                                  /\ k > cur => k - 1 \in 1..Len(list') /\ list'[k - 1] = list[k]
      BY SMTT(30), <1>1, <2>7
    <3>3. \A k \in 1..Len(list) : k # cur => k < cur \/ k > cur
      BY <1>1
    <3>4. \A k \in 1..Len(list) : k # cur => \E i \in 1..Len(list') : list'[i] = list[k]
      BY Zenon, <3>2, <3>3
    <3>5. \A i \in 1..Len(list') : \E k \in 1..Len(list) :
              list'[i] = list[k] /\ k # cur /\ k = IF i < cur THEN i ELSE i + 1
      BY <2>7, <3>1
    <3> QED BY Zenon, <3>4, <3>5
  <2>10. \A k \in 1..Len(list) : list[k] = t => k = cur
    BY Zenon, <1>1, <2>1 DEF PInv, ListExact
  <2>11. ListExact'
    <3>1. \A i, j \in 1..Len(list') : list'[i] = list'[j] => i = j
      <4> SUFFICES ASSUME NEW i \in 1..Len(list'), NEW j \in 1..Len(list'), list'[i] = list'[j]
                   PROVE  i = j
        OBVIOUS
      <4>1. PICK k \in 1..Len(list) : list'[i] = list[k] /\ k # cur /\ k = IF i < cur THEN i ELSE i + 1
        BY <2>9
      <4>2. PICK l \in 1..Len(list) : list'[j] = list[l] /\ l # cur /\ l = IF j < cur THEN j ELSE j + 1
        BY <2>9
      <4>3. \A x, y \in 1..Len(list) : list[x] = list[y] => x = y
        BY DEF PInv, ListExact
      <4>4. k = l
        BY Zenon, <4>1, <4>2, <4>3
      <4>5. cur \in Int /\ i \in Int /\ j \in Int
        BY <1>1
      <4> QED BY <4>1, <4>2, <4>4, <4>5
    <3>2. \A u \in T : Listed(u)' <=> u # t /\ Listed(u)
      BY Zenon, <2>6 DEF Listed
    <3>3. \A u \in T : (\E i \in 1..Len(list') : list'[i] = u) <=> u # t /\ \E k \in 1..Len(list) : list[k] = u
      BY Zenon, <2>1, <2>9, <2>10
    <3>4. \A u \in T : Listed(u) <=> \E k \in 1..Len(list) : list[k] = u
      BY DEF PInv, ListExact
    <3>5. \A h \in G : making'[h] # 0 => tk'[making'[h]].at = "made"
      <4>1. \A h \in G : making[h] # 0 => making[h] \in T /\ tk[making[h]].at = "made"
        BY DEF PInv, ListExact, TickTypes
      <4>2. tk[t].at # "made"
        BY <2>1 DEF Listed
      <4> QED BY Zenon, <1>2, <2>6, <4>1, <4>2
    <3>6. \A u \in seen' : tk'[u].at \in {"listed", "removed"}
      BY Zenon, <1>2, <2>6 DEF PInv, ListExact, TickTypes
    <3>7. \A u \in T : Listed(u)' <=> \E i \in 1..Len(list') : list'[i] = u
      BY Zenon, <3>2, <3>3, <3>4
    <3> QED BY Zenon, <1>2, <3>1, <3>5, <3>6, <3>7 DEF PInv, ListExact
  <2>12. Times'
    <3>1. \A u \in T : Live(u)' => u # t /\ Live(u)
      BY Zenon, <2>6 DEF Live
    <3>2. \A u \in T : u # t /\ OnPhase(u) => OnPhase(u)'
      BY Zenon, <2>6 DEF OnPhase
    <3> QED BY Zenon, <1>2, <2>2, <2>6, <3>1, <3>2 DEF PInv, Times
  <2>13. Scanning'
    <3>1. \A u \in T : Listed(u)' => u # t /\ Listed(u)
      BY Zenon, <2>6 DEF Listed
    <3>2. \A i \in 1..Len(list') : i < cur => i \in 1..Len(list) /\ list'[i] = list[i] /\ list[i] \in T /\ list[i] # t
      <4>1. \A i \in 1..Len(list') : i < cur => i \in 1..Len(list) /\ list'[i] = list[i] /\ i # cur
        BY <1>1, <2>7
      <4>2. \A i \in 1..Len(list) : list[i] \in T
        BY DEF PInv, TickTypes
      <4> QED BY Zenon, <2>10, <4>1, <4>2
    <3>3. \A i \in 1..Len(list') : i < cur => tk'[list'[i]].nextTick > now
      BY Zenon, <1>1, <2>6, <3>2 DEF PInv, Scanning
    <3>4. lp' = "scan" /\ "scan" # "tick" /\ "scan" # "select"
      BY <1>1, <2>2
    <3> QED BY Zenon, <1>1, <1>2, <2>6, <3>1, <3>3, <3>4 DEF PInv, Scanning
  <2> QED BY Zenon, <2>8, <2>11, <2>12, <2>13 DEF PInv
<1> QED BY <1>3, <1>4

LEMMA TickPhase == ASSUME PInv, ScanTick PROVE PInv'
<1>1. lp = "tick" /\ cur' = cur + 1 /\ lp' = "scan" /\ seen' = seen \cup {list[cur]} /\ cur \in 1..Len(list)
  BY DEF ScanTick, PInv, Scanning, TickTypes
<1>2. /\ clock' = clock /\ making' = making /\ list' = list /\ now' = now /\ prevTime' = prevTime
  BY DEF ScanTick
<1>3. PICK t \in T : t = list[cur] /\ Listed(t) /\ tk[t] \in TickerRecord
  <2>1. list[cur] \in T /\ tk[list[cur]] \in TickerRecord
    BY <1>1 DEF PInv, TickTypes
  <2> QED BY Zenon, <1>1, <2>1 DEF PInv, ListExact
<1>4. /\ t \in Nat \ {0} /\ now \in Int /\ now <= clock /\ clock \in Int
      /\ tk[t].nextTick \in Int /\ tk[t].born \in Int /\ tk[t].nextTick <= now + t
  <2>1. tk[t].nextTick \in Int /\ tk[t].born \in Int
    BY <1>3 DEF TickerRecord
  <2>2. tk[t].nextTick <= now + t
    BY Zenon, <1>1, <1>3 DEF PInv, Scanning
  <2> QED BY Zenon, <2>1, <2>2, TickerAssumption DEF PInv, Times, TickTypes
<1>5. PICK c : c = IF tk[t].nextTick <= now THEN 1 ELSE tk[t].c
  BY Zenon
<1>6. PICK next \in Int : /\ next = IF tk[t].nextTick <= now THEN Advanced(tk[t].nextTick, t) ELSE tk[t].nextTick
                          /\ next > now /\ next <= now + t
                          /\ \E k \in Int : next = tk[t].nextTick + k * t
  <2>1. CASE tk[t].nextTick <= now
    BY Zenon, <1>4, <2>1, AdvancedIs
  <2>2. CASE ~(tk[t].nextTick <= now)
    <3>1. tk[t].nextTick = tk[t].nextTick + 0 * t /\ tk[t].nextTick > now /\ 0 \in Int
      BY <1>4, <2>2
    <3> QED BY Zenon, <1>4, <2>2, <3>1
  <2> QED BY Zenon, <2>1, <2>2
<1>7. PICK v : v = [tk[t] EXCEPT !.nextTick = next, !.c = c]
  BY Zenon
<1>8. v \in TickerRecord /\ v.at = tk[t].at /\ v.born = tk[t].born /\ v.nextTick = next
  <2>1. c \in Int
    BY <1>3, <1>5 DEF TickerRecord
  <2> QED BY Zenon, <1>3, <1>6, <1>7, <2>1 DEF TickerRecord
<1>9. tk' = [tk EXCEPT ![t] = v] /\ tk \in [T -> TickerRecord]
  <2>1. tk' = [tk EXCEPT ![t].nextTick = next, ![t].c = c]
    BY Zenon, <1>3, <1>5, <1>6 DEF ScanTick
  <2> QED BY Zenon, <1>7, <2>1 DEF PInv, TickTypes
<1>10. /\ \A u \in T : u # t => tk'[u] = tk[u]
       /\ \A u \in T : tk'[u].at = tk[u].at /\ tk'[u].born = tk[u].born
       /\ tk'[t].nextTick = next
  BY Zenon, <1>8, <1>9
<1>11. \A u \in T : Listed(u)' = Listed(u)
  BY Zenon, <1>10 DEF Listed
<1>12. TickTypes'
  <2>1. cur' \in Nat /\ seen' \subseteq T
    BY <1>1, <1>3 DEF PInv, TickTypes
  <2> QED BY Zenon, <1>1, <1>2, <1>8, <1>9, <2>1 DEF PInv, TickTypes
<1>13. ListExact'
  <2>1. \A u \in seen' : tk'[u].at \in {"listed", "removed"}
    <3>1. tk'[t].at = "listed" /\ seen' = seen \cup {t}
      BY <1>1, <1>3, <1>10 DEF Listed
    <3>2. \A u \in seen : u \in T /\ tk[u].at \in {"listed", "removed"}
      BY DEF PInv, ListExact, TickTypes
    <3> QED BY <1>10, <3>1, <3>2
  <2>2. \A h \in G : making'[h] # 0 => tk'[making'[h]].at = "made"
    BY ZenonT(60), <1>2, <1>10 DEF PInv, ListExact, TickTypes
  <2>3. \A u \in T : Listed(u)' <=> \E i \in 1..Len(list') : list'[i] = u
    BY <1>2, <1>11 DEF PInv, ListExact
  <2>4. \A i, j \in 1..Len(list') : list'[i] = list'[j] => i = j
    BY <1>2 DEF PInv, ListExact
  <2>5. \A g, h \in G : making'[g] # 0 /\ making'[g] = making'[h] => g = h
    BY <1>2 DEF PInv, ListExact
  <2> QED BY Zenon, <2>1, <2>2, <2>3, <2>4, <2>5 DEF ListExact
<1>14. Times'
  <2>1. OnPhase(t)'
    <3>1. PICK k \in Int : tk[t].nextTick = tk[t].born + k * t
      BY Zenon, <1>3 DEF PInv, Times, Live, Listed, OnPhase
    <3>2. PICK l \in Int : next = tk[t].nextTick + l * t
      BY <1>6
    <3>3. next = tk[t].born + (k + l) * t
      BY SMTT(30), <1>4, <3>1, <3>2
    <3> QED BY <1>10, <3>3 DEF OnPhase
  <2>2. tk'[t].nextTick <= clock + t
    BY <1>4, <1>6, <1>10
  <2>3. \A u \in T : Live(u)' => Live(u)
    BY Zenon, <1>10 DEF Live
  <2>4. \A u \in T : u # t /\ OnPhase(u) => OnPhase(u)'
    BY Zenon, <1>10 DEF OnPhase
  <2>5. \A u \in T : Live(u)' => tk'[u].nextTick <= clock' + u /\ OnPhase(u)'
    BY Zenon, <1>2, <1>10, <2>1, <2>2, <2>3, <2>4 DEF PInv, Times
  <2> QED BY <1>1, <1>2, <2>5 DEF PInv, Times
<1>15. Scanning'
  <2>1. lp' = "scan" /\ "scan" # "tick" /\ "scan" # "select" /\ cur' >= 1
    BY <1>1
  <2>2. \A u \in T : Listed(u)' => tk'[u].nextTick <= now + u
    BY Zenon, <1>1, <1>6, <1>10, <1>11 DEF PInv, Scanning
  <2>3. \A i \in 1..Len(list) : i < cur' => i < cur \/ i = cur
    BY <1>1
  <2>4. \A i \in 1..Len(list) : list[i] \in T /\ (list[i] = t => i = cur)
    <3>1. \A i \in 1..Len(list) : list[i] \in T
      BY DEF PInv, TickTypes
    <3> QED BY Zenon, <1>1, <1>3, <3>1 DEF PInv, ListExact
  <2>5. \A i \in 1..Len(list) : i < cur' => tk'[list[i]].nextTick > now
    BY Zenon, <1>1, <1>3, <1>6, <1>10, <2>3, <2>4 DEF PInv, Scanning
  <2> QED BY Zenon, <1>2, <2>1, <2>2, <2>5 DEF Scanning
<1> QED BY Zenon, <1>12, <1>13, <1>14, <1>15 DEF PInv

LEMMA EndScanPhase == ASSUME PInv, EndScan PROVE PInv'
<1>1. lp = "scan" /\ cur > Len(list) /\ prevTime' = now /\ lp' = "select" /\ cur' = 0
  BY DEF EndScan
<1>2. tk' = tk /\ clock' = clock /\ making' = making /\ list' = list /\ seen' = seen /\ now' = now
  BY DEF EndScan
<1>3. TickTypes'
  BY <1>1, <1>2 DEF PInv, TickTypes
<1>4. ListExact'
  BY <1>2 DEF PInv, ListExact, Listed
<1>5. Times'
  <2>1. now <= now
    BY DEF PInv, TickTypes
  <2> QED BY Zenon, <1>1, <1>2, <2>1 DEF PInv, Times, Live, OnPhase
<1>6. Scanning'
  <2>1. \A i \in 1..Len(list) : i < cur
    BY <1>1 DEF PInv, TickTypes
  <2>2. \A t \in T : Listed(t) => tk[t].nextTick > now /\ tk[t].nextTick <= now + t
    BY Zenon, <1>1, <2>1 DEF PInv, Scanning, ListExact
  <2>3. seen \subseteq T /\ lp' = "select" /\ "select" # "scan" /\ "select" # "tick"
    BY <1>1 DEF PInv, TickTypes
  <2> QED BY Zenon, <1>1, <1>2, <2>2, <2>3 DEF Scanning, Listed
<1> QED BY Zenon, <1>3, <1>4, <1>5, <1>6 DEF PInv

\* What the invariant is for.
LEMMA PhaseHolds == PInv => InPhase
<1> SUFFICES ASSUME PInv, NEW t \in T, tk[t].at \notin {"none", "removed"}
             PROVE  /\ (tk[t].nextTick - tk[t].born) % t = 0
                    /\ lp = "select" /\ t \in Range(list) \cap seen =>
                          tk[t].nextTick > prevTime /\ tk[t].nextTick <= prevTime + t
  BY DEF InPhase
<1>1. tk[t] \in TickerRecord /\ t \in Nat \ {0}
  BY TickerAssumption DEF PInv, TickTypes
<1>2. Live(t) /\ tk[t].nextTick \in Int /\ tk[t].born \in Int
  BY <1>1 DEF TickerRecord, Live
<1>3. PICK k \in Int : tk[t].nextTick = tk[t].born + k * t
  BY Zenon, <1>2 DEF PInv, Times, OnPhase
<1>4. tk[t].nextTick - tk[t].born = k * t
  BY <1>1, <1>2, <1>3
<1>5. (tk[t].nextTick - tk[t].born) % t = 0
  BY <1>1, <1>4, Multiple
<1>6. ASSUME lp = "select", t \in Range(list) \cap seen
      PROVE  tk[t].nextTick > prevTime /\ tk[t].nextTick <= prevTime + t
  <2>1. \E i \in 1..Len(list) : list[i] = t
    BY <1>6 DEF Range, PInv, TickTypes
  <2>2. Listed(t) /\ t \in seen
    BY Zenon, <1>6, <2>1 DEF PInv, ListExact
  <2> QED BY Zenon, <1>6, <2>2 DEF PInv, Scanning
<1> QED BY <1>5, <1>6

\* A step of once.Do starts tickerLoop at most once, with nothing listed.
LEMMA OncePhase == ASSUME OInv, LoopInv, PInv, NEW g \in G, OnceStep(g) PROVE PInv'
<1>1. /\ tk' = tk /\ clock' = clock /\ making' = making /\ list' = list /\ cur' = cur /\ seen' = seen
      /\ now' = now /\ prevTime' = prevTime
  BY Zenon DEF OnceStep
<1>2. CASE pc[g] # "running"
  <2>1. lp' = lp
    BY Zenon, <1>2 DEF OnceStep
  <2> QED BY Zenon, <1>1, <2>1, OtherPhase
<1>3. CASE pc[g] = "running"
  <2>1. loops = 0 /\ lp' = "select"
    BY Zenon, <1>3, StartsOnce DEF OnceStep
  <2>2. lp = "off" /\ \A t \in T : ~Listed(t)
    BY <2>1 DEF LoopInv, Listed
  <2> QED BY Zenon, <1>1, <2>1, <2>2, OtherPhase
<1> QED BY Zenon, <1>2, <1>3

LEMMA PhaseNext == OInv /\ LoopInv /\ PInv /\ [TNext]_tvars => PInv'
<1> SUFFICES ASSUME OInv, LoopInv, PInv, [TNext]_tvars PROVE PInv'
  BY Zenon
<1>1. CASE UNCHANGED tvars
  <2>1. /\ tk' = tk /\ clock' = clock /\ making' = making /\ list' = list /\ cur' = cur /\ seen' = seen
        /\ now' = now /\ prevTime' = prevTime /\ lp' = lp
    BY Zenon, <1>1 DEF tvars, loopvars
  <2> QED BY Zenon, <2>1, OtherPhase
<1>2. CASE Pass
  <2>1. /\ tk' = tk /\ clock' = clock + 1 /\ making' = making /\ list' = list /\ cur' = cur /\ seen' = seen
        /\ now' = now /\ prevTime' = prevTime /\ lp' = lp
    BY Zenon, <1>2 DEF Pass, loopvars
  <2> QED BY Zenon, <2>1, OtherPhase
<1>3. ASSUME NEW k \in 1..Cardinality(T), WakeLoop(k) PROVE PInv'
  <2>1. /\ tk' = tk /\ clock' = clock /\ making' = making /\ list' = list /\ cur' = cur /\ seen' = seen
        /\ now' = now /\ prevTime' = prevTime /\ lp' = lp
    BY Zenon, <1>3 DEF WakeLoop, WakeMeAt, WakeUp, loopvars
  <2> QED BY Zenon, <2>1, OtherPhase
<1>4. CASE TickerLoop
  BY Zenon, <1>4, AddPhase, WakeUpPhase, ShutdownPhase, TickPhase, EndScanPhase DEF TickerLoop
<1> QED
  BY Zenon, <1>1, <1>2, <1>3, <1>4, OncePhase, NewTickerPhase, SendPhase, StopPhase, ReceivePhase
     DEF TNext, Making

\* The ticks keep the phase of the ticker, for every set of periods and every
\* number of goroutines that make tickers: nextTick stays a whole number of
\* periods after NewTicker however late tickerLoop is woken, and after a scan
\* it lies within one period after the time of that scan.
THEOREM TicksInPhase == TSpec => []InPhase
<1>1. TSpec => []OInv
  BY OnceUsed, OnceInvariance, PTL
<1>2. TSpec => []LoopInv
  BY <1>1, LoopInit, LoopNext, PTL DEF TSpec
<1>3. TSpec => []PInv
  BY <1>1, <1>2, PhaseInit, PhaseNext, PTL DEF TSpec
<1> QED
  BY <1>3, PhaseHolds, PTL
=============================================================================
