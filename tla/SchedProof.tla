----------------------------- MODULE SchedProof -----------------------------
(***************************************************************************)
(* The theorems about the scheduler. SchedInvariance puts the steps        *)
(* together. NoThrow, DeadlockReportTrue, CountsExact, NoLostWakeup and    *)
(* RunnableOnce follow from SInv. WorkConserving and WorldStopped are      *)
(* about the program as a whole, hold only without the calls named in      *)
(* their hypotheses, and have an inductive invariant of their own on top   *)
(* of SInv.                                                                *)
(***************************************************************************)
EXTENDS SchedSteps, FiniteSetTheorems

-----------------------------------------------------------------------------
\* What the steps take for granted about counting Ms.
LEMMA CountOne ==
    ASSUME NEW S \in SUBSET M, NEW T \in SUBSET M, NEW x \in M,
           \A n \in M : n # x => (n \in S <=> n \in T)
    PROVE  /\ Cardinality(S) \in Nat /\ (x \in S => Cardinality(S) > 0)
           /\ Cardinality(T) = Cardinality(S) + (IF x \in T THEN 1 ELSE 0)
                                              - (IF x \in S THEN 1 ELSE 0)
<1>1. IsFiniteSet(S) /\ IsFiniteSet(T) /\ Cardinality(S) \in Nat /\ Cardinality(T) \in Nat
  BY SchedAssumption, FS_Subset, FS_CardinalityType
<1>2. x \in S => Cardinality(S) # 0
  BY <1>1, FS_EmptySet
<1>3. CASE x \in S /\ x \notin T
  <2>1. S = T \cup {x}
    BY <1>3
  <2>2. Cardinality(S) = Cardinality(T) + 1
    BY <1>1, <1>3, <2>1, FS_AddElement
  <2> QED BY <1>1, <1>2, <1>3, <2>2
<1>4. CASE x \notin S /\ x \in T
  <2>1. T = S \cup {x}
    BY <1>4
  <2>2. Cardinality(T) = Cardinality(S) + 1
    BY <1>1, <1>4, <2>1, FS_AddElement
  <2> QED BY <1>1, <1>2, <1>4, <2>2
<1>5. CASE x \in S <=> x \in T
  <2>1. S = T
    BY <1>5
  <2> QED BY <1>1, <1>2, <1>5, <2>1
<1> QED BY <1>3, <1>4, <1>5

\* The Ms are finitely many, so counting them works as the steps assume.
LEMMA CountingHolds == Counting
BY CountOne, FS_EmptySet DEF Counting

-----------------------------------------------------------------------------
\* SInv is an invariant: whatever the program does, every state the scheduler
\* reaches satisfies it.
THEOREM SchedInvariance == Spec => []SInv
<1>1. Init => SInv
  BY SchedInit, CountingHolds
<1>2. SInv /\ [Next]_vars => SInv'
  <2> SUFFICES ASSUME SInv, [Next]_vars PROVE SInv'
    OBVIOUS
  <2>1. ASSUME NEW m \in M, RuntimeStep(m) PROVE SInv'
    BY SMTT(30), <2>1, CountingHolds, matchmgStep, schedulerStep, mstartStep, nextgandunlockStep, nextgwaitStep,
       nextgwakeStep, runStep, entersyscallEndStep, initdoneKickStep, stoptheworldStep,
       stopwakeStep, gcdoneStep, gcreleaseStep, starttheworldStep DEF RuntimeStep
  <2>2. ASSUME NEW m \in M, UserStep(m) PROVE SInv'
    BY SMTT(30), <2>2, CountingHolds, newproc1Step, GoschedStep, ParkStep, goexitStep, initdoneStep,
       LockOSThreadStep, UnlockOSThreadStep, entersyscallStep, exitsyscallStep,
       startcgocallbackStep, endcgocallbackStep, gcStep, readyStep, gomaxprocsfuncStep
       DEF UserStep
  <2>3. CASE UNCHANGED vars
    <3>1. /\ GSame /\ mcpu' = mcpu /\ msyscall' = msyscall /\ mcpumax' = mcpumax
          /\ gomaxprocs' = gomaxprocs /\ gcing' = gcing /\ incallback' = incallback
          /\ predawn' = predawn /\ schedlock' = schedlock /\ pc' = pc /\ ret' = ret
          /\ stopped' = stopped
      BY <2>3 DEF vars, gvars, wvars, qvars, svars, hvars, GSame
    <3>2. Ended'
      BY Zenon, <3>1 DEF SInv, Control, Ended, NoThrow, DeadlockReportTrue, GSame
    <3> QED BY <3>1, <3>2, Stays
  <2> QED BY <2>1, <2>2, <2>3 DEF Next, Exited
<1> QED BY <1>1, <1>2, PTL DEF Spec

\* None of the throws that report a broken scheduler is reached.
THEOREM SchedNoThrow == Spec => []NoThrow
<1>1. SInv => NoThrow
  BY DEF SInv, Control, Ended
<1> QED BY <1>1, SchedInvariance, PTL

\* "All goroutines are asleep" is thrown only when they are.
THEOREM SchedDeadlockReportTrue == Spec => []DeadlockReportTrue
<1>1. SInv => DeadlockReportTrue
  BY DEF SInv, Control, Ended
<1> QED BY <1>1, SchedInvariance, PTL

\* sched.mcpu and sched.msyscall count the Ms they are meant to.
THEOREM SchedCountsExact == Spec => []CountsExact
<1>1. SInv => CountsExact
  <2> SUFFICES ASSUME SInv PROVE CountsExact
    OBVIOUS
  <2>1. Cpus = {m \in M : OnCpu(m)} /\ Syscalls = {m \in M : InSyscall(m)}
    BY Zenon DEF Cpus, Syscalls, place, OnCpu, InSyscall, System
  <2> QED BY <2>1 DEF SInv, Counts, CountsExact
<1> QED BY <1>1, SchedInvariance, PTL

\* No wakeup is lost.
THEOREM SchedNoLostWakeup == Spec => []NoLostWakeup
<1>1. SInv => NoLostWakeup
  BY DEF SInv, Shape, Sleepers, NoLostWakeup
<1> QED BY <1>1, SchedInvariance, PTL

\* A goroutine is in at most one place where an M would find it, and a
\* runnable one is in one.
THEOREM SchedRunnableOnce == Spec => []RunnableOnce
<1>1. SInv => RunnableOnce
  <2> SUFFICES ASSUME SInv, NEW g \in G
               PROVE  Cardinality(Places(g)) <= 1 /\ (gstatus[g] = "Grunnable" => Places(g) # {})
    BY DEF RunnableOnce
  <2>0. gq \in Seq(G) /\ DOMAIN gq = 1..Len(gq) /\ g # NoG
    BY SchedAssumption DEF SInv, STypes
  <2>1. \A x, y \in Places(g) : x = y
    BY <2>0 DEF SInv, Shape, Apart, Places, Elems, NoDup
  <2>2. Places(g) = {} \/ \E x : Places(g) = {x}
    BY <2>1
  <2>3. Cardinality(Places(g)) <= 1
    BY SMTT(30), <2>2, FS_EmptySet, FS_Singleton
  <2>4. ASSUME gstatus[g] = "Grunnable" PROVE Places(g) # {}
    <3>1. CASE g \in Elems(gq)
      BY Zenon, <2>0, <3>1 DEF Elems, Places
    <3>2. CASE g \notin Elems(gq)
      <4>1. PICK m \in M : nextg[m] = g \/ curg[m] = g
        BY <2>4, <3>2 DEF SInv, Shape, Runnable
      <4>2. <<"nextg", m>> \in Places(g) \/ <<"curg", m>> \in Places(g)
        BY <4>1 DEF Places
      <4> QED BY <4>2
    <3> QED BY <3>1, <3>2
  <2> QED BY <2>3, <2>4
<1> QED BY <1>1, SchedInvariance, PTL

\* The scheduler meets none of the conditions on which it throws.
LEMMA SchedulerProceeds ==
    ASSUME Counting, SInv, NEW m \in M, scheduler(m)
    PROVE  /\ pc[m] = "scheduler" /\ schedlock = NoM /\ ~predawn /\ ~(mcpu - 1 < 0)
           /\ curg[m] \in G /\ gstatus[curg[m]] \notin {"Grunnable", "Gdead"}
           /\ readyonstop[curg[m]] => gstatus[curg[m]] \in {"Gwaiting", "Gsyscall"}
<1>1. pc[m] = "scheduler" /\ schedlock = NoM /\ ~predawn
  BY Zenon DEF scheduler, Enter, SInv, Control, Dawn
<1>2. place[m] = "scheduler"
  BY <1>1, PlaceOf DEF SInv
<1>3. curg[m] \in G /\ gstatus[curg[m]] \notin {"Grunnable", "Gdead"}
  BY <1>2, InHand DEF SInv, CpuLabels
<1>4. readyonstop[curg[m]] => gstatus[curg[m]] \in {"Gwaiting", "Gsyscall"}
  BY <1>3 DEF SInv, Shape, Sleepers
<1>5. ~(mcpu - 1 < 0)
  <2>1. mcpu > 0
    BY <1>2, Counted DEF CpuLabels
  <2> QED BY <2>1 DEF SInv, STypes
<1> QED BY Zenon, <1>1, <1>3, <1>4, <1>5

-----------------------------------------------------------------------------
\* No goroutine waits in the queue while there is room, init aside.
Conserves == gq = <<>> \/ mcpu >= mcpumax \/ predawn \/ \E m \in M : pc[m] = "initdone"

\* Who has yet to serve the queue before it lets go of the lock.
Serves(m) ==
    \/ pc[m] = "matchmg"
    \/ /\ pc[m] = "nextg" /\ nextg[m] = NoG
       /\ lockedg(m) # {} \/ Len(gq) <= 1 \/ mcpu + 1 >= mcpumax

WInv == incallback = {} /\ (Conserves \/ \E m \in M : Serves(m))

\* With the lock free, or held by an M past the queue, the queue was served.
LEMMA ServedWhenFree ==
    ASSUME SInv, WInv, NEW m \in M, schedlock = NoM \/ (schedlock = m /\ ~Serves(m))
    PROVE  Conserves
<1>1. \A n \in M : n # m \/ schedlock = NoM => pc[n] \notin Locked
  BY SchedAssumption DEF SInv, Control, LockHeld
<1>2. \A n \in M : ~Serves(n)
  BY Zenon, <1>1, SchedAssumption DEF SInv, Control, LockHeld, Serves, Locked
<1> QED BY <1>2 DEF WInv

\* What keeps the queue served.
LEMMA ConservesStays ==
    ASSUME SInv, Conserves, NEW m \in M, NEW k, pc' = [pc EXCEPT ![m] = k],
           pc[m] # "initdone", gq' = gq, predawn' = predawn,
           mcpu' \in Int, mcpumax' \in Int, mcpu >= mcpumax => mcpu' >= mcpumax'
    PROVE  Conserves'
BY DEF SInv, STypes, Conserves

\* Steps taken without the lock, or that do not concern the queue.
LEMMA WAside ==
    ASSUME SInv, WInv, NEW m \in M, NEW k,
           pc' = [pc EXCEPT ![m] = k], pc[m] \notin Locked \cup {"initdone"},
           gq' = gq, predawn' = predawn \/ k = "initdone", mcpu' = mcpu, mcpumax' = mcpumax,
           incallback' = incallback, \A n \in M : n # m => nextg'[n] = nextg[n],
           \A g \in G : lockedm[g] # m => lockedm'[g] = lockedm[g] \/ lockedm[g] = NoM
    PROVE  WInv'
<1>1. incallback' = {}
  BY DEF WInv
<1>2. CASE k = "initdone"
  BY Zenon, <1>1, <1>2 DEF WInv, Conserves, SInv, STypes
<1>3. CASE Conserves /\ k # "initdone"
  BY Zenon, <1>1, <1>3 DEF WInv, Conserves, SInv, STypes
<1>4. CASE ~Conserves /\ k # "initdone"
  <2>1. PICK n \in M : Serves(n)
    BY <1>4 DEF WInv
  <2>2. n # m /\ pc'[n] = pc[n] /\ nextg'[n] = nextg[n]
    BY <2>1 DEF Serves, Locked, SInv, STypes
  <2>3. lockedg(n) # {} => lockedg(n)' # {}
    BY <2>2, SchedAssumption DEF lockedg
  <2>4. Serves(n)'
    BY Zenon, <2>1, <2>2, <2>3 DEF Serves
  <2> QED BY <1>1, <2>4 DEF WInv
<1> QED BY Zenon, <1>2, <1>3, <1>4

\* With m at matchmg, the queue is being served.
LEMMA WMatching ==
    ASSUME WInv, NEW m \in M, pc'[m] = "matchmg", incallback' = incallback PROVE WInv'
BY DEF WInv, Serves

\* What the runtime does by itself keeps the queue served ...
LEMMA WRuntime ==
    ASSUME Counting, SInv, SInv', WInv, NEW m \in M, RuntimeStep(m) PROVE WInv'
<1>0. STypes /\ pc \in [M -> Labels] /\ mcpu \in Int /\ mcpumax \in Int /\ mcpu' \in Int
  BY DEF SInv, STypes
<1>1. CASE matchmg(m)
  <2>1. /\ pc[m] = "matchmg" /\ schedlock = m /\ incallback' = incallback
        /\ mcpumax' = mcpumax /\ gcing # m
    BY Zenon, <1>1, SchedAssumption DEF matchmg, Inside, wvars, svars, SInv, Control, Gcing
  <2>2. CASE mcpu < mcpumax /\ gq # <<>>
    <3>1. pc'[m] = "matchmg"
      BY Zenon, <1>0, <1>1, <2>1, <2>2 DEF matchmg, Goto
    <3> QED BY Zenon, <2>1, <3>1, WMatching
  <2>3. CASE ~(mcpu < mcpumax /\ gq # <<>>)
    <3>1. gq' = gq /\ mcpu' = mcpu
      BY <1>1, <2>3 DEF matchmg
    <3> QED BY SMTT(30), <1>0, <2>1, <2>3, <3>1 DEF WInv, Conserves
  <2> QED BY Zenon, <2>2, <2>3
<1>2. CASE mstart(m) \/ nextgwait(m) \/ entersyscallEnd(m) \/ stopwake(m)
  <2>1. /\ pc[m] # "initdone" /\ (schedlock = NoM \/ (schedlock = m /\ ~Serves(m)))
    BY Zenon, <1>2 DEF mstart, nextgwait, entersyscallEnd, stopwake, Enter, Inside, Serves
  <2>2. /\ gq' = gq /\ predawn' = predawn /\ mcpu' = mcpu /\ mcpumax' = mcpumax
        /\ incallback' = incallback /\ \E k : pc' = [pc EXCEPT ![m] = k]
    <3>1. CASE mstart(m)
      BY Zenon, <3>1 DEF mstart, Goto, wvars, svars
    <3>2. CASE nextgwait(m)
      <4>1. CASE AllAsleep
        <5>1. pc' = [pc EXCEPT ![m] = pc[m]]
          BY Zenon, <1>0, <3>2, <4>1 DEF nextgwait, Throw
        <5> QED BY Zenon, <3>2, <4>1, <5>1 DEF nextgwait, Throw, wvars, svars
      <4>2. CASE ~AllAsleep
        BY <3>2, <4>2 DEF nextgwait, Unlock, Goto, wvars, svars
      <4> QED BY <4>1, <4>2
    <3>3. CASE entersyscallEnd(m)
      BY Zenon, <3>3 DEF entersyscallEnd, Unlock, Goto, wvars, svars
    <3>4. CASE stopwake(m)
      BY <3>4 DEF stopwake, AwaitStopped, Goto, wvars, svars
    <3> QED BY Zenon, <1>2, <3>1, <3>2, <3>3, <3>4
  <2>3. Conserves'
    BY Zenon, <1>0, <2>1, <2>2, ServedWhenFree, ConservesStays
  <2> QED BY <2>2, <2>3 DEF WInv
<1>3. CASE initdoneKick(m) \/ starttheworld(m)
  <2>1. pc'[m] = "matchmg" /\ incallback' = incallback
    BY <1>0, <1>3 DEF initdoneKick, starttheworld, CallMatchmg, Goto, wvars
  <2> QED BY <2>1, WMatching
<1>4. CASE stoptheworld(m)
  <2>1. /\ schedlock = NoM /\ pc[m] # "initdone" /\ gq' = gq /\ predawn' = predawn
        /\ mcpu' = mcpu /\ mcpumax' = 1 /\ incallback' = incallback
        /\ \E k : pc' = [pc EXCEPT ![m] = k]
    BY Zenon, <1>4 DEF stoptheworld, Enter, AwaitStopped, Goto, wvars
  <2>2. mcpumax' \in Int /\ (mcpu >= mcpumax => mcpu' >= mcpumax')
    BY <2>1 DEF SInv, STypes
  <2>3. Conserves'
    BY Zenon, <1>0, <2>1, <2>2, ServedWhenFree, ConservesStays
  <2> QED BY <2>1, <2>3 DEF WInv
<1>5. CASE run(m) \/ gcdone(m) \/ gcrelease(m)
  <2>1. /\ pc[m] \notin Locked \cup {"initdone"} /\ \E k : pc' = [pc EXCEPT ![m] = k]
        /\ gq' = gq /\ predawn' = predawn /\ mcpu' = mcpu /\ mcpumax' = mcpumax
        /\ incallback' = incallback /\ nextg' = nextg /\ lockedm' = lockedm
    BY <1>5 DEF run, gcdone, gcrelease, Goto, wvars, svars, hvars, Locked
  <2> QED BY Zenon, <2>1, WAside
<1>6. CASE nextgwake(m)
  <2>1. pc[m] = "sleep" /\ nextg[m] # NoG
    <3>1. pc[m] = "sleep" /\ ~waitnextg[m]
      BY Zenon, <1>6 DEF nextgwake
    <3> QED BY Zenon, <1>0, <3>1, PlaceOf DEF SInv, Shape, Hands
  <2>2. /\ pc[m] \notin Locked \cup {"initdone"} /\ pc' = [pc EXCEPT ![m] = "run"]
        /\ gq' = gq /\ predawn' = predawn /\ mcpu' = mcpu /\ mcpumax' = mcpumax
        /\ incallback' = incallback /\ nextg' = [nextg EXCEPT ![m] = NoG]
        /\ lockedm' = lockedm
    BY Zenon, <1>6, <2>1 DEF nextgwake, TakeNextg, Goto, wvars, svars, Locked
  <2>3. \A n \in M : n # m => nextg'[n] = nextg[n]
    BY <2>2 DEF SInv, STypes
  <2> QED BY Zenon, <2>2, <2>3, WAside
<1>7. CASE nextgandunlock(m)
  <2>1. /\ pc[m] = "nextg" /\ schedlock = m /\ ~(mcpu < 0)
    <3>1. mcpu >= 0 /\ Inside(m, "nextg")
      BY Zenon, <1>7, Counted DEF nextgandunlock
    <3> QED BY <1>0, <3>1 DEF Inside
  <2>2. incallback' = {} /\ predawn' = predawn /\ mcpumax' = mcpumax
    BY <1>7, <2>1 DEF nextgandunlock, wvars, svars, WInv
  <2>3. CASE nextg[m] # NoG
    <3>1. pc' = [pc EXCEPT ![m] = "run"] /\ gq' = gq /\ mcpu' = mcpu
      BY Zenon, <1>7, <2>1, <2>3 DEF nextgandunlock, Unlock, Goto
    <3>2. ~Serves(m)
      BY <2>1, <2>3 DEF Serves
    <3>3. Conserves'
      BY Zenon, <1>0, <2>1, <2>2, <3>1, <3>2, ServedWhenFree, ConservesStays
    <3> QED BY <2>2, <3>3 DEF WInv
  <2>4. CASE nextg[m] = NoG /\ lockedg(m) # {}
    <3>1. Kick(m, "nextgwait") /\ gq' = gq
      BY Zenon, <1>7, <2>1, <2>4 DEF nextgandunlock
    <3>2. CASE gq # <<>>
      <4>1. pc'[m] = "matchmg"
        BY Zenon, <1>0, <3>1, <3>2 DEF Kick, CallMatchmg, Goto
      <4> QED BY <2>2, <4>1 DEF WInv, Serves
    <3>3. CASE gq = <<>>
      BY Zenon, <2>2, <3>1, <3>3 DEF WInv, Conserves
    <3> QED BY <3>2, <3>3
  <2>5. CASE nextg[m] = NoG /\ lockedg(m) = {} /\ mcpu < mcpumax /\ gq # <<>>
    <3>1. pc' = [pc EXCEPT ![m] = "run"] /\ gq' = Tail(gq) /\ mcpu' = mcpu + 1
      BY Zenon, <1>7, <2>1, <2>5 DEF nextgandunlock, Unlock, Goto
    <3>2. CASE Len(gq) <= 1
      <4>1. gq' = <<>>
        BY <2>5, <3>1, <3>2 DEF SInv, STypes
      <4> QED BY Zenon, <2>2, <4>1 DEF WInv, Conserves
    <3>3. CASE mcpu + 1 >= mcpumax
      BY Zenon, <2>2, <3>1, <3>3 DEF WInv, Conserves
    <3>4. CASE ~Serves(m)
      <4>1. predawn \/ \E n \in M : pc[n] = "initdone"
        BY <1>0, <2>1, <2>5, <3>4, ServedWhenFree DEF Conserves
      <4>2. predawn' \/ \E n \in M : pc'[n] = "initdone"
        BY Zenon, <1>0, <2>1, <2>2, <3>1, <4>1
      <4> QED BY Zenon, <2>2, <4>2 DEF WInv, Conserves
    <3> QED BY Zenon, <2>1, <2>5, <3>2, <3>3, <3>4 DEF Serves
  <2>6. CASE nextg[m] = NoG /\ lockedg(m) = {} /\ ~(mcpu < mcpumax /\ gq # <<>>)
    <3>1. gq' = gq /\ mcpu' = mcpu
      BY Zenon, <1>7, <2>1, <2>6 DEF nextgandunlock
    <3> QED BY <1>0, <2>2, <2>6, <3>1 DEF WInv, Conserves
  <2> QED BY Zenon, <2>3, <2>4, <2>5, <2>6
<1>8. CASE scheduler(m)
  <2>1. PICK g \in G : g = curg[m]
    BY Zenon, <1>8, SchedulerProceeds
  <2>2. /\ pc[m] = "scheduler" /\ schedlock = NoM /\ ~predawn /\ ~(mcpu - 1 < 0)
        /\ gstatus[g] \notin {"Grunnable", "Gdead"}
        /\ readyonstop[g] => gstatus[g] \in {"Gwaiting", "Gsyscall"}
    BY Zenon, <1>8, <2>1, SchedulerProceeds
  <2>3. Conserves
    BY <2>2, ServedWhenFree
  <2>4. incallback' = {} /\ predawn' = predawn /\ mcpumax' = mcpumax
    BY Zenon, <1>8, <2>1, <2>2 DEF scheduler, svars, WInv
  <2>5. CASE readyonstop[g]
    <3>1. CallMatchmg(m, "nextg")
      BY Zenon, <1>8, <2>1, <2>2, <2>5 DEF scheduler
    <3>2. pc'[m] = "matchmg"
      BY Zenon, <1>0, <3>1 DEF CallMatchmg, Goto
    <3> QED BY <2>4, <3>2 DEF WInv, Serves
  <2>6. CASE ~readyonstop[g]
    <3>1. pc' = [pc EXCEPT ![m] = "nextg"]
      BY Zenon, <1>8, <2>1, <2>2, <2>6 DEF scheduler, Goto
    <3>2. \/ gput(g, mcpu - 1)
          \/ mcpu' = mcpu - 1 /\ gq' = gq /\ nextg' = nextg
      BY Zenon, <1>8, <2>1, <2>2, <2>6 DEF scheduler, hvars
    <3>3. pc'[m] = "nextg" /\ \A n \in M : pc[n] = "initdone" => pc'[n] = "initdone"
      BY Zenon, <1>0, <2>2, <3>1
    <3>4. nextg[m] = NoG
      BY Zenon, <1>0, <2>2, PlaceOf DEF SInv, Shape, Hands
    <3>5. CASE gput(g, mcpu - 1) /\ lockedm[g] # NoM
      <4>1. gq' = gq /\ mcpu' = mcpu - 1 + 1
        BY <3>5 DEF gput, mnextg
      <4>2. mcpu' = mcpu
        BY <1>0, <4>1
      <4> QED BY Zenon, <2>3, <2>4, <3>3, <4>1, <4>2 DEF WInv, Conserves
    <3>6. CASE gput(g, mcpu - 1) /\ lockedm[g] = NoM
      <4>1. gq' = Append(gq, g) /\ mcpu' = mcpu - 1 /\ nextg' = nextg
        BY Zenon, <3>6 DEF gput, hvars
      <4>2. CASE gq = <<>>
        <5>1. Len(gq') <= 1
          BY <4>1, <4>2
        <5> QED BY Zenon, <2>4, <3>3, <3>4, <4>1, <5>1 DEF WInv, Serves
      <4>3. CASE mcpu >= mcpumax
        <5>1. mcpu' + 1 >= mcpumax'
          BY <1>0, <2>4, <4>1, <4>3
        <5> QED BY Zenon, <2>4, <3>3, <3>4, <4>1, <5>1 DEF WInv, Serves
      <4>4. CASE \E n \in M : pc[n] = "initdone"
        BY Zenon, <2>4, <3>3, <4>4 DEF WInv, Conserves
      <4> QED BY Zenon, <2>2, <2>3, <4>2, <4>3, <4>4 DEF Conserves
    <3>7. CASE mcpu' = mcpu - 1 /\ gq' = gq /\ nextg' = nextg
      <4>1. CASE mcpu >= mcpumax
        <5>1. mcpu' + 1 >= mcpumax'
          BY <1>0, <2>4, <3>7, <4>1
        <5> QED BY Zenon, <2>4, <3>3, <3>4, <3>7, <5>1 DEF WInv, Serves
      <4>2. CASE ~(mcpu >= mcpumax)
        BY Zenon, <2>2, <2>3, <2>4, <3>3, <3>7, <4>2 DEF WInv, Conserves
      <4> QED BY Zenon, <4>1, <4>2
    <3> QED BY Zenon, <3>2, <3>5, <3>6, <3>7
  <2> QED BY Zenon, <2>5, <2>6
<1> QED BY SMTT(30), <1>1, <1>2, <1>3, <1>4, <1>5, <1>6, <1>7, <1>8 DEF RuntimeStep

\* ... and so does what the program makes it do.
LEMMA WUser ==
    ASSUME Counting, Callbacks = {}, SInv, SInv', WInv, NEW m \in M, UserStep(m) PROVE WInv'
<1>0. STypes /\ pc \in [M -> Labels] /\ mcpu \in Int /\ mcpumax \in Int /\ mcpu' \in Int
  BY DEF SInv, STypes
<1>1. ASSUME Readied(m), incallback' = incallback, predawn' = predawn PROVE WInv'
  <2>1. CASE predawn
    BY <1>1, <2>1 DEF WInv, Conserves
  <2>2. CASE ~predawn
    <3>1. pc'[m] = "matchmg"
      BY Zenon, <1>0, <1>1, <2>2 DEF Readied, CallMatchmg, Goto
    <3> QED BY Zenon, <1>1, <3>1, WMatching
  <2> QED BY Zenon, <2>1, <2>2
<1>2. CASE newproc1(m)
  BY <1>1, <1>2 DEF newproc1, wvars, svars
<1>3. ASSUME NEW g \in G, ready(m, g) PROVE WInv'
  <2>1. pc[m] \in {"user", "gcend"} /\ gstatus[g] = "Gwaiting"
    BY Zenon, <1>3 DEF ready, Enter, SInv, Shape, Sleepers
  <2>2. CASE gm[g] # NoM
    <3>1. /\ pc' = [pc EXCEPT ![m] = pc[m]] /\ pc[m] \notin Locked \cup {"initdone"}
          /\ gq' = gq /\ predawn' = predawn /\ mcpu' = mcpu /\ mcpumax' = mcpumax
          /\ incallback' = incallback /\ nextg' = nextg /\ lockedm' = lockedm
      BY Zenon, <1>0, <1>3, <2>1, <2>2 DEF ready, wvars, svars, hvars, Locked
    <3> QED BY Zenon, <3>1, WAside
  <2>3. CASE gm[g] = NoM
    <3>1. Readied(m) /\ incallback' = incallback /\ predawn' = predawn
      BY ZenonT(30), <1>3, <2>1, <2>3 DEF ready, wvars, svars
    <3> QED BY <1>1, <3>1
  <2> QED BY <2>2, <2>3
<1>4. CASE Gosched(m) \/ Park(m) \/ goexit(m) \/ gc(m)
  <2>1. /\ pc[m] \notin Locked \cup {"initdone"} /\ \E k : pc' = [pc EXCEPT ![m] = k]
        /\ gq' = gq /\ predawn' = predawn /\ mcpu' = mcpu /\ mcpumax' = mcpumax
        /\ incallback' = incallback /\ nextg' = nextg /\ lockedm' = lockedm
    BY <1>4 DEF Gosched, Park, goexit, EnterScheduler, gc, Goto, wvars, svars, hvars, Locked
  <2> QED BY Zenon, <2>1, WAside
<1>5. CASE initdone(m)
  <2>1. /\ pc[m] \notin Locked \cup {"initdone"} /\ pc' = [pc EXCEPT ![m] = "initdone"]
        /\ gq' = gq /\ mcpu' = mcpu /\ mcpumax' = mcpumax
        /\ incallback' = incallback /\ nextg' = nextg /\ lockedm' = lockedm
    BY <1>5 DEF initdone, Goto, wvars, hvars, Locked
  <2> QED BY Zenon, <2>1, WAside
<1>6. CASE LockOSThread(m) \/ UnlockOSThread(m)
  <2>1. /\ pc[m] = "user" /\ pc' = [pc EXCEPT ![m] = "user"]
        /\ gq' = gq /\ predawn' = predawn /\ mcpu' = mcpu /\ mcpumax' = mcpumax
        /\ incallback' = incallback /\ nextg' = nextg
    BY Zenon, <1>0, <1>6 DEF LockOSThread, UnlockOSThread, svars, hvars
  <2>2. \A g \in G : lockedm[g] # m => lockedm'[g] = lockedm[g] \/ lockedm[g] = NoM
    BY Zenon, <1>0, <1>6 DEF LockOSThread, UnlockOSThread, STypes
  <2> QED BY Zenon, <2>1, <2>2, WAside DEF Locked
<1>7. CASE entersyscall(m)
  <2>1. Kick(m, "sysexit") /\ gq' = gq /\ incallback' = incallback
    BY <1>7 DEF entersyscall, wvars
  <2>2. CASE gq # <<>>
    <3>1. pc'[m] = "matchmg"
      BY Zenon, <1>0, <2>1, <2>2 DEF Kick, CallMatchmg, Goto
    <3> QED BY Zenon, <2>1, <3>1, WMatching
  <2>3. CASE gq = <<>>
    BY Zenon, <2>1, <2>3 DEF WInv, Conserves
  <2> QED BY Zenon, <2>2, <2>3
<1>8. CASE exitsyscall(m)
  <2>1. /\ schedlock = NoM /\ pc[m] # "initdone" /\ \E k : pc' = [pc EXCEPT ![m] = k]
        /\ gq' = gq /\ predawn' = predawn /\ mcpu' = mcpu + 1 /\ mcpumax' = mcpumax
        /\ incallback' = incallback
    BY <1>8 DEF exitsyscall, Enter, Goto, wvars, svars
  <2>2. mcpu >= mcpumax => mcpu' >= mcpumax'
    BY <1>0, <2>1
  <2>3. Conserves'
    BY ZenonT(30), <1>0, <2>1, <2>2, ServedWhenFree, ConservesStays
  <2> QED BY Zenon, <2>1, <2>3 DEF WInv
<1>9. ~startcgocallback(m) /\ ~endcgocallback(m)
  BY DEF startcgocallback, endcgocallback, WInv
<1>10. ASSUME NEW n \in ProcChoices, gomaxprocsfunc(m, n) PROVE WInv'
  <2>1. mcpumax' = n /\ mcpu' = mcpu /\ incallback' = incallback /\ n \in Int
    BY <1>10, SchedAssumption DEF gomaxprocsfunc, wvars
  <2>2. CASE mcpu > n
    <3>1. mcpu' >= mcpumax'
      BY <1>0, <2>1, <2>2
    <3> QED BY Zenon, <2>1, <3>1 DEF WInv, Conserves
  <2>3. CASE ~(mcpu > n)
    <3>1. pc'[m] = "matchmg"
      BY Zenon, <1>0, <1>10, <2>3 DEF gomaxprocsfunc, CallMatchmg, Goto
    <3> QED BY Zenon, <2>1, <3>1, WMatching
  <2> QED BY Zenon, <2>2, <2>3
<1> QED BY SMTT(30), <1>2, <1>3, <1>4, <1>5, <1>6, <1>7, <1>8, <1>9, <1>10 DEF UserStep

\* In a program without callbacks from C, no goroutine is left in the queue
\* while there is room for another running M.  (The end of a callback gives
\* up a place without calling matchmg.)
THEOREM SchedWorkConserving == ASSUME Callbacks = {} PROVE Spec => []WorkConserving
<1>1. Init => WInv
  BY DEF Init, WInv, Conserves
<1>2. SInv /\ SInv' /\ WInv /\ [Next]_vars => WInv'
  <2> SUFFICES ASSUME SInv, SInv', WInv, [Next]_vars PROVE WInv'
    OBVIOUS
  <2>1. ASSUME NEW m \in M, RuntimeStep(m) \/ UserStep(m) PROVE WInv'
    BY Zenon, <2>1, WRuntime, WUser, CountingHolds
  <2>2. CASE UNCHANGED vars
    <3>1. /\ gq' = gq /\ mcpu' = mcpu /\ mcpumax' = mcpumax /\ predawn' = predawn
          /\ pc' = pc /\ nextg' = nextg /\ lockedm' = lockedm /\ incallback' = incallback
      BY <2>2 DEF vars, wvars, svars, hvars
    <3> QED BY <3>1 DEF WInv, Conserves, Serves, lockedg
  <2> QED BY <2>1, <2>2 DEF Next, Exited
<1>3. SInv /\ WInv => WorkConserving
  BY Zenon, SchedAssumption, ServedWhenFree DEF WorkConserving, Conserves
<1> QED BY <1>1, <1>2, <1>3, SchedInvariance, PTL DEF Spec

-----------------------------------------------------------------------------
\* Stopping the world, in programs that wire no goroutine and leave GOMAXPROCS
\* alone.  One M at a time stops it; from then on nobody else takes a place
\* among the running Ms, because mcpumax is 1 and that M has it.
Stopping == {"stoptheworld", "stopwait", "gc", "gcend"}
Stopped == {"gc", "gcend", "starttheworld"}
Active == CpuLabels \ {"scheduler"}

GInv ==
    /\ \A g \in G : lockedm[g] = NoM
    /\ \A m, n \in M : place[m] \in Stopping /\ place[n] \in Stopping => m = n
    /\ \A m \in M : place[m] \in Stopping => ~gcsema
    /\ \A m \in M : place[m] \in Stopped \cup {"stopwait"} => mcpumax = 1
    /\ \A m, n \in M : m # n /\ place[m] \in Stopped => place[n] \notin Active /\ nextg[n] = NoG

\* Who has the only place has it alone.
LEMMA OnlyOne ==
    ASSUME Counting, SInv, NEW m \in M, NEW n \in M, n # m, place[m] \in CpuLabels, mcpu <= 1
    PROVE  place[n] \notin CpuLabels /\ nextg[n] = NoG
<1> DEFINE S == Cpus \ {n}
<1>1. Cpus \in SUBSET M /\ S \in SUBSET M /\ m \in S /\ \A x \in M : x # n => (x \in Cpus <=> x \in S)
  BY DEF Cpus
<1>2. /\ Cardinality(Cpus) \in Nat
      /\ Cardinality(S) = Cardinality(Cpus) - (IF n \in Cpus THEN 1 ELSE 0)
  <2>1. /\ Cardinality(Cpus) \in Nat
        /\ Cardinality(S) = Cardinality(Cpus) + (IF n \in S THEN 1 ELSE 0)
                                              - (IF n \in Cpus THEN 1 ELSE 0)
    BY <1>1 DEF Counting
  <2>2. n \notin S
    OBVIOUS
  <2> HIDE DEF S
  <2> QED BY <2>1, <2>2
<1>3. Cardinality(S) \in Nat /\ Cardinality(S) > 0
  BY <1>1 DEF Counting
<1> HIDE DEF S
<1>4. n \notin Cpus
  BY <1>2, <1>3 DEF SInv, Counts
<1> QED BY Zenon, <1>4 DEF Cpus

\* With room for another M, nobody has stopped the world.
LEMMA NobodyStopped ==
    ASSUME Counting, SInv, GInv, mcpu < mcpumax, NEW m \in M PROVE place[m] \notin Stopped
<1>1. mcpu \in Int
  BY DEF SInv, STypes
<1>2. place[m] \in CpuLabels => mcpu > 0
  BY Zenon, Counted
<1> QED BY <1>1, <1>2 DEF GInv, Stopped, CpuLabels

\* Steps other than those of the collector.
LEMMA GKeeps ==
    ASSUME Counting, SInv, GInv, NEW m \in M, NEW l, place' = [place EXCEPT ![m] = l],
           lockedm' = lockedm, gcsema' = gcsema, mcpumax' = mcpumax,
           l \in Stopping \cup Stopped => l = place[m],
           \/ mcpu < mcpumax
           \/ /\ \A n \in M : nextg'[n] \in {nextg[n], NoG}
              /\ l \in Active => place[m] \in Active \/ nextg[m] # NoG
    PROVE  GInv'
<1>1. place \in [M -> Labels \ {"matchmg"}]
  BY Zenon, PlaceType DEF SInv
<1>2. \A n \in M : place'[n] \in Stopping \cup Stopped => place'[n] = place[n]
  BY Zenon, <1>1
<1>3. \A g \in G : lockedm'[g] = NoM
  BY Zenon DEF GInv
<1>4. /\ \A x, n \in M : place'[x] \in Stopping /\ place'[n] \in Stopping => x = n
      /\ \A n \in M : place'[n] \in Stopping => ~gcsema'
      /\ \A n \in M : place'[n] \in Stopped \cup {"stopwait"} => mcpumax' = 1
  BY Zenon, <1>2 DEF GInv, Stopping
<1>5. ASSUME NEW x \in M, NEW n \in M, x # n, place'[x] \in Stopped
      PROVE  place'[n] \notin Active /\ nextg'[n] = NoG
  <2>1. place[x] \in Stopped
    BY Zenon, <1>2, <1>5
  <2>2. ~(mcpu < mcpumax) /\ place[n] \notin Active /\ nextg[n] = NoG
    BY Zenon, <1>5, <2>1, NobodyStopped DEF GInv
  <2> QED BY Zenon, <1>1, <2>2
<1> QED BY Zenon, <1>3, <1>4, <1>5 DEF GInv

\* The collector's own steps: it moves from one label to the next.
LEMMA GCollects ==
    ASSUME Counting, SInv, GInv, NEW m \in M, gc(m) \/ gcdone(m) \/ gcrelease(m)
    PROVE  GInv'
<1>1. place \in [M -> Labels \ {"matchmg"}]
  BY Zenon, PlaceType DEF SInv
<1>2. lockedm' = lockedm /\ nextg' = nextg /\ mcpumax' = mcpumax /\ ret' = ret
  BY Zenon DEF gc, gcdone, gcrelease, wvars, hvars
<1>3. PICK l \in Labels \ {"matchmg"} :
        /\ Goto(m, l)
        /\ \/ l = "stoptheworld" /\ pc[m] = "user" /\ gcsema /\ gcsema' = FALSE
           \/ l = "gcend" /\ pc[m] = "gc" /\ gcsema' = gcsema
           \/ l = "starttheworld" /\ pc[m] = "gcend"
  BY Zenon DEF gc, gcdone, gcrelease, Labels, CpuLabels
<1>4. place[m] = pc[m] /\ place' = [place EXCEPT ![m] = l]
  BY ZenonT(60), <1>2, <1>3, PlaceOf, PlaceGoto DEF SInv
<1>5. /\ place'[m] = l /\ \A n \in M : n # m => place'[n] = place[n]
  BY Zenon, <1>1, <1>4
<1>6. \A g \in G : lockedm'[g] = NoM
  BY Zenon, <1>2 DEF GInv
<1>7. /\ \A x, n \in M : place'[x] \in Stopping /\ place'[n] \in Stopping => x = n
      /\ \A n \in M : place'[n] \in Stopping => ~gcsema'
  BY SMTT(30), <1>3, <1>4, <1>5 DEF GInv, Stopping
<1>8. \A n \in M : place'[n] \in Stopped \cup {"stopwait"} => mcpumax' = 1
  BY Zenon, <1>2, <1>3, <1>4, <1>5 DEF GInv, Stopped
<1>9. \A x, n \in M : x # n /\ place'[x] \in Stopped => place'[n] \notin Active /\ nextg'[n] = NoG
  BY ZenonT(60), <1>2, <1>3, <1>4, <1>5 DEF GInv, Stopped, Active, CpuLabels
<1> QED BY Zenon, <1>6, <1>7, <1>8, <1>9 DEF GInv

\* stoptheworld and its loop go on only with mcpu at 1.
LEMMA GStops ==
    ASSUME Counting, SInv, GInv, NEW m \in M, stoptheworld(m) \/ stopwake(m)
    PROVE  GInv'
<1>1. place \in [M -> Labels \ {"matchmg"}] /\ mcpu \in Int
  BY Zenon, PlaceType DEF SInv, STypes
<1>2. /\ lockedm' = lockedm /\ nextg' = nextg /\ ret' = ret /\ gcsema' = gcsema
      /\ pc[m] \in {"stoptheworld", "stopwait"} /\ AwaitStopped(m)
  BY Zenon DEF stoptheworld, stopwake, Enter, wvars, hvars, svars
<1>3. place[m] = pc[m]
  BY Zenon, <1>2, PlaceOf DEF SInv
<1>4. mcpumax' = 1
  <2>1. CASE stoptheworld(m)
    BY Zenon, <2>1 DEF stoptheworld
  <2>2. CASE stopwake(m)
    BY Zenon, <1>3, <2>2 DEF stopwake, Enter, svars, GInv
  <2> QED BY Zenon, <2>1, <2>2
<1>5. PICK l \in {"stopwait", "gc"} : Goto(m, l) /\ (l = "gc" => mcpu <= 1)
  BY <1>1, <1>2 DEF AwaitStopped
<1>6. place' = [place EXCEPT ![m] = l]
  BY Zenon, <1>2, <1>5, PlaceGoto DEF SInv, Labels, CpuLabels
<1>7. place'[m] = l /\ \A n \in M : n # m => place'[n] = place[n]
  BY Zenon, <1>1, <1>6
<1>8. \A n \in M : n # m => place[n] \notin Stopped
  BY Zenon, <1>2, <1>3 DEF GInv, Active, CpuLabels
<1>9. l = "gc" => \A n \in M : n # m => place[n] \notin CpuLabels /\ nextg[n] = NoG
  BY Zenon, <1>2, <1>3, <1>5, OnlyOne DEF CpuLabels
<1>10. /\ \A g \in G : lockedm'[g] = NoM
       /\ \A x, n \in M : place'[x] \in Stopping /\ place'[n] \in Stopping => x = n
       /\ \A n \in M : place'[n] \in Stopping => ~gcsema'
  BY Zenon, <1>2, <1>3, <1>7 DEF GInv, Stopping
<1>11. \A x, n \in M : x # n /\ place'[x] \in Stopped => place'[n] \notin Active /\ nextg'[n] = NoG
  BY Zenon, <1>2, <1>7, <1>8, <1>9 DEF Active, Stopped
<1> QED BY Zenon, <1>4, <1>10, <1>11 DEF GInv

\* starttheworld lets the others run again.
LEMMA GStarts == ASSUME Counting, SInv, GInv, NEW m \in M, starttheworld(m) PROVE GInv'
<1>1. place \in [M -> Labels \ {"matchmg"}]
  BY PlaceType DEF SInv
<1>2. /\ lockedm' = lockedm /\ nextg' = nextg /\ gcsema' = gcsema
      /\ pc[m] = "starttheworld" /\ CallMatchmg(m, "user")
  BY DEF starttheworld, Enter, wvars, hvars
<1>3. place[m] = "starttheworld" /\ place' = [place EXCEPT ![m] = "user"]
  BY Zenon, <1>2, PlaceOf, PlaceCall DEF SInv, Returns
<1>4. place'[m] = "user" /\ \A n \in M : n # m => place'[n] = place[n]
  BY Zenon, <1>1, <1>3
<1>5. \A n \in M : n # m => place[n] \notin Active
  BY Zenon, <1>3 DEF GInv, Stopped
<1>6. \A n \in M : place'[n] \notin Stopped \cup {"stopwait"}
  BY Zenon, <1>4, <1>5 DEF Active, CpuLabels, Stopped
<1> QED BY Zenon, <1>2, <1>4, <1>6 DEF GInv, Stopping

\* Every step keeps the stopped world stopped.
LEMMA GRuntime ==
    ASSUME Counting, SInv, GInv, NEW m \in M, RuntimeStep(m) PROVE GInv'
<1>0. /\ STypes /\ place \in [M -> Labels \ {"matchmg"}] /\ mcpu \in Int
      /\ lockedg(m) = {}
  BY PlaceType, SchedAssumption DEF SInv, STypes, GInv, lockedg
<1>1. CASE gcdone(m) \/ gcrelease(m) \/ stoptheworld(m) \/ stopwake(m) \/ starttheworld(m)
  BY Zenon, <1>1, GCollects, GStops, GStarts
<1>2. CASE mstart(m) \/ run(m) \/ entersyscallEnd(m)
  <2>1. /\ lockedm' = lockedm /\ gcsema' = gcsema /\ mcpumax' = mcpumax /\ nextg' = nextg
        /\ ret' = ret
    BY Zenon, <1>2 DEF mstart, run, entersyscallEnd, Unlock, wvars, svars, hvars
  <2>2. PICK l \in {"nextg", "user", "syscall"} :
          Goto(m, l) /\ (l = "user" => pc[m] = "run")
    BY Zenon, <1>2 DEF mstart, run, entersyscallEnd, Unlock
  <2>3. place' = [place EXCEPT ![m] = l] /\ (l = "user" => place[m] = "run")
    BY Zenon, <1>0, <2>1, <2>2, PlaceGoto, PlaceOf DEF Labels, CpuLabels, Locked
  <2> QED BY Zenon, <2>1, <2>2, <2>3, GKeeps DEF Stopping, Stopped, Active, CpuLabels
<1>3. CASE initdoneKick(m)
  <2>1. /\ lockedm' = lockedm /\ gcsema' = gcsema /\ mcpumax' = mcpumax /\ nextg' = nextg
        /\ pc[m] = "initdone" /\ CallMatchmg(m, "user")
    BY Zenon, <1>3 DEF initdoneKick, Enter, wvars, svars, hvars
  <2>2. place[m] = "initdone" /\ place' = [place EXCEPT ![m] = "user"]
    BY Zenon, <1>0, <2>1, PlaceCall, PlaceOf DEF Returns
  <2> QED BY Zenon, <2>1, <2>2, GKeeps DEF Stopping, Stopped, Active, CpuLabels
<1>4. CASE nextgwait(m)
  <2>1. lockedm' = lockedm /\ gcsema' = gcsema /\ mcpumax' = mcpumax /\ ret' = ret
    BY Zenon, <1>4 DEF nextgwait, Throw, Unlock, wvars, svars
  <2>2. \A n \in M : nextg'[n] \in {nextg[n], NoG}
    BY Zenon, <1>0, <1>4 DEF nextgwait, Throw, hvars, STypes
  <2>3. \E l \in {place[m], "sleep"} : place' = [place EXCEPT ![m] = l]
    <3>1. CASE AllAsleep
      <4>1. pc' = pc
        BY Zenon, <1>4, <3>1 DEF nextgwait, Throw
      <4> QED BY Zenon, <1>0, <2>1, <4>1 DEF place, Place
    <3>2. CASE ~AllAsleep
      <4>1. Goto(m, "sleep")
        BY <1>4, <3>2 DEF nextgwait, Unlock
      <4> QED BY Zenon, <1>0, <2>1, <4>1, PlaceGoto DEF Labels
    <3> QED BY <3>1, <3>2
  <2> QED BY Zenon, <2>1, <2>2, <2>3, GKeeps DEF Stopping, Stopped, Active, CpuLabels
<1>5. CASE nextgwake(m)
  <2>1. nextg[m] # NoG
    <3>1. pc[m] = "sleep" /\ ~waitnextg[m]
      BY ZenonT(30), <1>5 DEF nextgwake
    <3> QED BY Zenon, <1>0, <3>1, PlaceOf DEF SInv, Shape, Hands
  <2>2. /\ lockedm' = lockedm /\ gcsema' = gcsema /\ mcpumax' = mcpumax /\ ret' = ret
        /\ nextg' = [nextg EXCEPT ![m] = NoG] /\ Goto(m, "run")
    BY Zenon, <1>5, <2>1 DEF nextgwake, TakeNextg, wvars, svars
  <2>3. place' = [place EXCEPT ![m] = "run"] /\ \A n \in M : nextg'[n] \in {nextg[n], NoG}
    BY Zenon, <1>0, <2>2, PlaceGoto DEF Labels, CpuLabels, STypes
  <2> QED BY ZenonT(30), <2>1, <2>2, <2>3, GKeeps DEF Stopping, Stopped
<1>6. CASE nextgandunlock(m)
  <2>1. ~(mcpu < 0)
    <3>1. mcpu >= 0
      BY Counted
    <3> QED BY <1>0, <3>1
  <2>2. lockedm' = lockedm /\ gcsema' = gcsema /\ mcpumax' = mcpumax
    BY <1>6, <2>1 DEF nextgandunlock, wvars, svars
  <2>3. CASE nextg[m] # NoG
    <3>1. nextg' = [nextg EXCEPT ![m] = NoG] /\ Goto(m, "run") /\ ret' = ret
      BY Zenon, <1>6, <2>1, <2>3 DEF nextgandunlock, TakeNextg, Unlock
    <3>2. place' = [place EXCEPT ![m] = "run"] /\ \A n \in M : nextg'[n] \in {nextg[n], NoG}
      BY Zenon, <1>0, <3>1, PlaceGoto DEF Labels, CpuLabels, STypes
    <3> QED BY ZenonT(30), <2>2, <2>3, <3>2, GKeeps DEF Stopping, Stopped
  <2>4. CASE nextg[m] = NoG /\ mcpu < mcpumax /\ gq # <<>>
    <3>1. Goto(m, "run") /\ ret' = ret
      BY Zenon, <1>0, <1>6, <2>1, <2>4 DEF nextgandunlock, Unlock
    <3>2. place' = [place EXCEPT ![m] = "run"]
      BY Zenon, <1>0, <3>1, PlaceGoto DEF Labels, CpuLabels
    <3> QED BY Zenon, <2>2, <2>4, <3>2, GKeeps DEF Stopping, Stopped
  <2>5. CASE nextg[m] = NoG /\ ~(mcpu < mcpumax /\ gq # <<>>)
    <3>1. Goto(m, "nextgwait") /\ ret' = ret /\ nextg' = nextg
      BY Zenon, <1>0, <1>6, <2>1, <2>5 DEF nextgandunlock
    <3>2. place' = [place EXCEPT ![m] = "nextgwait"]
      BY Zenon, <1>0, <3>1, PlaceGoto DEF Labels, Locked
    <3> QED BY ZenonT(30), <2>2, <3>1, <3>2, GKeeps DEF Stopping, Stopped, Active, CpuLabels
  <2> QED BY Zenon, <2>3, <2>4, <2>5
<1>7. CASE matchmg(m)
  <2>1. /\ lockedm' = lockedm /\ gcsema' = gcsema /\ mcpumax' = mcpumax
        /\ pc[m] = "matchmg" /\ ret' = ret
    BY <1>7 DEF matchmg, Inside, Unlock, wvars, svars
  <2>2. CASE gcing # m /\ mcpu < mcpumax /\ gq # <<>>
    <3>1. PICK n \in M : pc' = pc \/ Goto(n, "mstart")
      BY Zenon, <1>7, <2>2 DEF matchmg
    <3>2. \E l \in {place[n], "mstart"} : place' = [place EXCEPT ![n] = l]
      <4>1. CASE pc' = pc
        BY Zenon, <1>0, <2>1, <4>1 DEF place, Place
      <4>2. CASE Goto(n, "mstart")
        BY Zenon, <1>0, <2>1, <4>2, PlaceGoto DEF Labels
      <4> QED BY Zenon, <3>1, <4>1, <4>2
    <3> QED BY ZenonT(30), <2>1, <2>2, <3>2, GKeeps DEF Stopping, Stopped
  <2>3. CASE ~(gcing # m /\ mcpu < mcpumax /\ gq # <<>>)
    <3>1. Goto(m, ret[m]) /\ nextg' = nextg
      BY Zenon, <1>7, <2>3 DEF matchmg, Unlock, hvars
    <3>2. ret[m] \in Labels \ {"matchmg"} /\ place[m] = ret[m]
      BY Zenon, <1>0, <2>1, PlaceOf DEF STypes, Returns, Labels, CpuLabels, Locked
    <3>3. place' = [place EXCEPT ![m] = place[m]]
      BY Zenon, <1>0, <2>1, <3>1, <3>2, PlaceGoto
    <3> QED BY Zenon, <2>1, <3>1, <3>3, GKeeps
  <2> QED BY SMTT(30), <2>2, <2>3
<1>8. CASE scheduler(m)
  <2>1. PICK g \in G : g = curg[m]
    BY Zenon, <1>8, SchedulerProceeds
  <2>2. /\ pc[m] = "scheduler" /\ ~predawn /\ ~(mcpu - 1 < 0)
        /\ gstatus[g] \notin {"Grunnable", "Gdead"}
        /\ readyonstop[g] => gstatus[g] \in {"Gwaiting", "Gsyscall"}
    BY Zenon, <1>8, <2>1, SchedulerProceeds
  <2>3. gcsema' = gcsema /\ mcpumax' = mcpumax
    BY Zenon, <1>8, <2>1, <2>2 DEF scheduler, svars
  <2>4. lockedm' \in {lockedm, [lockedm EXCEPT ![g] = NoM]}
    BY ZenonT(30), <1>8, <2>1, <2>2 DEF scheduler
  <2>5. lockedm' = lockedm
    BY Zenon, <1>0, <2>4 DEF GInv, STypes
  <2>6. gput(g, mcpu - 1) \/ nextg' = nextg
    BY ZenonT(60), <1>8, <2>1, <2>2 DEF scheduler, hvars
  <2>7. nextg' = nextg
    BY <2>6 DEF gput, hvars, GInv
  <2>8. place' = [place EXCEPT ![m] = "nextg"]
    <3>1. CASE readyonstop[g]
      <4>1. CallMatchmg(m, "nextg")
        BY Zenon, <1>8, <2>1, <2>2, <3>1 DEF scheduler
      <4> QED BY Zenon, <1>0, <4>1, PlaceCall DEF Returns
    <3>2. CASE ~readyonstop[g]
      <4>1. Goto(m, "nextg") /\ ret' = ret
        BY Zenon, <1>8, <2>1, <2>2, <3>2 DEF scheduler
      <4> QED BY Zenon, <1>0, <4>1, PlaceGoto DEF Labels, Locked
    <3> QED BY Zenon, <3>1, <3>2
  <2> QED BY Zenon, <2>3, <2>5, <2>7, <2>8, GKeeps DEF Stopping, Stopped, Active, CpuLabels
<1> QED BY ZenonT(60), <1>1, <1>2, <1>3, <1>4, <1>5, <1>6, <1>7, <1>8 DEF RuntimeStep

\* Steps of a goroutine, for the invariant of collections.
LEMMA GUser ==
    ASSUME Wirable = {}, ProcChoices = {}, Counting, SInv, GInv, NEW m \in M, UserStep(m)
    PROVE  GInv'
<1>0. STypes /\ place \in [M -> Labels \ {"matchmg"}] /\ mcpu \in Int /\ mcpumax \in Int
  BY PlaceType DEF SInv, STypes
<1>1. ~LockOSThread(m) /\ ~UnlockOSThread(m) /\ ~startcgocallback(m)
  <2>1. ~LockOSThread(m) /\ ~startcgocallback(m)
    BY ZenonT(30), SchedAssumption DEF LockOSThread, startcgocallback
  <2>2. ASSUME UnlockOSThread(m) PROVE FALSE
    <3>1. pc[m] = "user" /\ lockedm[curg[m]] = m
      BY Zenon, <2>2 DEF UnlockOSThread
    <3>2. curg[m] \in G
      BY Zenon, <1>0, <3>1, PlaceOf, InHand DEF SInv, CpuLabels
    <3> QED BY Zenon, <3>1, <3>2, SchedAssumption DEF GInv
  <2> QED BY <2>1, <2>2
<1>2. CASE gc(m)
  BY <1>2, GCollects
<1>3. ASSUME NEW g \in G, gput(g, mcpu), Readied(m), schedlock = NoM,
             pc[m] \in {"user", "gcend"}, lockedm' = lockedm, gcsema' = gcsema,
             mcpumax' = mcpumax
      PROVE  GInv'
  <2>1. nextg' = nextg
    BY Zenon, <1>3 DEF gput, hvars, GInv
  <2>2. place' = [place EXCEPT ![m] = place[m]]
    BY Zenon, <1>0, <1>3, ReadiedFacts
  <2> QED BY Zenon, <1>3, <2>1, <2>2, GKeeps
<1>4. CASE newproc1(m)
  <2>1. PICK g \in G : gput(g, mcpu)
    BY Zenon, <1>4 DEF newproc1
  <2>2. /\ Readied(m) /\ schedlock = NoM /\ pc[m] \in {"user", "gcend"} /\ lockedm' = lockedm
        /\ gcsema' = gcsema /\ mcpumax' = mcpumax
    BY <1>4 DEF newproc1, Enter, wvars, svars
  <2> QED BY Zenon, <1>3, <2>1, <2>2
<1>5. ASSUME NEW g \in G, ready(m, g) PROVE GInv'
  <2>1. /\ pc[m] \in {"user", "gcend"} /\ schedlock = NoM /\ gstatus[g] = "Gwaiting"
    BY ZenonT(30), <1>5 DEF ready, Enter, SInv, Shape, Sleepers
  <2>2. lockedm' = lockedm /\ gcsema' = gcsema /\ mcpumax' = mcpumax
    BY Zenon, <1>5, <2>1 DEF ready, wvars, svars
  <2>3. CASE gm[g] # NoM
    <3>1. pc' = pc /\ ret' = ret /\ nextg' = nextg
      BY Zenon, <1>5, <2>3 DEF ready, hvars
    <3>2. place' = [place EXCEPT ![m] = place[m]]
      BY Zenon, <1>0, <3>1 DEF place, Place
    <3> QED BY ZenonT(30), <2>2, <3>1, <3>2, GKeeps
  <2>4. CASE gm[g] = NoM
    <3>1. gput(g, mcpu) /\ Readied(m)
      BY ZenonT(30), <1>5, <2>1, <2>4 DEF ready
    <3> QED BY Zenon, <1>3, <2>1, <2>2, <3>1
  <2> QED BY Zenon, <2>3, <2>4
<1>6. CASE Gosched(m) \/ Park(m) \/ goexit(m) \/ initdone(m) \/ endcgocallback(m)
  <2>1. /\ lockedm' = lockedm /\ gcsema' = gcsema /\ mcpumax' = mcpumax /\ nextg' = nextg
        /\ ret' = ret /\ pc[m] = "user"
    BY Zenon, <1>6 DEF Gosched, Park, goexit, EnterScheduler, initdone, endcgocallback, Enter,
                wvars, svars, hvars
  <2>2. PICK l \in {"scheduler", "initdone", "syscall"} : Goto(m, l)
    BY ZenonT(30), <1>6 DEF Gosched, Park, goexit, EnterScheduler, initdone, endcgocallback
  <2>3. place' = [place EXCEPT ![m] = l] /\ place[m] = "user"
    BY ZenonT(30), <1>0, <2>1, <2>2, PlaceGoto, PlaceOf DEF Labels, CpuLabels
  <2> QED BY ZenonT(30), <2>1, <2>2, <2>3, GKeeps DEF Stopping, Stopped, Active, CpuLabels
<1>7. CASE entersyscall(m)
  <2>1. /\ lockedm' = lockedm /\ gcsema' = gcsema /\ mcpumax' = mcpumax /\ nextg' = nextg
        /\ Kick(m, "sysexit")
    BY <1>7 DEF entersyscall, wvars, svars, hvars
  <2>2. place' = [place EXCEPT ![m] = "sysexit"]
    <3>1. CASE gq # <<>>
      BY Zenon, <1>0, <2>1, <3>1, PlaceCall DEF Kick, Returns
    <3>2. CASE gq = <<>>
      BY Zenon, <1>0, <2>1, <3>2, PlaceGoto DEF Kick, Labels, Locked
    <3> QED BY Zenon, <3>1, <3>2
  <2> QED BY Zenon, <2>1, <2>2, GKeeps DEF Stopping, Stopped, Active, CpuLabels
<1>8. CASE exitsyscall(m)
  <2>1. /\ lockedm' = lockedm /\ gcsema' = gcsema /\ mcpumax' = mcpumax /\ nextg' = nextg
        /\ ret' = ret
    BY Zenon, <1>8 DEF exitsyscall, wvars, svars, hvars
  <2>2. PICK l \in {"user", "scheduler"} : Goto(m, l) /\ (l = "user" => mcpu < mcpumax)
    <3>1. HasRoom => mcpu < mcpumax
      BY <1>0 DEF HasRoom
    <3> QED BY Zenon, <1>8, <3>1 DEF exitsyscall
  <2>3. place' = [place EXCEPT ![m] = l]
    BY Zenon, <1>0, <2>1, <2>2, PlaceGoto DEF Labels, CpuLabels
  <2> QED BY Zenon, <2>1, <2>2, <2>3, GKeeps DEF Stopping, Stopped, Active
<1> QED BY ZenonT(60), <1>1, <1>2, <1>4, <1>5, <1>6, <1>7, <1>8 DEF UserStep

\* In a program that wires no goroutine and does not set GOMAXPROCS, nobody
\* else runs Go code between stoptheworld and starttheworld.
THEOREM SchedWorldStopped ==
    ASSUME Wirable = {}, ProcChoices = {} PROVE Spec => []WorldStopped
<1>1. Init => GInv
  BY DEF Init, GInv, place, Place, Stopping, Stopped
<1>2. SInv /\ GInv /\ [Next]_vars => GInv'
  <2> SUFFICES ASSUME SInv, GInv, [Next]_vars PROVE GInv'
    OBVIOUS
  <2>1. ASSUME NEW m \in M, RuntimeStep(m) \/ UserStep(m) PROVE GInv'
    BY Zenon, <2>1, GRuntime, GUser, CountingHolds
  <2>2. CASE UNCHANGED vars
    <3>1. /\ mcpumax' = mcpumax /\ gcsema' = gcsema /\ pc' = pc /\ ret' = ret
          /\ nextg' = nextg /\ lockedm' = lockedm
      BY <2>2 DEF vars, wvars, svars, hvars
    <3> QED BY Zenon, <3>1 DEF GInv, place, Place
  <2> QED BY <2>1, <2>2 DEF Next, Exited
<1>3. SInv /\ GInv => WorldStopped
  <2> SUFFICES ASSUME SInv, GInv, NEW m \in M, NEW n \in M, m # n, Collects(m)
               PROVE  ~Runs(n)
    BY DEF WorldStopped
  <2>1. place[m] \in Stopped
    BY Zenon, PlaceOf DEF SInv, Collects, Stopped
  <2>2. place[n] \notin Active
    BY Zenon, <2>1 DEF GInv
  <2> QED BY <2>2 DEF Runs, place, Active, CpuLabels
<1> QED BY <1>1, <1>2, <1>3, SchedInvariance, PTL DEF Spec
=============================================================================
