----------------------------- MODULE SchedSteps -----------------------------
(***************************************************************************)
(* Every step of the scheduler keeps SInv, one lemma per step. A step is   *)
(* first flattened into what it does to each variable; the lemmas of       *)
(* SchedInv then give Shape, and CountsStep and Frame give the rest. What  *)
(* the steps need to know about cardinalities is the hypothesis Counting,  *)
(* so that it is proved once (in SchedProof) and not in every step.        *)
(***************************************************************************)
EXTENDS SchedInv

-----------------------------------------------------------------------------
\* Counting Ms, when one of them changes sides.
Counting ==
    /\ Cardinality({}) = 0
    /\ \A S, T \in SUBSET M, x \in M :
         (\A n \in M : n # x => (n \in S <=> n \in T))
         => /\ Cardinality(S) \in Nat /\ (x \in S => Cardinality(S) > 0)
            /\ Cardinality(T) = Cardinality(S) + (IF x \in T THEN 1 ELSE 0)
                                               - (IF x \in S THEN 1 ELSE 0)

\* The counts are kept when one M moves and they change by what it counts for.
LEMMA CountsStep ==
    ASSUME Counting, SInv, NEW x \in M, NEW l, place' = [place EXCEPT ![x] = l],
           \A n \in M : n # x => nextg'[n] = nextg[n],
           mcpu' = mcpu + (IF l \in CpuLabels \/ nextg'[x] # NoG THEN 1 ELSE 0)
                        - (IF place[x] \in CpuLabels \/ nextg[x] # NoG THEN 1 ELSE 0),
           msyscall' = msyscall + (IF l \in System THEN 1 ELSE 0)
                                - (IF place[x] \in System THEN 1 ELSE 0)
    PROVE  Counts'
<1>1. place \in [M -> Labels \ {"matchmg"}]
  BY PlaceType DEF SInv
<1>2. /\ Cpus' \in SUBSET M /\ Cpus \in SUBSET M
      /\ \A n \in M : n # x => (n \in Cpus <=> n \in Cpus')
      /\ x \in Cpus <=> (place[x] \in CpuLabels \/ nextg[x] # NoG)
      /\ x \in Cpus' <=> (l \in CpuLabels \/ nextg'[x] # NoG)
  BY <1>1 DEF Cpus
<1>3. /\ Syscalls' \in SUBSET M /\ Syscalls \in SUBSET M
      /\ \A n \in M : n # x => (n \in Syscalls <=> n \in Syscalls')
      /\ x \in Syscalls <=> place[x] \in System
      /\ x \in Syscalls' <=> l \in System
  BY <1>1 DEF Syscalls
<1>4. mcpu' = Cardinality(Cpus')
  BY <1>2 DEF SInv, Counts, Counting
<1>5. msyscall' = Cardinality(Syscalls')
  BY <1>3 DEF SInv, Counts, Counting
<1> QED BY <1>4, <1>5 DEF Counts

\* The counts are kept when no M changes sides.
LEMMA CountsSame ==
    ASSUME Counting, SInv, NEW x \in M, NEW l, place' = [place EXCEPT ![x] = l],
           l \in CpuLabels <=> place[x] \in CpuLabels, l \in System <=> place[x] \in System,
           nextg' = nextg, mcpu' = mcpu, msyscall' = msyscall
    PROVE  Counts'
<1>1. mcpu \in Int /\ msyscall \in Int
  BY DEF SInv, STypes
<1>2. /\ mcpu' = mcpu + (IF l \in CpuLabels \/ nextg'[x] # NoG THEN 1 ELSE 0)
                     - (IF place[x] \in CpuLabels \/ nextg[x] # NoG THEN 1 ELSE 0)
      /\ msyscall' = msyscall + (IF l \in System THEN 1 ELSE 0)
                             - (IF place[x] \in System THEN 1 ELSE 0)
  BY <1>1
<1> QED BY Zenon, <1>2, CountsStep

\* sched.mcpu counts an M that has a place among the running ones.
LEMMA Counted ==
    ASSUME Counting, SInv, NEW m \in M
    PROVE  /\ mcpu >= 0 /\ msyscall >= 0
           /\ place[m] \in CpuLabels \/ nextg[m] # NoG => mcpu > 0
           /\ place[m] \in System => msyscall > 0
<1>1. mcpu = Cardinality(Cpus) /\ msyscall = Cardinality(Syscalls)
  BY DEF SInv, Counts
<1>2. Cpus \in SUBSET M /\ Syscalls \in SUBSET M
  BY DEF Cpus, Syscalls
<1>3. /\ Cardinality(Cpus) \in Nat /\ (m \in Cpus => Cardinality(Cpus) > 0)
      /\ Cardinality(Syscalls) \in Nat /\ (m \in Syscalls => Cardinality(Syscalls) > 0)
  BY <1>2 DEF Counting
<1> QED BY <1>1, <1>3 DEF Cpus, Syscalls

-----------------------------------------------------------------------------
\* What a step of m does outside the goroutines: it moves to k, taking or
\* releasing the lock as k requires.
LEMMA Frame ==
    ASSUME SInv, NEW m \in M, NEW k \in Labels, pc' = [pc EXCEPT ![m] = k],
           \/ schedlock \in {NoM, m} /\ schedlock' = IF k \in Locked THEN m ELSE NoM
           \/ pc[m] \notin Locked /\ k \notin Locked /\ schedlock' = schedlock,
           \/ schedlock \in {NoM, m}
           \/ pc[schedlock] = "matchmg"
           \/ gq' = gq /\ mcpu' = mcpu /\ mcpumax' = mcpumax,
           Elems(mhead') \subseteq Elems(mhead) \cup {m},
           k = "matchmg" => /\ pc[m] \notin {"nextgwait", "sleep"}
                            /\ Elems(mhead') \subseteq Elems(mhead),
           k = "nextgwait" => gq' = <<>> \/ mcpu' >= mcpumax',
           predawn' => /\ predawn /\ pc[m] # "new" /\ k \in {"nextg", "run", "user"}
                       /\ nextg' = nextg /\ lockedm' = lockedm /\ incallback' = incallback
                       /\ k = "nextg" => gq' # <<>>,
           \/ gcing' = NoM
           \/ gcing' = m /\ k \in {"stoptheworld", "stopwait", "gc"}
           \/ /\ gcing' = gcing
              /\ pc[m] \in {"stoptheworld", "stopwait", "gc"} => k \in {"stopwait", "gc"},
           stopped' \in {"no", "exit"}
    PROVE  Control'
<1>1. LockHeld'
  BY SchedAssumption DEF SInv, STypes, Control, LockHeld
<1>2. Dawn'
  BY DEF SInv, STypes, Control, Dawn
<1>3. NoneLeft'
  BY SchedAssumption DEF SInv, STypes, Control, NoneLeft, LockHeld, Locked
<1>4. Gcing'
  BY DEF SInv, STypes, Control, Gcing
<1>5. Ended'
  BY Zenon DEF Ended, NoThrow, DeadlockReportTrue
<1>6. Idle'
  <2>1. Elems(mhead) \subseteq M
    BY DEF SInv, STypes, Elems
  <2>2. k = "matchmg" => m \notin Elems(mhead)
    BY PlaceOf DEF SInv, Control, Idle, Shape, Pool
  <2> QED BY <2>1, <2>2 DEF SInv, STypes, Control, Idle
<1> QED BY <1>1, <1>2, <1>3, <1>4, <1>5, <1>6 DEF Control

\* The variables of Shape, unchanged.
GSame ==
    /\ gstatus' = gstatus /\ gm' = gm /\ lockedm' = lockedm /\ readyonstop' = readyonstop
    /\ sleeping' = sleeping /\ gq' = gq /\ gfree' = gfree /\ mhead' = mhead
    /\ curg' = curg /\ nextg' = nextg /\ waitnextg' = waitnextg

\* A step that moves one M and touches no goroutine.
LEMMA Moves ==
    ASSUME Counting, SInv, NEW m \in M, NEW l, place' = [place EXCEPT ![m] = l],
           \/ l = place[m]
           \/ place[m] \in Busy /\ l \in Busy \cup {"scheduler"}
           \/ place[m] = "sysexit" /\ l = "syscall"
           \/ place[m] = "mstart" /\ l = "nextg"
           \/ place[m] = "nextg" /\ l = "nextgwait" /\ nextg[m] = NoG,
           GSame, mcpu' = mcpu, msyscall' = msyscall
    PROVE  Shape' /\ Counts'
<1>1. Shape'
  BY Zenon, ShapeMoves DEF SInv, GSame
<1>2. /\ nextg' = nextg /\ (l \in System <=> place[m] \in System)
      /\ l \in CpuLabels <=> place[m] \in CpuLabels
  BY DEF GSame, Busy, CpuLabels, System
<1>3. Counts'
  BY Zenon, <1>2, CountsSame
<1> QED BY <1>1, <1>3

\* Init functions have returned.
LEMMA initdoneStep == ASSUME Counting, SInv, NEW m \in M, initdone(m) PROVE SInv'
<1>1. /\ stopped = "no" /\ pc[m] = "user" /\ pc' = [pc EXCEPT ![m] = "initdone"] /\ ret' = ret
      /\ GSame /\ mcpu' = mcpu /\ msyscall' = msyscall
      /\ predawn' = FALSE /\ mcpumax' = mcpumax /\ gomaxprocs' = gomaxprocs /\ gcing' = gcing
      /\ schedlock' = schedlock /\ stopped' = "no"
  BY DEF initdone, Goto, GSame, gvars, wvars, qvars, svars, hvars
<1>2. /\ place[m] = pc[m] /\ place' = [place EXCEPT ![m] = "initdone"]
  BY Zenon, <1>1, PlaceOf, PlaceGoto DEF SInv, Labels, CpuLabels, Locked, Returns, Goto
<1>3. STypes'
  BY Zenon, <1>1 DEF SInv, STypes, GSame, Labels, CpuLabels, Locked, Returns
<1>4. Shape' /\ Counts'
  BY Zenon, <1>1, <1>2, Moves DEF Busy
<1>5. Control'
  BY Zenon, <1>1, Frame DEF SInv, STypes, Labels, CpuLabels, Locked, GSame
<1> QED BY <1>3, <1>4, <1>5 DEF SInv

\* A collection begins.
LEMMA gcStep == ASSUME Counting, SInv, NEW m \in M, gc(m) PROVE SInv'
<1>1. /\ stopped = "no" /\ pc[m] = "user" /\ pc' = [pc EXCEPT ![m] = "stoptheworld"] /\ ret' = ret
      /\ GSame /\ mcpu' = mcpu /\ msyscall' = msyscall
      /\ ~predawn /\ predawn' = predawn /\ mcpumax' = mcpumax /\ gomaxprocs' = gomaxprocs /\ gcing' = m
      /\ schedlock' = schedlock /\ stopped' = "no"
  BY DEF gc, Goto, GSame, gvars, wvars, qvars, svars, hvars
<1>2. /\ place[m] = pc[m] /\ place' = [place EXCEPT ![m] = "stoptheworld"]
  BY Zenon, <1>1, PlaceOf, PlaceGoto DEF SInv, Labels, CpuLabels, Locked, Returns, Goto
<1>3. STypes'
  BY <1>1 DEF SInv, STypes, GSame, Labels, CpuLabels, Locked, Returns
<1>4. Shape' /\ Counts'
  BY Zenon, <1>1, <1>2, Moves DEF Busy
<1>5. Control'
  BY Zenon, <1>1, Frame DEF SInv, STypes, Labels, CpuLabels, Locked, GSame
<1> QED BY <1>3, <1>4, <1>5 DEF SInv

\* The end of initdone.
LEMMA initdoneKickStep == ASSUME Counting, SInv, NEW m \in M, initdoneKick(m) PROVE SInv'
<1>1. /\ pc[m] = "initdone" /\ schedlock = NoM /\ CallMatchmg(m, "user")
      /\ GSame /\ mcpu' = mcpu /\ msyscall' = msyscall
      /\ predawn' = predawn /\ mcpumax' = mcpumax /\ gomaxprocs' = gomaxprocs /\ gcing' = gcing
      /\ schedlock' = m /\ pc' = [pc EXCEPT ![m] = "matchmg"] /\ ret' = [ret EXCEPT ![m] = "user"] /\ stopped' = "no"
  BY DEF initdoneKick, Enter, CallMatchmg, Goto, GSame, gvars, wvars, qvars, svars, hvars
<1>2. /\ place[m] = pc[m] /\ place' = [place EXCEPT ![m] = "user"]
  BY <1>1, PlaceOf, PlaceCall DEF SInv, Labels, CpuLabels, Locked, Returns, Goto
<1>3. STypes'
  BY <1>1 DEF SInv, STypes, GSame, Labels, CpuLabels, Locked, Returns
<1>4. Shape' /\ Counts'
  BY Zenon, <1>1, <1>2, Moves DEF Busy
<1>5. Control'
  BY Zenon, <1>1, Frame DEF SInv, STypes, Labels, CpuLabels, Locked, GSame, Control, Dawn
<1> QED BY <1>3, <1>4, <1>5 DEF SInv

\* A new M enters the scheduler.
LEMMA mstartStep == ASSUME Counting, SInv, NEW m \in M, mstart(m) PROVE SInv'
<1>1. /\ schedlock = NoM /\ pc[m] = "mstart" /\ pc' = [pc EXCEPT ![m] = "nextg"] /\ ret' = ret
      /\ GSame /\ mcpu' = mcpu /\ msyscall' = msyscall
      /\ predawn' = predawn /\ mcpumax' = mcpumax /\ gomaxprocs' = gomaxprocs /\ gcing' = gcing
      /\ stopped' = "no" /\ schedlock' = m /\ incallback' = incallback
  BY DEF mstart, Enter, Goto, GSame, gvars, wvars, qvars, svars, hvars
<1>2. /\ place[m] = pc[m] /\ place' = [place EXCEPT ![m] = "nextg"]
  BY Zenon, <1>1, PlaceOf, PlaceGoto DEF SInv, Labels, CpuLabels, Locked, Returns, Goto
<1>3. STypes'
  BY <1>1 DEF SInv, STypes, GSame, Labels, CpuLabels, Locked, Returns
<1>4. Shape' /\ Counts'
  BY Zenon, <1>1, <1>2, Moves DEF Busy
<1>5. Control'
  BY Zenon, <1>1, Frame DEF SInv, STypes, Labels, CpuLabels, Locked, GSame, Control, Dawn
<1> QED BY <1>3, <1>4, <1>5 DEF SInv

\* The end of entersyscall.
LEMMA entersyscallEndStep == ASSUME Counting, SInv, NEW m \in M, entersyscallEnd(m) PROVE SInv'
<1>1. /\ schedlock = m /\ pc[m] = "sysexit" /\ pc' = [pc EXCEPT ![m] = "syscall"] /\ ret' = ret
      /\ GSame /\ mcpu' = mcpu /\ msyscall' = msyscall
      /\ predawn' = predawn /\ mcpumax' = mcpumax /\ gomaxprocs' = gomaxprocs /\ gcing' = gcing
      /\ stopped' = "no" /\ schedlock' = NoM
  BY DEF entersyscallEnd, Inside, Unlock, Goto, GSame, gvars, wvars, qvars, svars, hvars
<1>2. /\ place[m] = pc[m] /\ place' = [place EXCEPT ![m] = "syscall"]
  BY Zenon, <1>1, PlaceOf, PlaceGoto DEF SInv, Labels, CpuLabels, Locked, Returns, Goto
<1>3. STypes'
  BY <1>1 DEF SInv, STypes, GSame, Labels, CpuLabels, Locked, Returns
<1>4. Shape' /\ Counts'
  BY Zenon, <1>1, <1>2, Moves DEF Busy
<1>5. Control'
  BY Zenon, <1>1, Frame DEF SInv, STypes, Labels, CpuLabels, Locked, GSame, Control, Dawn
<1> QED BY <1>3, <1>4, <1>5 DEF SInv

\* The collection is over.
LEMMA gcdoneStep == ASSUME Counting, SInv, NEW m \in M, gcdone(m) PROVE SInv'
<1>1. /\ pc[m] = "gc" /\ pc' = [pc EXCEPT ![m] = "gcend"] /\ ret' = ret
      /\ GSame /\ mcpu' = mcpu /\ msyscall' = msyscall
      /\ predawn' = predawn /\ mcpumax' = mcpumax /\ gomaxprocs' = gomaxprocs /\ gcing' = NoM
      /\ stopped' = "no" /\ schedlock' = schedlock
  BY DEF gcdone, Goto, GSame, gvars, wvars, qvars, svars, hvars
<1>2. /\ place[m] = pc[m] /\ place' = [place EXCEPT ![m] = "gcend"]
  BY Zenon, <1>1, PlaceOf, PlaceGoto DEF SInv, Labels, CpuLabels, Locked, Returns, Goto
<1>3. STypes'
  BY <1>1 DEF SInv, STypes, GSame, Labels, CpuLabels, Locked, Returns
<1>4. Shape' /\ Counts'
  BY Zenon, <1>1, <1>2, Moves DEF Busy
<1>5. Control'
  BY Zenon, <1>1, Frame DEF SInv, STypes, Labels, CpuLabels, Locked, GSame, Control, Dawn
<1> QED BY <1>3, <1>4, <1>5 DEF SInv

\* semrelease of gcsema.
LEMMA gcreleaseStep == ASSUME Counting, SInv, NEW m \in M, gcrelease(m) PROVE SInv'
<1>1. /\ pc[m] = "gcend" /\ pc' = [pc EXCEPT ![m] = "starttheworld"] /\ ret' = ret
      /\ GSame /\ mcpu' = mcpu /\ msyscall' = msyscall
      /\ predawn' = predawn /\ mcpumax' = mcpumax /\ gomaxprocs' = gomaxprocs /\ gcing' = gcing
      /\ stopped' = "no" /\ schedlock' = schedlock
  BY DEF gcrelease, Goto, GSame, gvars, wvars, qvars, svars, hvars
<1>2. /\ place[m] = pc[m] /\ place' = [place EXCEPT ![m] = "starttheworld"]
  BY Zenon, <1>1, PlaceOf, PlaceGoto DEF SInv, Labels, CpuLabels, Locked, Returns, Goto
<1>3. STypes'
  BY <1>1 DEF SInv, STypes, GSame, Labels, CpuLabels, Locked, Returns
<1>4. Shape' /\ Counts'
  BY Zenon, <1>1, <1>2, Moves DEF Busy
<1>5. Control'
  BY Zenon, <1>1, Frame DEF SInv, STypes, Labels, CpuLabels, Locked, GSame, Control, Dawn
<1> QED BY <1>3, <1>4, <1>5 DEF SInv

\* The world is started.
LEMMA starttheworldStep == ASSUME Counting, SInv, NEW m \in M, starttheworld(m) PROVE SInv'
<1>1. /\ pc[m] = "starttheworld" /\ schedlock = NoM /\ CallMatchmg(m, "user")
      /\ GSame /\ mcpu' = mcpu /\ msyscall' = msyscall
      /\ predawn' = predawn /\ mcpumax' = gomaxprocs /\ gomaxprocs' = gomaxprocs /\ gcing' = gcing
      /\ stopped' = "no" /\ schedlock' = m
      /\ pc' = [pc EXCEPT ![m] = "matchmg"] /\ ret' = [ret EXCEPT ![m] = "user"]
  BY DEF starttheworld, Enter, CallMatchmg, Goto, GSame, gvars, wvars, qvars, svars, hvars
<1>2. /\ place[m] = pc[m] /\ place' = [place EXCEPT ![m] = "user"]
  BY <1>1, PlaceOf, PlaceCall DEF SInv, Labels, CpuLabels, Locked, Returns, Goto
<1>3. STypes'
  BY <1>1 DEF SInv, STypes, GSame, Labels, CpuLabels, Locked, Returns
<1>4. Shape' /\ Counts'
  BY Zenon, <1>1, <1>2, Moves DEF Busy
<1>5. Control'
  BY Zenon, <1>1, Frame DEF SInv, STypes, Labels, CpuLabels, Locked, GSame, Control, Dawn
<1> QED BY <1>3, <1>4, <1>5 DEF SInv

\* The world is to stop.
LEMMA stoptheworldStep == ASSUME Counting, SInv, NEW m \in M, stoptheworld(m) PROVE SInv'
<1>1. PICK l \in {"stopwait", "gc"} :
      /\ schedlock = NoM /\ pc[m] = "stoptheworld" /\ pc' = [pc EXCEPT ![m] = l] /\ ret' = ret
      /\ GSame /\ mcpu' = mcpu /\ msyscall' = msyscall
      /\ predawn' = predawn /\ mcpumax' = 1 /\ gomaxprocs' = gomaxprocs /\ gcing' = gcing
      /\ stopped' = "no" /\ schedlock' = schedlock
  BY DEF stoptheworld, Enter, AwaitStopped, Goto, GSame, gvars, wvars, qvars, svars, hvars
<1>2. /\ place[m] = pc[m] /\ place' = [place EXCEPT ![m] = l]
  BY Zenon, <1>1, PlaceOf, PlaceGoto DEF SInv, Labels, CpuLabels, Locked, Returns, Goto
<1>3. STypes'
  BY <1>1 DEF SInv, STypes, GSame, Labels, CpuLabels, Locked, Returns
<1>4. Shape' /\ Counts'
  BY Zenon, <1>1, <1>2, Moves DEF Busy
<1>5. Control'
  BY Zenon, <1>1, Frame DEF SInv, STypes, Labels, CpuLabels, Locked, GSame, Control, Dawn
<1> QED BY <1>3, <1>4, <1>5 DEF SInv

\* The M that stops the world looks again.
LEMMA stopwakeStep == ASSUME Counting, SInv, NEW m \in M, stopwake(m) PROVE SInv'
<1>1. PICK l \in {"stopwait", "gc"} :
      /\ schedlock = NoM /\ pc[m] = "stopwait" /\ pc' = [pc EXCEPT ![m] = l] /\ ret' = ret
      /\ GSame /\ mcpu' = mcpu /\ msyscall' = msyscall
      /\ predawn' = predawn /\ mcpumax' = mcpumax /\ gomaxprocs' = gomaxprocs /\ gcing' = gcing
      /\ stopped' = "no" /\ schedlock' = schedlock
  BY DEF stopwake, Enter, AwaitStopped, Goto, GSame, gvars, wvars, qvars, svars, hvars
<1>2. /\ place[m] = pc[m] /\ place' = [place EXCEPT ![m] = l]
  BY Zenon, <1>1, PlaceOf, PlaceGoto DEF SInv, Labels, CpuLabels, Locked, Returns, Goto
<1>3. STypes'
  BY <1>1 DEF SInv, STypes, GSame, Labels, CpuLabels, Locked, Returns
<1>4. Shape' /\ Counts'
  BY Zenon, <1>1, <1>2, Moves DEF Busy
<1>5. Control'
  BY Zenon, <1>1, Frame DEF SInv, STypes, Labels, CpuLabels, Locked, GSame, Control, Dawn
<1> QED BY <1>3, <1>4, <1>5 DEF SInv

\* GOMAXPROCS, with room for more Ms or too many of them.
LEMMA gomaxprocsfuncStep ==
    ASSUME Counting, SInv, NEW m \in M, NEW n \in ProcChoices, gomaxprocsfunc(m, n) PROVE SInv'
<1>1. /\ pc[m] = "user" /\ schedlock = NoM /\ ~predawn /\ predawn' = predawn
      /\ GSame /\ mcpu' = mcpu /\ msyscall' = msyscall
      /\ mcpumax' = n /\ gomaxprocs' = n /\ gcing' = gcing /\ stopped' = "no"
      /\ n \in Nat \ {0}
  BY SchedAssumption DEF gomaxprocsfunc, Enter, GSame, gvars, wvars, qvars, svars, hvars
<1>2. place[m] = "user"
  BY <1>1, PlaceOf DEF SInv
<1>3. CASE mcpu > n
  <2>1. pc' = [pc EXCEPT ![m] = "scheduler"] /\ ret' = ret /\ schedlock' = NoM
    BY <1>3 DEF gomaxprocsfunc, Unlock, Goto
  <2>2. place' = [place EXCEPT ![m] = "scheduler"]
    BY Zenon, <2>1, PlaceGoto DEF SInv, Labels, CpuLabels, Goto
  <2>3. STypes'
    BY <1>1, <2>1 DEF SInv, STypes, GSame, Labels, CpuLabels
  <2>4. Shape' /\ Counts'
    BY Zenon, <1>1, <1>2, <2>2, Moves DEF Busy
  <2>5. Control'
    BY Zenon, <1>1, <2>1, Frame DEF Labels, CpuLabels, Locked, GSame
  <2> QED BY <2>3, <2>4, <2>5 DEF SInv
<1>4. CASE ~(mcpu > n)
  <2>1. CallMatchmg(m, "user")
    BY <1>4 DEF gomaxprocsfunc
  <2>2. /\ place' = [place EXCEPT ![m] = "user"] /\ schedlock' = m
        /\ pc' = [pc EXCEPT ![m] = "matchmg"] /\ ret' \in [M -> Returns]
    BY <2>1, PlaceCall DEF SInv, Returns
  <2>3. STypes'
    BY <1>1, <2>2 DEF SInv, STypes, GSame, Labels, Locked
  <2>4. Shape' /\ Counts'
    BY Zenon, <1>1, <1>2, <2>2, Moves DEF Busy
  <2>5. Control'
    BY Zenon, <1>1, <2>2, Frame DEF Labels, Locked, GSame
  <2> QED BY <2>3, <2>4, <2>5 DEF SInv
<1> QED BY <1>3, <1>4

\* What the running goroutine's entry into the scheduler leaves alone.
LEMMA EnterSchedulerFacts ==
    ASSUME Counting, SInv, NEW m \in M, NEW s, EnterScheduler(m, s)
    PROVE  /\ pc[m] = "user" /\ pc' = [pc EXCEPT ![m] = "scheduler"] /\ ret' = ret
           /\ place[m] = "user" /\ place' = [place EXCEPT ![m] = "scheduler"]
           /\ gstatus' = [gstatus EXCEPT ![curg[m]] = s]
           /\ gm' = gm /\ lockedm' = lockedm /\ readyonstop' = readyonstop
           /\ gq' = gq /\ gfree' = gfree /\ mhead' = mhead
           /\ curg' = curg /\ nextg' = nextg /\ waitnextg' = waitnextg
           /\ curg[m] \in G /\ gstatus[curg[m]] = "Grunning"
           /\ sleeping' \subseteq G /\ s \in Statuses => STypes'
           /\ Counts' /\ Control'
<1>1. /\ pc[m] = "user" /\ ~predawn /\ predawn' = predawn /\ stopped' = "no"
      /\ pc' = [pc EXCEPT ![m] = "scheduler"] /\ ret' = ret
      /\ gstatus' = [gstatus EXCEPT ![curg[m]] = s]
      /\ gm' = gm /\ lockedm' = lockedm /\ readyonstop' = readyonstop
      /\ gq' = gq /\ gfree' = gfree /\ mhead' = mhead
      /\ curg' = curg /\ nextg' = nextg /\ waitnextg' = waitnextg
      /\ mcpu' = mcpu /\ msyscall' = msyscall /\ mcpumax' = mcpumax
      /\ gomaxprocs' = gomaxprocs /\ gcing' = gcing /\ schedlock' = schedlock
  BY DEF EnterScheduler, Goto, wvars, qvars, svars, hvars
<1>2. place[m] = "user" /\ place' = [place EXCEPT ![m] = "scheduler"]
  BY Zenon, <1>1, PlaceOf, PlaceGoto DEF SInv, Labels, CpuLabels, Goto
<1>3. curg[m] \in G /\ gstatus[curg[m]] = "Grunning"
  BY <1>2, InHand DEF SInv, CpuLabels, Busy
<1>4. sleeping' \subseteq G /\ s \in Statuses => STypes'
  BY Zenon, <1>1 DEF SInv, STypes, Labels, CpuLabels
<1>5. Counts'
  BY Zenon, <1>1, <1>2, CountsSame DEF CpuLabels, System
<1>6. Control'
  BY Zenon, <1>1, Frame DEF Labels, CpuLabels, Locked
<1> QED BY ZenonT(60), <1>1, <1>2, <1>3, <1>4, <1>5, <1>6

\* gosched, and the parking of a goroutine that somebody else will ready.
LEMMA GoschedStep == ASSUME Counting, SInv, NEW m \in M, Gosched(m) PROVE SInv'
<1>1. EnterScheduler(m, "Grunning") /\ sleeping' = sleeping
  BY DEF Gosched
<1>2. STypes' /\ Counts' /\ Control'
  BY <1>1, EnterSchedulerFacts DEF Statuses, SInv, STypes
<1>3. gstatus' = gstatus
  BY SMTT(30), <1>1, EnterSchedulerFacts DEF SInv, STypes
<1>4. Shape'
  <2>1. /\ place[m] = "user" /\ place' = [place EXCEPT ![m] = "scheduler"]
        /\ gm' = gm /\ lockedm' = lockedm /\ readyonstop' = readyonstop
        /\ gq' = gq /\ gfree' = gfree /\ mhead' = mhead
        /\ curg' = curg /\ nextg' = nextg /\ waitnextg' = waitnextg
    BY Zenon, <1>1, EnterSchedulerFacts
  <2>2. place[m] \in Busy
    BY <2>1 DEF Busy
  <2> QED BY Zenon, <1>1, <1>3, <2>1, <2>2, ShapeMoves DEF SInv
<1> QED BY <1>2, <1>4 DEF SInv

LEMMA ParkStep == ASSUME Counting, SInv, NEW m \in M, Park(m) PROVE SInv'
<1>1. EnterScheduler(m, "Gwaiting") /\ sleeping' = sleeping \cup {curg[m]}
  BY DEF Park
<1>2. sleeping' \subseteq G
  BY <1>1, EnterSchedulerFacts DEF SInv, STypes
<1>3. STypes' /\ Counts' /\ Control'
  BY <1>1, <1>2, EnterSchedulerFacts DEF Statuses
<1>4. Shape'
  BY <1>1, EnterSchedulerFacts, ShapeParks DEF SInv
<1> QED BY <1>3, <1>4 DEF SInv

\* A goroutine ends.
LEMMA goexitStep == ASSUME Counting, SInv, NEW m \in M, goexit(m) PROVE SInv'
<1>1. EnterScheduler(m, "Gmoribund") /\ sleeping' = sleeping
  BY DEF goexit
<1>2. STypes' /\ Counts' /\ Control'
  BY <1>1, EnterSchedulerFacts DEF Statuses, SInv, STypes
<1>3. Shape'
  BY <1>1, EnterSchedulerFacts, ShapeExits DEF SInv
<1> QED BY <1>2, <1>3 DEF SInv

\* runtime.LockOSThread and UnlockOSThread.
LEMMA LockOSThreadStep == ASSUME Counting, SInv, NEW m \in M, LockOSThread(m) PROVE SInv'
<1>1. /\ pc[m] = "user" /\ ~predawn /\ predawn' = predawn /\ stopped = "no" /\ stopped' = "no"
      /\ lockedm[curg[m]] = NoM /\ lockedm' = [lockedm EXCEPT ![curg[m]] = m]
      /\ gstatus' = gstatus /\ gm' = gm /\ readyonstop' = readyonstop /\ sleeping' = sleeping
      /\ gq' = gq /\ gfree' = gfree /\ mhead' = mhead
      /\ curg' = curg /\ nextg' = nextg /\ waitnextg' = waitnextg
      /\ mcpu' = mcpu /\ msyscall' = msyscall /\ mcpumax' = mcpumax
      /\ gomaxprocs' = gomaxprocs /\ gcing' = gcing /\ schedlock' = schedlock
      /\ pc' = pc /\ ret' = ret
  BY DEF LockOSThread, gvars, qvars, svars, hvars
<1>2. place[m] = "user" /\ place' = place /\ place' = [place EXCEPT ![m] = "user"]
  BY <1>1, PlaceOf DEF SInv, STypes, place, Place
<1>3. STypes'
  BY Zenon, <1>1 DEF SInv, STypes
<1>4. Shape'
  BY Zenon, <1>1, <1>2, ShapeWires DEF SInv
<1>5. Counts'
  BY Zenon, <1>1, <1>2, CountsSame
<1>6. pc' = [pc EXCEPT ![m] = "user"]
  BY <1>1 DEF SInv, STypes
<1>7. Control'
  BY Zenon, <1>1, <1>6, Frame DEF Labels, CpuLabels, Locked
<1> QED BY <1>3, <1>4, <1>5, <1>7 DEF SInv

LEMMA UnlockOSThreadStep == ASSUME Counting, SInv, NEW m \in M, UnlockOSThread(m) PROVE SInv'
<1>1. /\ pc[m] = "user" /\ predawn' = predawn /\ stopped = "no" /\ stopped' = "no"
      /\ lockedm[curg[m]] = m /\ lockedm' = [lockedm EXCEPT ![curg[m]] = NoM]
      /\ gstatus' = gstatus /\ gm' = gm /\ readyonstop' = readyonstop /\ sleeping' = sleeping
      /\ gq' = gq /\ gfree' = gfree /\ mhead' = mhead
      /\ curg' = curg /\ nextg' = nextg /\ waitnextg' = waitnextg
      /\ mcpu' = mcpu /\ msyscall' = msyscall /\ mcpumax' = mcpumax
      /\ gomaxprocs' = gomaxprocs /\ gcing' = gcing /\ schedlock' = schedlock
      /\ pc' = pc /\ ret' = ret
  BY DEF UnlockOSThread, gvars, qvars, svars, hvars
<1>2. place[m] = "user" /\ place' = place /\ place' = [place EXCEPT ![m] = "user"]
  BY Zenon, <1>1, PlaceOf DEF SInv, STypes, place, Place
<1>3. STypes'
  BY ZenonT(30), <1>1 DEF SInv, STypes
<1>4. curg[m] \in G
  BY <1>2, InHand DEF SInv, CpuLabels
<1>5. ~predawn
  BY Zenon, <1>1, <1>4, SchedAssumption DEF SInv, Control, Dawn
<1>6. Shape'
  BY Zenon, <1>1, <1>2, <1>4, ShapeUnwires DEF SInv
<1>7. Counts'
  BY ZenonT(30), <1>1, <1>2, CountsSame
<1>8. pc' = [pc EXCEPT ![m] = "user"]
  BY <1>1 DEF SInv, STypes
<1>9. Control'
  BY Zenon, <1>1, <1>5, <1>8, Frame DEF Labels, CpuLabels, Locked
<1> QED BY <1>3, <1>6, <1>7, <1>9 DEF SInv

\* gogo: the goroutine in hand starts to run.
LEMMA runStep == ASSUME Counting, SInv, NEW m \in M, run(m) PROVE SInv'
<1>1. /\ pc[m] = "run" /\ pc' = [pc EXCEPT ![m] = "user"] /\ ret' = ret
      /\ readyonstop' = [readyonstop EXCEPT ![curg[m]] = FALSE]
      /\ gstatus' = [gstatus EXCEPT ![curg[m]] = "Grunning"]
      /\ gm' = [gm EXCEPT ![curg[m]] = m]
      /\ sleeping' = sleeping /\ lockedm' = lockedm
      /\ gq' = gq /\ gfree' = gfree /\ mhead' = mhead
      /\ curg' = curg /\ nextg' = nextg /\ waitnextg' = waitnextg
      /\ mcpu' = mcpu /\ msyscall' = msyscall /\ mcpumax' = mcpumax /\ predawn' = predawn
      /\ gomaxprocs' = gomaxprocs /\ gcing' = gcing /\ schedlock' = schedlock /\ stopped' = "no"
      /\ incallback' = incallback
  BY Zenon DEF run, Goto, wvars, qvars, svars, hvars
<1>2. place[m] = "run" /\ place' = [place EXCEPT ![m] = "user"]
  BY Zenon, <1>1, PlaceOf, PlaceGoto DEF SInv, Labels, CpuLabels, Goto
<1>3. STypes'
  BY Zenon, <1>1 DEF SInv, STypes, Labels, CpuLabels, Statuses
<1>4. Shape'
  BY Zenon, <1>1, <1>2, ShapeRuns DEF SInv
<1>5. Counts'
  BY Zenon, <1>1, <1>2, CountsSame DEF CpuLabels, System
<1>6. Control'
  BY Zenon, <1>1, Frame DEF Labels, CpuLabels, Locked
<1> QED BY <1>3, <1>4, <1>5, <1>6 DEF SInv

\* entersyscall, and endcgocallback, which goes back to C without matchmg.
LEMMA EntersSystem ==
    ASSUME Counting, SInv, NEW m \in M, NEW l \in System, pc[m] = "user", ~predawn, predawn' = predawn,
           schedlock = NoM, place' = [place EXCEPT ![m] = l],
           gstatus' = [gstatus EXCEPT ![curg[m]] = "Gsyscall"],
           mcpu' = mcpu - 1, msyscall' = msyscall + 1,
           gm' = gm, lockedm' = lockedm, readyonstop' = readyonstop, sleeping' = sleeping,
           gq' = gq, gfree' = gfree, mhead' = mhead,
           curg' = curg, nextg' = nextg, waitnextg' = waitnextg
    PROVE  Shape' /\ Counts'
<1>1. place[m] = "user"
  BY PlaceOf DEF SInv
<1>2. Shape'
  BY Zenon, <1>1, ShapeEntersSystem DEF SInv
<1>3. /\ mcpu \in Int /\ msyscall \in Int /\ nextg[m] = NoG
      /\ "user" \in CpuLabels /\ "user" \notin System /\ l \notin CpuLabels
  BY Zenon, <1>1 DEF SInv, STypes, Shape, Hands, CpuLabels, System
<1>4. /\ mcpu' = mcpu + (IF l \in CpuLabels \/ nextg'[m] # NoG THEN 1 ELSE 0)
                     - (IF place[m] \in CpuLabels \/ nextg[m] # NoG THEN 1 ELSE 0)
      /\ msyscall' = msyscall + (IF l \in System THEN 1 ELSE 0)
                             - (IF place[m] \in System THEN 1 ELSE 0)
  BY <1>1, <1>3
<1>5. Counts'
  BY Zenon, <1>4, CountsStep
<1> QED BY <1>2, <1>5

\* A goroutine enters a system call.
LEMMA entersyscallStep == ASSUME Counting, SInv, NEW m \in M, entersyscall(m) PROVE SInv'
<1>1. /\ pc[m] = "user" /\ ~predawn /\ predawn' = predawn /\ schedlock = NoM /\ stopped' = "no"
      /\ gstatus' = [gstatus EXCEPT ![curg[m]] = "Gsyscall"]
      /\ gm' = gm /\ lockedm' = lockedm /\ readyonstop' = readyonstop /\ sleeping' = sleeping
      /\ gq' = gq /\ gfree' = gfree /\ mhead' = mhead
      /\ curg' = curg /\ nextg' = nextg /\ waitnextg' = waitnextg
      /\ mcpumax' = mcpumax /\ gomaxprocs' = gomaxprocs /\ gcing' = gcing
  BY DEF entersyscall, Enter, wvars, qvars, svars, hvars
<1>c. mcpu' = mcpu - 1 /\ msyscall' = msyscall + 1
  BY DEF entersyscall
<1>t. mcpu' \in Int /\ msyscall' \in Int
  BY <1>c DEF SInv, STypes
<1>2. /\ place' = [place EXCEPT ![m] = "sysexit"] /\ schedlock' = m /\ ret' \in [M -> Returns]
      /\ \E k \in {"matchmg", "sysexit"} : pc' = [pc EXCEPT ![m] = k]
  <2>1. CASE gq # <<>>
    BY Zenon, <2>1, PlaceCall DEF SInv, entersyscall, Kick, Returns
  <2>2. CASE gq = <<>>
    BY <2>2, PlaceGoto DEF SInv, STypes, entersyscall, Kick, Goto, Labels, Locked
  <2> QED BY <2>1, <2>2
<1>3. STypes'
  BY Zenon, <1>t, <1>1, <1>2 DEF SInv, STypes, Labels, Locked, Statuses
<1>4. Shape' /\ Counts'
  BY Zenon, <1>c, <1>1, <1>2, EntersSystem DEF System
<1>5. Control'
  BY Zenon, <1>c, <1>1, <1>2, Frame DEF Labels, Locked
<1> QED BY <1>3, <1>4, <1>5 DEF SInv

\* A callback from C ends.
LEMMA endcgocallbackStep == ASSUME Counting, SInv, NEW m \in M, endcgocallback(m) PROVE SInv'
<1>1. /\ pc[m] = "user" /\ schedlock = NoM /\ predawn' = predawn /\ stopped' = "no"
      /\ curg[m] \in incallback /\ schedlock' = schedlock
      /\ gstatus' = [gstatus EXCEPT ![curg[m]] = "Gsyscall"]
      /\ gm' = gm /\ lockedm' = lockedm /\ readyonstop' = readyonstop /\ sleeping' = sleeping
      /\ gq' = gq /\ gfree' = gfree /\ mhead' = mhead
      /\ curg' = curg /\ nextg' = nextg /\ waitnextg' = waitnextg
      /\ mcpumax' = mcpumax /\ gomaxprocs' = gomaxprocs /\ gcing' = gcing
      /\ pc' = [pc EXCEPT ![m] = "syscall"] /\ ret' = ret
  BY DEF endcgocallback, Enter, Goto, qvars, svars, hvars
<1>c. mcpu' = mcpu - 1 /\ msyscall' = msyscall + 1
  BY DEF endcgocallback
<1>t. mcpu' \in Int /\ msyscall' \in Int
  BY <1>c DEF SInv, STypes
<1>2. place' = [place EXCEPT ![m] = "syscall"]
  BY Zenon, <1>1, PlaceGoto DEF SInv, Labels, Goto, CpuLabels, Locked
<1>3. ~predawn
  BY <1>1 DEF SInv, Control, Dawn
<1>4. STypes'
  BY Zenon, <1>t, <1>1 DEF SInv, STypes, Labels, Statuses
<1>5. Shape' /\ Counts'
  BY Zenon, <1>c, <1>1, <1>2, <1>3, EntersSystem DEF System
<1>6. Control'
  BY Zenon, <1>c, <1>1, <1>3, Frame DEF Labels, Locked
<1> QED BY <1>4, <1>5, <1>6 DEF SInv

\* The count, when m leaves a system call for l.
LEMMA LeavesSystem ==
    ASSUME Counting, SInv, NEW m \in M, place[m] = "syscall", NEW l \in {"user", "scheduler"},
           place' = [place EXCEPT ![m] = l], nextg' = nextg,
           mcpu' = mcpu + 1, msyscall' = msyscall - 1
    PROVE  Counts'
<1>1. /\ mcpu \in Int /\ msyscall \in Int /\ nextg[m] = NoG
      /\ l \in CpuLabels /\ l \notin System /\ "syscall" \in System /\ "syscall" \notin CpuLabels
  BY Zenon DEF SInv, STypes, Shape, Hands, CpuLabels, System
<1>2. /\ mcpu' = mcpu + (IF l \in CpuLabels \/ nextg'[m] # NoG THEN 1 ELSE 0)
                     - (IF place[m] \in CpuLabels \/ nextg[m] # NoG THEN 1 ELSE 0)
      /\ msyscall' = msyscall + (IF l \in System THEN 1 ELSE 0)
                             - (IF place[m] \in System THEN 1 ELSE 0)
  BY <1>1
<1> QED BY Zenon, <1>2, CountsStep

\* A goroutine leaves a system call, the fast way or through the scheduler.
LEMMA exitsyscallStep == ASSUME Counting, SInv, NEW m \in M, exitsyscall(m) PROVE SInv'
<1>1. /\ pc[m] = "syscall" /\ schedlock = NoM /\ predawn' = predawn /\ stopped' = "no"
      /\ schedlock' = schedlock /\ ret' = ret
      /\ gm' = gm /\ lockedm' = lockedm /\ sleeping' = sleeping
      /\ gq' = gq /\ gfree' = gfree /\ mhead' = mhead
      /\ curg' = curg /\ nextg' = nextg /\ waitnextg' = waitnextg
      /\ mcpumax' = mcpumax /\ gomaxprocs' = gomaxprocs /\ gcing' = gcing
  BY DEF exitsyscall, Enter, wvars, qvars, svars, hvars
<1>c. mcpu' = mcpu + 1 /\ msyscall' = msyscall - 1
  BY DEF exitsyscall
<1>t. mcpu' \in Int /\ msyscall' \in Int
  BY SMTT(30), <1>c DEF SInv, STypes
<1>2. place[m] = "syscall" /\ ~predawn
  BY Zenon, <1>1, PlaceOf DEF SInv, Control, Dawn
<1>3. CASE HasRoom
  <2>1. /\ gstatus' = [gstatus EXCEPT ![curg[m]] = "Grunning"] /\ readyonstop' = readyonstop
        /\ pc' = [pc EXCEPT ![m] = "user"]
    BY <1>3 DEF exitsyscall, Goto
  <2>2. place' = [place EXCEPT ![m] = "user"]
    BY Zenon, <1>1, <2>1, PlaceGoto DEF SInv, Labels, CpuLabels, Goto
  <2>3. STypes'
    BY Zenon, <1>t, <1>1, <2>1 DEF SInv, STypes, Labels, CpuLabels, Statuses
  <2>4. Shape'
    BY Zenon, <1>1, <1>2, <2>1, <2>2, ShapeLeavesSystem DEF SInv
  <2>5. Counts'
    BY Zenon, <1>c, <1>1, <1>2, <2>2, LeavesSystem
  <2>6. Control'
    BY Zenon, <1>c, <1>1, <1>2, <2>1, Frame DEF Labels, CpuLabels, Locked
  <2> QED BY <2>3, <2>4, <2>5, <2>6 DEF SInv
<1>4. CASE ~HasRoom
  <2>1. /\ readyonstop' = [readyonstop EXCEPT ![curg[m]] = TRUE] /\ gstatus' = gstatus
        /\ pc' = [pc EXCEPT ![m] = "scheduler"]
    BY <1>4 DEF exitsyscall, SlowExit, Goto
  <2>2. place' = [place EXCEPT ![m] = "scheduler"]
    BY Zenon, <1>1, <2>1, PlaceGoto DEF SInv, Labels, CpuLabels, Goto
  <2>3. STypes'
    BY Zenon, <1>t, <1>1, <2>1 DEF SInv, STypes, Labels, CpuLabels
  <2>4. Shape'
    BY Zenon, <1>1, <1>2, <2>1, <2>2, ShapeSlowExit DEF SInv
  <2>5. Counts'
    BY Zenon, <1>c, <1>1, <1>2, <2>2, LeavesSystem
  <2>6. Control'
    BY Zenon, <1>c, <1>1, <1>2, <2>1, Frame DEF Labels, CpuLabels, Locked
  <2> QED BY <2>3, <2>4, <2>5, <2>6 DEF SInv
<1> QED BY Zenon, <1>3, <1>4

\* A callback from C starts.
LEMMA startcgocallbackStep == ASSUME Counting, SInv, NEW m \in M, startcgocallback(m) PROVE SInv'
<1>1. /\ pc[m] = "syscall" /\ schedlock = NoM /\ predawn' = predawn /\ stopped' = "no"
      /\ schedlock' = schedlock /\ ret' = ret /\ pc' = [pc EXCEPT ![m] = "user"]
      /\ gstatus' = [gstatus EXCEPT ![curg[m]] = "Grunning"] /\ readyonstop' = readyonstop
      /\ gm' = gm /\ lockedm' = lockedm /\ sleeping' = sleeping
      /\ gq' = gq /\ gfree' = gfree /\ mhead' = mhead
      /\ curg' = curg /\ nextg' = nextg /\ waitnextg' = waitnextg
      /\ mcpumax' = mcpumax /\ gomaxprocs' = gomaxprocs /\ gcing' = gcing
  BY DEF startcgocallback, Enter, Goto, qvars, svars, hvars
<1>c. mcpu' = mcpu + 1 /\ msyscall' = msyscall - 1
  BY DEF startcgocallback
<1>t. mcpu' \in Int /\ msyscall' \in Int
  BY <1>c DEF SInv, STypes
<1>2. /\ place[m] = "syscall" /\ ~predawn
      /\ place' = [place EXCEPT ![m] = "user"]
  BY Zenon, <1>1, PlaceOf, PlaceGoto DEF SInv, Control, Dawn, Labels, CpuLabels, Goto
<1>3. STypes'
  BY Zenon, <1>t, <1>1 DEF SInv, STypes, Labels, CpuLabels, Statuses
<1>4. Shape'
  BY Zenon, <1>1, <1>2, ShapeLeavesSystem DEF SInv
<1>5. Counts'
  BY Zenon, <1>c, <1>1, <1>2, LeavesSystem
<1>6. Control'
  BY Zenon, <1>c, <1>1, <1>2, Frame DEF Labels, CpuLabels, Locked
<1> QED BY <1>3, <1>4, <1>5, <1>6 DEF SInv

\* A step that leaves the scheduler alone, but for waking or ending.
LEMMA Stays ==
    ASSUME SInv, GSame, mcpu' = mcpu, msyscall' = msyscall, mcpumax' = mcpumax,
           gomaxprocs' = gomaxprocs, gcing' = gcing, incallback' = incallback,
           predawn' = predawn, schedlock' = schedlock, pc' = pc, ret' = ret, Ended'
    PROVE  SInv'
<1>1. place' = place
  BY DEF place, Place
<1>2. STypes'
  BY SMTT(30) DEF SInv, STypes, GSame
<1>3. Shape'
  <2>1. Hands' /\ Apart' /\ Runnable'
    BY <1>1 DEF SInv, GSame, Shape, Hands, Apart, Runnable, Elems, NoDup
  <2>2. Running' /\ Status' /\ Sleepers'
    BY Zenon, <1>1 DEF SInv, GSame, Shape, Running, Status, Sleepers, Elems, NoDup
  <2>3. FreeList' /\ Pool' /\ Wired'
    BY <1>1 DEF SInv, GSame, Shape, FreeList, Pool, Wired, Elems, NoDup
  <2> QED BY ZenonT(60), <2>1, <2>2, <2>3 DEF Shape
<1>4. Counts'
  BY Zenon, <1>1 DEF SInv, GSame, Counts, Cpus, Syscalls
<1>5. Control'
  BY DEF SInv, GSame, Control, LockHeld, Dawn, NoneLeft, Idle, Gcing, Elems
<1> QED BY <1>2, <1>3, <1>4, <1>5 DEF SInv

\* An M wakes up with the goroutine that was handed to it.
LEMMA nextgwakeStep == ASSUME Counting, SInv, NEW m \in M, nextgwake(m) PROVE SInv'
<1>1. pc[m] = "sleep" /\ ~waitnextg[m]
  BY ZenonT(30) DEF nextgwake
<1>2. place[m] = "sleep" /\ nextg[m] # NoG
  BY Zenon, <1>1, PlaceOf DEF SInv, Shape, Hands
<1>3. /\ stopped' = "no" /\ pc' = [pc EXCEPT ![m] = "run"] /\ ret' = ret
      /\ curg' = [curg EXCEPT ![m] = nextg[m]] /\ nextg' = [nextg EXCEPT ![m] = NoG]
      /\ gstatus' = gstatus /\ gm' = gm /\ lockedm' = lockedm /\ readyonstop' = readyonstop
      /\ sleeping' = sleeping /\ incallback' = incallback /\ waitnextg' = waitnextg
      /\ gq' = gq /\ gfree' = gfree /\ mhead' = mhead
      /\ mcpu' = mcpu /\ msyscall' = msyscall /\ mcpumax' = mcpumax /\ predawn' = predawn
      /\ gomaxprocs' = gomaxprocs /\ gcing' = gcing /\ schedlock' = schedlock
  BY Zenon, <1>2 DEF nextgwake, TakeNextg, Goto, gvars, wvars, qvars, svars
<1>4. place' = [place EXCEPT ![m] = "run"]
  BY Zenon, <1>3, PlaceGoto DEF SInv, Labels, CpuLabels, Goto
<1>5. STypes'
  BY <1>3 DEF SInv, STypes, Labels, CpuLabels
<1>6. Shape'
  BY Zenon, <1>2, <1>3, <1>4, ShapeTakesNextg DEF SInv
<1>7. Counts'
  <2>1. \A n \in M : n # m => nextg'[n] = nextg[n]
    BY <1>3 DEF SInv, STypes
  <2>2. nextg'[m] = NoG
    BY Zenon, <1>3 DEF SInv, STypes
  <2>3. /\ mcpu' = mcpu + (IF "run" \in CpuLabels \/ nextg'[m] # NoG THEN 1 ELSE 0)
                        - (IF place[m] \in CpuLabels \/ nextg[m] # NoG THEN 1 ELSE 0)
        /\ msyscall' = msyscall + (IF "run" \in System THEN 1 ELSE 0)
                                - (IF place[m] \in System THEN 1 ELSE 0)
    BY <1>2, <1>3 DEF SInv, STypes, CpuLabels, System
  <2> QED BY ZenonT(30), <1>4, <2>1, <2>3, CountsStep
<1>8. Control'
  BY Zenon, <1>1, <1>3, Frame DEF SInv, Control, Dawn, Labels, CpuLabels, Locked
<1> QED BY <1>5, <1>6, <1>7, <1>8 DEF SInv

\* When nobody runs, is about to, or is in a system call, every goroutine waits.
LEMMA Deadlocked ==
    ASSUME Counting, SInv, NEW m \in M, pc[m] = "nextgwait", mcpu = 0, msyscall = 0
    PROVE  \A g \in G : gstatus[g] \in {"Gidle", "Gdead", "Gwaiting"}
<1>1. gq = <<>>
  BY SMTT(30) DEF SInv, STypes, Control, NoneLeft
<1>2. \A n \in M : place[n] \notin CpuLabels /\ place[n] \notin System /\ nextg[n] = NoG
  <2>1. ~(mcpu > 0) /\ ~(msyscall > 0)
    BY SMT
  <2> QED BY Zenon, <2>1, Counted
<1>3. Elems(gq) = {}
  BY SMTT(30), <1>1 DEF Elems
<1>4. \A n \in M : curg[n] = NoG /\ place[n] # "run"
  BY Zenon, <1>2 DEF SInv, Shape, Hands, CpuLabels
<1>5. \A g \in G : gm[g] = NoM
  BY SMTT(30), <1>4, SchedAssumption DEF SInv, STypes, Shape, Running
<1>6. \A g \in G : gstatus[g] \notin {"Grunning", "Gsyscall", "Gmoribund"}
  BY SMTT(30), <1>5 DEF SInv, Shape, Status
<1>7. \A g \in G : gstatus[g] # "Grunnable"
  <2>1. \A g \in G : gstatus[g] = "Grunnable" =>
            g \in Elems(gq) \/ \E n \in M : nextg[n] = g \/ (curg[n] = g /\ place[n] = "run")
    BY Zenon DEF SInv, Shape, Runnable
  <2>2. \A g \in G : g # NoG
    BY Zenon, SchedAssumption
  <2> QED BY Zenon, <1>2, <1>3, <1>4, <2>1, <2>2
<1> QED BY <1>6, <1>7 DEF SInv, STypes, Statuses

\* An M that finds nothing to do goes to sleep, or reports the deadlock.
LEMMA nextgwaitStep == ASSUME Counting, SInv, NEW m \in M, nextgwait(m) PROVE SInv'
<1>1. pc[m] = "nextgwait" /\ schedlock = m
  BY Zenon DEF nextgwait, Inside
<1>2. place[m] = "nextgwait" /\ nextg[m] = NoG
  BY <1>1, PlaceOf DEF SInv, Shape, Hands
<1>3. CASE AllAsleep
  <2>1. /\ stopped' = "all goroutines are asleep - deadlock!" /\ GSame
        /\ mcpu' = mcpu /\ msyscall' = msyscall /\ mcpumax' = mcpumax
        /\ gomaxprocs' = gomaxprocs /\ gcing' = gcing /\ incallback' = incallback
        /\ predawn' = predawn /\ schedlock' = schedlock /\ pc' = pc /\ ret' = ret
    BY Zenon, <1>3 DEF nextgwait, Throw, GSame, gvars, wvars, qvars, svars, hvars
  <2>2. \A g \in G : gstatus'[g] \in {"Gidle", "Gdead", "Gwaiting"}
    BY Zenon, <1>1, <1>3, <2>1, Deadlocked DEF AllAsleep, GSame
  <2>3. Ended'
    BY Zenon, <2>1, <2>2 DEF Ended, NoThrow, DeadlockReportTrue
  <2> QED BY Zenon, <2>1, <2>3, Stays
<1>4. CASE ~AllAsleep
  <2>1. /\ stopped' = "no" /\ pc' = [pc EXCEPT ![m] = "sleep"] /\ ret' = ret
        /\ nextg' = [nextg EXCEPT ![m] = NoG] /\ waitnextg' = [waitnextg EXCEPT ![m] = TRUE]
        /\ gstatus' = gstatus /\ gm' = gm /\ lockedm' = lockedm
        /\ readyonstop' = readyonstop /\ sleeping' = sleeping /\ incallback' = incallback
        /\ gq' = gq /\ gfree' = gfree /\ mhead' = mhead /\ curg' = curg
        /\ mcpu' = mcpu /\ msyscall' = msyscall /\ mcpumax' = mcpumax /\ predawn' = predawn
        /\ gomaxprocs' = gomaxprocs /\ gcing' = gcing /\ schedlock' = NoM
    BY <1>4 DEF nextgwait, Inside, Unlock, Goto, gvars, wvars, qvars, svars
  <2>2. nextg' = nextg
    BY <1>2, <2>1 DEF SInv, STypes
  <2>3. place' = [place EXCEPT ![m] = "sleep"]
    BY Zenon, <2>1, PlaceGoto DEF SInv, Labels, Goto
  <2>4. STypes'
    BY <2>1, <2>2 DEF SInv, STypes, Labels
  <2>5. Shape'
    BY Zenon, <1>2, <2>1, <2>2, <2>3, ShapeWaits DEF SInv
  <2>6. Counts'
    BY Zenon, <1>2, <2>1, <2>2, <2>3, CountsSame DEF CpuLabels, System
  <2>7. Control'
    BY Zenon, <1>1, <2>1, Frame DEF SInv, Control, Dawn, Labels, Locked
  <2> QED BY <2>4, <2>5, <2>6, <2>7 DEF SInv
<1> QED BY <1>3, <1>4

\* The end of readylocked: m keeps its place, and serves the queue after init.
LEMMA ReadiedFacts ==
    ASSUME SInv, NEW m \in M, pc[m] \in {"user", "gcend"}, schedlock = NoM, Readied(m)
    PROVE  /\ place' = place /\ ret' \in [M -> Returns]
           /\ \E k \in Labels :
                /\ k \in {"user", "matchmg"} /\ (predawn => k = "user")
                /\ pc' = [pc EXCEPT ![m] = k]
                /\ schedlock' = IF k \in Locked THEN m ELSE NoM
<1>1. place[m] = pc[m] /\ place \in [M -> Labels \ {"matchmg"}]
  BY Zenon, PlaceOf, PlaceType DEF SInv
<1>2. CASE predawn
  <2>1. pc[m] = "user"
    BY <1>2 DEF SInv, Control, Dawn
  <2>2. schedlock' = NoM /\ pc' = [pc EXCEPT ![m] = "user"] /\ ret' = ret
    BY <1>2, <2>1 DEF Readied, Unlock, Goto
  <2>3. place' = place
    BY <2>1, <2>2 DEF SInv, STypes, place, Place
  <2> QED BY <2>2, <2>3 DEF SInv, STypes, Labels, CpuLabels, Locked
<1>3. CASE ~predawn
  <2>1. CallMatchmg(m, pc[m]) /\ pc[m] \in Returns
    BY <1>3 DEF Readied, Returns
  <2>2. /\ place' = [place EXCEPT ![m] = pc[m]] /\ schedlock' = m
        /\ pc' = [pc EXCEPT ![m] = "matchmg"] /\ ret' \in [M -> Returns]
    BY <2>1, PlaceCall DEF SInv
  <2>3. place' = place
    BY <1>1, <2>2
  <2> QED BY Zenon, <1>3, <2>2, <2>3 DEF Labels, Locked
<1> QED BY Zenon, <1>2, <1>3

\* Who is not in the hands of an M, and where it is put.
LEMMA Puttable ==
    ASSUME SInv, NEW g \in G, gstatus[g] \in {"Gidle", "Gdead"}
    PROVE  gm[g] = NoM /\ lockedm[g] = NoM /\ g \notin Elems(gq) /\ g \notin sleeping
<1>1. gm[g] = NoM
  <2> SUFFICES ASSUME gm[g] # NoM PROVE FALSE
    OBVIOUS
  <2>1. gm[g] \in M /\ curg[gm[g]] = g /\ place[gm[g]] # "run"
    BY Zenon DEF SInv, STypes, Shape, Running
  <2>2. place[gm[g]] \in CpuLabels \cup System
    BY SMTT(30), <2>1, SchedAssumption DEF SInv, Shape, Hands
  <2> QED BY <2>1, <2>2, InHand DEF SInv
<1>2. lockedm[g] = NoM
  BY Zenon DEF SInv, Shape, Wired
<1>3. g \notin Elems(gq) /\ g \notin sleeping
  BY DEF SInv, Shape, Runnable, Sleepers
<1> QED BY Zenon, <1>1, <1>2, <1>3

\* A new goroutine.
LEMMA newproc1Step == ASSUME Counting, SInv, NEW m \in M, newproc1(m) PROVE SInv'
<1>1. /\ pc[m] \in {"user", "gcend"} /\ schedlock = NoM /\ Readied(m) /\ stopped' = "no"
      /\ gm' = gm /\ lockedm' = lockedm /\ readyonstop' = readyonstop
      /\ sleeping' = sleeping /\ incallback' = incallback /\ mhead' = mhead /\ curg' = curg
      /\ msyscall' = msyscall /\ mcpumax' = mcpumax /\ predawn' = predawn
      /\ gomaxprocs' = gomaxprocs /\ gcing' = gcing
  BY DEF newproc1, Enter, wvars, svars
<1>2. PICK g \in G :
        /\ IF gfree # <<>> THEN g = Head(gfree) /\ gfree' = Tail(gfree)
                           ELSE gstatus[g] = "Gidle" /\ UNCHANGED gfree
        /\ gstatus' = [gstatus EXCEPT ![g] = "Grunnable"]
        /\ gput(g, mcpu)
  BY Zenon DEF newproc1
<1>3. /\ gstatus[g] \in {"Gidle", "Gdead"} /\ gfree' \in Seq(G) /\ NoDup(gfree')
      /\ Elems(gfree') = Elems(gfree) \ {g}
  <2>1. gfree \in Seq(G) /\ NoDup(gfree) /\ \A h \in Elems(gfree) : gstatus[h] = "Gdead"
    BY DEF SInv, STypes, Shape, FreeList
  <2>2. CASE gfree # <<>>
    <3>1. g = Head(gfree) /\ gfree' = Tail(gfree)
      BY <1>2, <2>2
    <3> QED BY <2>1, <2>2, <3>1, ElemsTail
  <2>3. CASE gfree = <<>>
    BY Zenon, <1>2, <2>1, <2>3
  <2> QED BY Zenon, <2>2, <2>3
<1>4. gm[g] = NoM /\ lockedm[g] = NoM /\ g \notin Elems(gq) /\ g \notin sleeping
  BY Zenon, <1>3, Puttable
<1>5. gq' = Append(gq, g) /\ nextg' = nextg /\ waitnextg' = waitnextg /\ mcpu' = mcpu
  BY Zenon, <1>2, <1>4 DEF gput, hvars
<1>6. gq' \in Seq(G) /\ gq' # <<>> /\ NoDup(gq') /\ Elems(gq') = Elems(gq) \cup {g}
  BY <1>4, <1>5, ElemsAppend DEF SInv, STypes, Shape, Apart
<1>7. place' = place /\ ret' \in [M -> Returns]
  BY <1>1, ReadiedFacts
<1>8. PICK k \in Labels : /\ k \in {"user", "matchmg"} /\ (predawn => k = "user")
                          /\ pc' = [pc EXCEPT ![m] = k]
                          /\ schedlock' = IF k \in Locked THEN m ELSE NoM
  BY Zenon, <1>1, ReadiedFacts
<1>9. STypes'
  BY Zenon, <1>1, <1>2, <1>3, <1>5, <1>6, <1>7, <1>8 DEF SInv, STypes, Statuses
<1>10. Shape'
  <2>1. sleeping' = sleeping \ {g}
    BY Zenon, <1>1, <1>4
  <2> QED BY ZenonT(30), <1>1, <1>2, <1>3, <1>4, <1>5, <1>6, <1>7, <2>1, ShapePuts DEF SInv
<1>11. Counts'
  <2>1. place' = [place EXCEPT ![m] = place[m]]
    BY <1>7, PlaceType DEF SInv
  <2> QED BY Zenon, <1>1, <1>5, <2>1, CountsSame
<1>12. Control'
  BY Zenon, <1>1, <1>5, <1>8, Frame
<1> QED BY Zenon, <1>9, <1>10, <1>11, <1>12 DEF SInv

\* A goroutine is readied, at once or when it stops.
LEMMA readyStep == ASSUME Counting, SInv, NEW m \in M, NEW g \in G, ready(m, g) PROVE SInv'
<1>1. /\ pc[m] \in {"user", "gcend"} /\ schedlock = NoM /\ g \in sleeping
      /\ gstatus[g] = "Gwaiting"
  BY Zenon DEF ready, Enter, SInv, Shape, Sleepers
<1>2. CASE gm[g] # NoM
  <2>1. /\ sleeping' = sleeping \ {g} /\ readyonstop' = [readyonstop EXCEPT ![g] = TRUE]
        /\ stopped' = "no" /\ pc' = pc /\ ret' = ret
        /\ gstatus' = gstatus /\ gm' = gm /\ lockedm' = lockedm /\ incallback' = incallback
        /\ gq' = gq /\ gfree' = gfree /\ mhead' = mhead
        /\ curg' = curg /\ nextg' = nextg /\ waitnextg' = waitnextg
        /\ mcpu' = mcpu /\ msyscall' = msyscall /\ mcpumax' = mcpumax /\ predawn' = predawn
        /\ gomaxprocs' = gomaxprocs /\ gcing' = gcing /\ schedlock' = schedlock
    BY ZenonT(30), <1>2 DEF ready, Enter, ReadyOnStop, wvars, qvars, svars, hvars
  <2>2. place' = place
    BY Zenon, <2>1 DEF place, Place
  <2>3. STypes'
    BY SMTT(30), <2>1 DEF SInv, STypes
  <2>4. Shape'
    BY ZenonT(30), <1>1, <1>2, <2>1, <2>2, ShapeReadyOnStop DEF SInv
  <2>5. Counts'
    BY ZenonT(30), <2>1, <2>2 DEF SInv, Counts, Cpus, Syscalls
  <2>6. Control'
    BY Zenon, <2>1 DEF SInv, Control, LockHeld, Dawn, NoneLeft, Idle, Gcing, Ended, NoThrow,
                DeadlockReportTrue
  <2> QED BY <2>3, <2>4, <2>5, <2>6 DEF SInv
<1>3. CASE gm[g] = NoM
  <2>1. /\ sleeping' = sleeping \ {g} /\ gstatus' = [gstatus EXCEPT ![g] = "Grunnable"]
        /\ gput(g, mcpu) /\ Readied(m) /\ stopped' = "no"
        /\ gm' = gm /\ lockedm' = lockedm /\ readyonstop' = readyonstop
        /\ incallback' = incallback /\ gfree' = gfree /\ mhead' = mhead /\ curg' = curg
        /\ msyscall' = msyscall /\ mcpumax' = mcpumax /\ predawn' = predawn
        /\ gomaxprocs' = gomaxprocs /\ gcing' = gcing
    BY Zenon, <1>1, <1>3 DEF ready, Enter, wvars, qvars, svars
  <2>2. place' = place /\ ret' \in [M -> Returns]
    BY Zenon, <1>1, <2>1, ReadiedFacts
  <2>3. PICK k \in Labels : /\ k \in {"user", "matchmg"} /\ (predawn => k = "user")
                            /\ pc' = [pc EXCEPT ![m] = k]
                            /\ schedlock' = IF k \in Locked THEN m ELSE NoM
    BY SMTT(30), <1>1, <2>1, ReadiedFacts
  <2>4. NoDup(gfree) /\ g \notin Elems(gfree) /\ g \notin Elems(gq)
    BY Zenon, <1>1 DEF SInv, Shape, FreeList, Runnable
  <2>5. CASE lockedm[g] = NoM
    <3>1. gq' = Append(gq, g) /\ nextg' = nextg /\ waitnextg' = waitnextg /\ mcpu' = mcpu
      BY Zenon, <2>1, <2>5 DEF gput, hvars
    <3>2. gq' \in Seq(G) /\ NoDup(gq') /\ Elems(gq') = Elems(gq) \cup {g}
      BY Zenon, <2>4, <3>1, ElemsAppend DEF SInv, STypes, Shape, Apart
    <3>3. STypes'
      BY Zenon, <2>1, <2>2, <2>3, <3>1, <3>2 DEF SInv, STypes, Statuses
    <3>4. Shape'
      BY Zenon, <1>1, <1>3, <2>1, <2>2, <2>4, <2>5, <3>1, <3>2, ShapePuts DEF SInv
    <3>5. place' = [place EXCEPT ![m] = place[m]]
      BY <2>2, PlaceType DEF SInv
    <3>6. Counts'
      BY Zenon, <2>1, <3>1, <3>5, CountsSame
    <3>7. Control'
      BY Zenon, <1>1, <2>1, <2>3, <3>1, Frame
    <3> QED BY Zenon, <3>3, <3>4, <3>6, <3>7 DEF SInv
  <2>6. CASE lockedm[g] # NoM
    <3> DEFINE n == lockedm[g]
    <3>1. /\ gq' = gq /\ n \in M
          /\ nextg' = [nextg EXCEPT ![n] = g] /\ waitnextg' = [waitnextg EXCEPT ![n] = FALSE]
      BY Zenon, <2>1, <2>6 DEF gput, mnextg, SInv, STypes
    <3>2. mcpu' = mcpu + 1
      BY Zenon, <2>1, <2>6 DEF gput, mnextg
    <3>3. mcpu' \in Int
      BY <3>2 DEF SInv, STypes
    <3>4. ~predawn
      BY Zenon, <2>6 DEF SInv, Control, Dawn
    <3>5. place[n] \notin {"nextg", "nextgwait"}
      BY ZenonT(60), <1>1, <3>1, PlaceOf, SchedAssumption DEF SInv, Control, LockHeld, Locked
    <3>6. STypes'
      BY Zenon, <2>1, <2>2, <2>3, <3>1, <3>3 DEF SInv, STypes, Statuses
    <3>7. Shape'
      BY ZenonT(30), <1>1, <1>3, <2>1, <2>2, <2>4, <2>6, <3>1, <3>5, ShapePuts DEF SInv
    <3>8. Counts'
      <4>1. curg[n] = NoG /\ nextg[n] = NoG
        <5>1. curg[n] \in {NoG, g} /\ nextg[n] \in {NoG, g}
          BY ZenonT(60), <2>6 DEF SInv, Shape, Wired
        <5>2. gstatus[g] # "Grunnable" /\ g # NoG /\ n # NoM
          BY Zenon, <1>1, <3>1, SchedAssumption
        <5>3. nextg[n] # g
          BY ZenonT(60), <3>1, <5>2 DEF SInv, Shape, Runnable
        <5>4. curg[n] # g
          <6>1. /\ curg[n] # NoG /\ place[n] # "run" => gm[curg[n]] = n
                /\ place[n] = "run" => gstatus[curg[n]] = "Grunnable"
            BY Zenon, <3>1 DEF SInv, Shape, Running, Runnable
          <6> QED BY Zenon, <1>3, <5>2, <6>1
        <5> QED BY Zenon, <5>1, <5>3, <5>4
      <4>2. place[n] \notin CpuLabels /\ place[n] \notin System
        BY <3>1, <4>1 DEF SInv, Shape, Hands
      <4>3. place' = [place EXCEPT ![n] = place[n]]
        BY Zenon, <2>2, PlaceType DEF SInv
      <4>4. nextg'[n] = g /\ \A x \in M : x # n => nextg'[x] = nextg[x]
        BY Zenon, <3>1 DEF SInv, STypes
      <4>5. /\ mcpu' = mcpu + (IF place[n] \in CpuLabels \/ nextg'[n] # NoG THEN 1 ELSE 0)
                            - (IF place[n] \in CpuLabels \/ nextg[n] # NoG THEN 1 ELSE 0)
            /\ msyscall' = msyscall + (IF place[n] \in System THEN 1 ELSE 0)
                                    - (IF place[n] \in System THEN 1 ELSE 0)
        <5>1. mcpu \in Int /\ msyscall \in Int /\ msyscall' = msyscall
          BY Zenon, <2>1 DEF SInv, STypes
        <5>2. nextg'[n] # NoG /\ nextg[n] = NoG
          BY Zenon, <4>1, <4>4, SchedAssumption
        <5> HIDE DEF n
        <5> QED BY <3>2, <4>2, <5>1, <5>2
      <4> QED BY ZenonT(30), <3>1, <4>3, <4>4, <4>5, CountsStep
    <3>9. Control'
      BY Zenon, <1>1, <2>1, <2>3, <3>1, <3>4, Frame
    <3> QED BY <3>6, <3>7, <3>8, <3>9 DEF SInv
  <2> QED BY <2>5, <2>6
<1> QED BY <1>2, <1>3

\* matchmg hands the first goroutine of the queue to an M, or goes back.
LEMMA matchmgStep == ASSUME Counting, SInv, NEW m \in M, matchmg(m) PROVE SInv'
<1>1. /\ pc[m] = "matchmg" /\ schedlock = m /\ stopped' = "no" /\ ~predawn
      /\ gstatus' = gstatus /\ gm' = gm /\ lockedm' = lockedm /\ readyonstop' = readyonstop
      /\ sleeping' = sleeping /\ incallback' = incallback /\ gfree' = gfree /\ curg' = curg
      /\ msyscall' = msyscall /\ mcpumax' = mcpumax /\ predawn' = predawn
      /\ gomaxprocs' = gomaxprocs /\ gcing' = gcing
  BY Zenon DEF matchmg, Inside, gvars, wvars, qvars, svars, SInv, Control, Dawn
<1>2. place[m] = ret[m] /\ ret[m] \in Returns
  BY Zenon, <1>1, PlaceOf DEF SInv, STypes
<1>3. CASE ~(gcing # m /\ mcpu < mcpumax /\ gq # <<>>)
  <2>1. /\ pc' = [pc EXCEPT ![m] = ret[m]] /\ ret' = ret
        /\ schedlock' = IF ret[m] \in Locked THEN m ELSE NoM
        /\ GSame /\ mcpu' = mcpu
    BY Zenon, <1>1, <1>2, <1>3 DEF matchmg, Unlock, Goto, Returns, Locked, GSame, hvars
  <2>2. gcing # m
    BY <1>1, SchedAssumption DEF SInv, Control, Gcing
  <2>3. ret[m] \in Labels \ {"matchmg"}
    BY <1>2 DEF Returns, Labels, CpuLabels, Locked
  <2>4. place' = [place EXCEPT ![m] = ret[m]]
    BY ZenonT(30), <2>1, <2>3, PlaceGoto DEF SInv, Goto
  <2>5. STypes'
    BY <1>1, <2>1, <2>3 DEF SInv, STypes, GSame
  <2>6. Shape' /\ Counts'
    BY Zenon, <1>1, <1>2, <2>1, <2>4, Moves
  <2>7. gq' = <<>> \/ mcpu' >= mcpumax'
    BY SMTT(30), <1>1, <1>3, <2>1, <2>2 DEF SInv, STypes, GSame
  <2>8. Control'
    BY Zenon, <1>1, <1>2, <2>1, <2>3, <2>7, Frame DEF GSame
  <2> QED BY <2>5, <2>6, <2>8 DEF SInv
<1>4. CASE gcing # m /\ mcpu < mcpumax /\ gq # <<>>
  <2>1. PICK n \in M :
          /\ gq' = Tail(gq) /\ mnextg(n, Head(gq), mcpu)
          /\ IF mhead # <<>>
             THEN n = Head(mhead) /\ mhead' = Tail(mhead) /\ UNCHANGED pc
             ELSE pc[n] = "new" /\ Goto(n, "mstart") /\ UNCHANGED mhead
          /\ UNCHANGED <<schedlock, ret>>
    BY Zenon, <1>4 DEF matchmg
  <2>2. PICK h : h = Head(gq)
    OBVIOUS
  <2>3. /\ h \in G /\ h \in Elems(gq) /\ gq' \in Seq(G) /\ NoDup(gq')
        /\ Elems(gq') = Elems(gq) \ {h}
    BY Zenon, <1>4, <2>1, <2>2, ElemsTail DEF SInv, STypes, Shape, Apart
  <2>4. /\ nextg' = [nextg EXCEPT ![n] = h] /\ waitnextg' = [waitnextg EXCEPT ![n] = FALSE]
        /\ schedlock' = schedlock /\ ret' = ret
    BY <2>1, <2>2 DEF mnextg
  <2>5. mcpu' = mcpu + 1
    BY <2>1 DEF mnextg
  <2>6. mcpu' \in Int
    BY <2>5 DEF SInv, STypes
  <2>7. \E l \in {"sleep", "mstart"} :
          /\ \/ place[n] = "sleep" /\ l = "sleep" /\ n \in Elems(mhead)
             \/ place[n] = "new" /\ l = "mstart"
          /\ place' = [place EXCEPT ![n] = l] /\ pc' \in [M -> Labels]
          /\ mhead' \in Seq(M) /\ NoDup(mhead') /\ Elems(mhead') = Elems(mhead) \ {n}
          /\ nextg[n] = NoG /\ Control'
    <3>1. mhead \in Seq(M) /\ NoDup(mhead)
      BY Zenon DEF SInv, STypes, Shape, Pool
    <3>2. CASE mhead # <<>>
      <4>1. n = Head(mhead) /\ mhead' = Tail(mhead) /\ pc' = pc
        BY <2>1, <3>2
      <4>2. /\ n \in Elems(mhead) /\ mhead' \in Seq(M) /\ NoDup(mhead')
            /\ Elems(mhead') = Elems(mhead) \ {n}
        BY Zenon, <3>1, <3>2, <4>1, ElemsTail
      <4>3. place[n] \in {"nextgwait", "sleep"} /\ nextg[n] = NoG /\ pc[n] # "matchmg"
        BY Zenon, <4>2 DEF SInv, Shape, Pool, Control, Idle
      <4>4. place[n] = "sleep"
        BY Zenon, <1>1, <4>3, PlaceOf DEF SInv, Control, LockHeld, Locked
      <4>5. place' = place /\ place = [place EXCEPT ![n] = "sleep"]
        BY Zenon, <2>4, <4>1, <4>4, PlaceType DEF SInv, place, Place
      <4>6. pc' = [pc EXCEPT ![m] = "matchmg"]
        BY SMTT(30), <1>1, <4>1 DEF SInv, STypes
      <4>7. Control'
        BY Zenon, <1>1, <2>4, <4>2, <4>6, Frame DEF Labels, Locked
      <4> QED BY ZenonT(60), <4>1, <4>2, <4>3, <4>4, <4>5, <4>7 DEF SInv, STypes
    <3>3. CASE mhead = <<>>
      <4>1. pc[n] = "new" /\ pc' = [pc EXCEPT ![n] = "mstart"] /\ mhead' = mhead
        BY ZenonT(60), <2>1, <3>3 DEF Goto
      <4>2. place[n] = "new" /\ nextg[n] = NoG
        BY <4>1, PlaceOf DEF SInv, Shape, Hands
      <4>3. place' = [place EXCEPT ![n] = "mstart"] /\ pc' \in [M -> Labels]
        BY Zenon, <2>4, <4>1, PlaceGoto DEF SInv, Labels, Goto
      <4>4. Elems(mhead') = Elems(mhead) \ {n}
        BY <3>3, <4>1 DEF Elems
      <4>5. Control'
        BY Zenon, <1>1, <2>4, <4>1, Frame DEF Labels, CpuLabels, Locked
      <4> QED BY Zenon, <3>1, <4>1, <4>2, <4>3, <4>4, <4>5
    <3> QED BY Zenon, <3>2, <3>3
  <2>8. PICK l \in {"sleep", "mstart"} :
          /\ \/ place[n] = "sleep" /\ l = "sleep" /\ n \in Elems(mhead)
             \/ place[n] = "new" /\ l = "mstart"
          /\ place' = [place EXCEPT ![n] = l] /\ pc' \in [M -> Labels]
          /\ mhead' \in Seq(M) /\ NoDup(mhead') /\ Elems(mhead') = Elems(mhead) \ {n}
          /\ nextg[n] = NoG /\ Control'
    BY Zenon, <2>7
  <2>9. STypes'
    BY Zenon, <1>1, <2>3, <2>4, <2>6, <2>8 DEF SInv, STypes
  <2>10. Shape'
    BY Zenon, <1>1, <2>3, <2>4, <2>8, ShapeHandoff DEF SInv
  <2>11. Counts'
    <3>1. nextg'[n] = h /\ \A x \in M : x # n => nextg'[x] = nextg[x]
      BY Zenon, <2>4 DEF SInv, STypes
    <3>2. /\ l \notin CpuLabels /\ place[n] \notin CpuLabels /\ l \notin System
          /\ place[n] \notin System /\ nextg'[n] # NoG
      BY Zenon, <2>3, <2>8, <3>1, SchedAssumption DEF CpuLabels, System
    <3>3. /\ mcpu' = mcpu + (IF l \in CpuLabels \/ nextg'[n] # NoG THEN 1 ELSE 0)
                          - (IF place[n] \in CpuLabels \/ nextg[n] # NoG THEN 1 ELSE 0)
          /\ msyscall' = msyscall + (IF l \in System THEN 1 ELSE 0)
                                  - (IF place[n] \in System THEN 1 ELSE 0)
      BY SMTT(30), <1>1, <2>5, <2>8, <3>2 DEF SInv, STypes
    <3> QED BY Zenon, <2>8, <3>1, <3>3, CountsStep
  <2> QED BY <2>8, <2>9, <2>10, <2>11 DEF SInv
<1> QED BY Zenon, <1>3, <1>4

\* Nobody runs while m0 looks for main.
LEMMA NobodyAtDawn ==
    ASSUME Counting, SInv, predawn, NEW m \in M, pc[m] = "nextg"
    PROVE  mcpu = 0
<1>1. m = m0 /\ \A n \in M : (n # m => pc[n] = "new") /\ nextg[n] = NoG
  BY DEF SInv, Control, Dawn
<1>2. \A n \in M : place[n] \in {"new", "nextg"} /\ nextg[n] = NoG
  BY Zenon, <1>1, PlaceOf DEF SInv
<1>3. Cpus = {}
  BY <1>2 DEF Cpus, CpuLabels
<1> QED BY <1>3 DEF SInv, Counts, Counting

\* An M looks for a goroutine to run.
LEMMA nextgandunlockStep == ASSUME Counting, SInv, NEW m \in M, nextgandunlock(m) PROVE SInv'
<1>0. mcpu \in Int /\ mcpu >= 0
  BY Counted DEF SInv, STypes
<1>1. pc[m] = "nextg" /\ schedlock = m /\ stopped = "no" /\ ~(mcpu < 0) /\ mcpu \in Int
  <2>1. Inside(m, "nextg")
    BY Zenon DEF nextgandunlock
  <2> QED BY <1>0, <2>1 DEF Inside
<1>2. /\ gstatus' = gstatus /\ gm' = gm /\ lockedm' = lockedm /\ readyonstop' = readyonstop
      /\ sleeping' = sleeping /\ incallback' = incallback /\ gfree' = gfree
      /\ waitnextg' = waitnextg /\ msyscall' = msyscall /\ mcpumax' = mcpumax
      /\ predawn' = predawn /\ gomaxprocs' = gomaxprocs /\ gcing' = gcing /\ stopped' = "no"
  BY SMTT(30), <1>1 DEF nextgandunlock, gvars, wvars, qvars, svars
<1>3. place[m] = "nextg"
  BY Zenon, <1>1, PlaceOf DEF SInv
<1>4. CASE nextg[m] # NoG
  <2>1. /\ curg' = [curg EXCEPT ![m] = nextg[m]] /\ nextg' = [nextg EXCEPT ![m] = NoG]
        /\ schedlock' = NoM /\ pc' = [pc EXCEPT ![m] = "run"] /\ ret' = ret
        /\ gq' = gq /\ mhead' = mhead /\ mcpu' = mcpu
    BY <1>1, <1>4 DEF nextgandunlock, TakeNextg, Unlock, Goto
  <2>2. place' = [place EXCEPT ![m] = "run"]
    BY Zenon, <2>1, PlaceGoto DEF SInv, Labels, CpuLabels, Goto
  <2>3. STypes'
    BY <1>2, <2>1 DEF SInv, STypes, Labels, CpuLabels
  <2>4. Shape'
    BY Zenon, <1>2, <1>3, <1>4, <2>1, <2>2, ShapeTakesNextg DEF SInv
  <2>5. Counts'
    <3>1. nextg'[m] = NoG /\ \A n \in M : n # m => nextg'[n] = nextg[n]
      BY Zenon, <2>1 DEF SInv, STypes
    <3>2. /\ mcpu' = mcpu + (IF "run" \in CpuLabels \/ nextg'[m] # NoG THEN 1 ELSE 0)
                          - (IF place[m] \in CpuLabels \/ nextg[m] # NoG THEN 1 ELSE 0)
          /\ msyscall' = msyscall + (IF "run" \in System THEN 1 ELSE 0)
                                  - (IF place[m] \in System THEN 1 ELSE 0)
      BY <1>2, <1>3, <1>4, <2>1 DEF SInv, STypes, CpuLabels, System
    <3> QED BY Zenon, <2>2, <3>1, <3>2, CountsStep
  <2>6. ~predawn
    BY SMTT(30), <1>4 DEF SInv, Control, Dawn
  <2>7. Control'
    BY Zenon, <1>1, <1>2, <2>1, <2>6, Frame DEF Labels, CpuLabels, Locked
  <2> QED BY <2>3, <2>4, <2>5, <2>7 DEF SInv
<1>5. CASE nextg[m] = NoG /\ lockedg(m) # {}
  <2>1. /\ Kick(m, "nextgwait") /\ GSame /\ mcpu' = mcpu
    BY Zenon, <1>1, <1>2, <1>5 DEF nextgandunlock, GSame
  <2>2. ~predawn
    BY Zenon, <1>5, SchedAssumption DEF lockedg, SInv, Control, Dawn
  <2>3. /\ place' = [place EXCEPT ![m] = "nextgwait"] /\ schedlock' = m
        /\ pc' \in [M -> Labels] /\ ret' \in [M -> Returns]
        /\ \E k \in {"nextgwait", "matchmg"} : /\ pc' = [pc EXCEPT ![m] = k]
                                               /\ k = "nextgwait" => gq = <<>>
    <3>1. CASE gq # <<>>
      BY SMTT(30), <2>1, <3>1, PlaceCall DEF Kick, SInv, Returns
    <3>2. CASE gq = <<>>
      <4>1. Goto(m, "nextgwait") /\ ret' = ret /\ schedlock' = m
        BY <2>1, <3>2 DEF Kick
      <4> QED BY Zenon, <3>2, <4>1, PlaceGoto DEF SInv, STypes, Labels, Locked, Goto
    <3> QED BY <3>1, <3>2
  <2>4. PICK k \in {"nextgwait", "matchmg"} : /\ pc' = [pc EXCEPT ![m] = k]
                                              /\ k = "nextgwait" => gq = <<>>
    BY Zenon, <2>3
  <2>5. STypes'
    BY Zenon, <1>2, <2>1, <2>3 DEF SInv, STypes, GSame
  <2>6. Shape' /\ Counts'
    BY Zenon, <1>2, <1>3, <1>5, <2>1, <2>3, Moves
  <2>7. Control'
    BY Zenon, <1>1, <1>2, <2>1, <2>2, <2>3, <2>4, Frame DEF Labels, Locked, GSame
  <2> QED BY <2>5, <2>6, <2>7 DEF SInv
<1>6. CASE nextg[m] = NoG /\ lockedg(m) = {} /\ mcpu < mcpumax /\ gq # <<>>
  <2>1. PICK h : h = Head(gq)
    OBVIOUS
  <2>2. /\ curg' = [curg EXCEPT ![m] = h] /\ gq' = Tail(gq)
        /\ schedlock' = NoM /\ pc' = [pc EXCEPT ![m] = "run"] /\ ret' = ret
        /\ nextg' = nextg /\ mhead' = mhead
    BY <1>1, <1>6, <2>1 DEF nextgandunlock, Unlock, Goto
  <2>3. mcpu' = mcpu + 1
    BY <1>1, <1>6 DEF nextgandunlock
  <2>4. mcpu' \in Int
    BY SMTT(30), <1>1, <2>3
  <2>5. /\ h \in G /\ h \in Elems(gq) /\ gq' \in Seq(G) /\ NoDup(gq')
        /\ Elems(gq') = Elems(gq) \ {h}
    BY Zenon, <1>6, <2>1, <2>2, ElemsTail DEF SInv, STypes, Shape, Apart
  <2>6. place' = [place EXCEPT ![m] = "run"]
    BY ZenonT(30), <2>2, PlaceGoto DEF SInv, Labels, CpuLabels, Goto
  <2>7. STypes'
    BY Zenon, <1>2, <2>2, <2>4, <2>5 DEF SInv, STypes, Labels, CpuLabels
  <2>8. \A g \in G : lockedm[g] # m
    BY <1>6 DEF lockedg
  <2>9. Shape'
    BY ZenonT(30), <1>2, <1>3, <1>6, <2>2, <2>5, <2>6, <2>8, ShapeTakesQueue DEF SInv
  <2>10. Counts'
    <3>1. /\ mcpu' = mcpu + (IF "run" \in CpuLabels \/ nextg'[m] # NoG THEN 1 ELSE 0)
                          - (IF place[m] \in CpuLabels \/ nextg[m] # NoG THEN 1 ELSE 0)
          /\ msyscall' = msyscall + (IF "run" \in System THEN 1 ELSE 0)
                                  - (IF place[m] \in System THEN 1 ELSE 0)
      BY SMTT(30), <1>1, <1>2, <1>3, <1>6, <2>2, <2>3 DEF SInv, STypes, CpuLabels, System
    <3> QED BY Zenon, <2>2, <2>6, <3>1, CountsStep
  <2>11. Control'
    BY Zenon, <1>1, <1>2, <2>2, Frame DEF Labels, CpuLabels, Locked
  <2> QED BY <2>7, <2>9, <2>10, <2>11 DEF SInv
<1>7. CASE nextg[m] = NoG /\ lockedg(m) = {} /\ ~(mcpu < mcpumax /\ gq # <<>>)
  <2>1. /\ mhead' = <<m>> \o mhead /\ pc' = [pc EXCEPT ![m] = "nextgwait"] /\ ret' = ret
        /\ curg' = curg /\ nextg' = nextg /\ gq' = gq /\ mcpu' = mcpu /\ schedlock' = m
    BY Zenon, <1>1, <1>7 DEF nextgandunlock, Goto
  <2>2. m \notin Elems(mhead)
    BY Zenon, <1>3 DEF SInv, Shape, Pool
  <2>3. mhead' \in Seq(M) /\ NoDup(mhead') /\ Elems(mhead') = Elems(mhead) \cup {m}
    BY <2>1, <2>2, ElemsCons DEF SInv, STypes, Shape, Pool
  <2>4. place' = [place EXCEPT ![m] = "nextgwait"]
    BY ZenonT(30), <2>1, PlaceGoto DEF SInv, Labels, Locked, Goto
  <2>5. STypes'
    BY Zenon, <1>2, <2>1, <2>3 DEF SInv, STypes, Labels, Locked
  <2>6. \A g \in G : lockedm[g] # m
    BY <1>7 DEF lockedg
  <2>7. Shape'
    BY ZenonT(30), <1>2, <1>3, <1>7, <2>1, <2>3, <2>4, <2>6, ShapeMput DEF SInv
  <2>8. Counts'
    BY Zenon, <1>2, <1>3, <2>1, <2>4, CountsSame DEF CpuLabels, System
  <2>9. ~predawn
    <3> SUFFICES ASSUME predawn PROVE FALSE
      OBVIOUS
    <3>1. mcpu = 0
      BY Zenon, <1>1, NobodyAtDawn
    <3>2. gq # <<>>
      BY Zenon, <1>1 DEF SInv, Control, Dawn
    <3> QED BY <1>7, <3>1, <3>2 DEF SInv, STypes
  <2>10. gq' = <<>> \/ mcpu' >= mcpumax'
    BY SMTT(30), <1>1, <1>2, <1>7, <2>1 DEF SInv, STypes
  <2>11. Control'
    BY Zenon, <1>1, <1>2, <2>1, <2>3, <2>9, <2>10, Frame DEF Labels, Locked
  <2> QED BY <2>5, <2>7, <2>8, <2>11 DEF SInv
<1> QED BY Zenon, <1>4, <1>5, <1>6, <1>7

\* The scheduler puts away the goroutine that m ran: it is runnable again
\* (it yielded, or was readied meanwhile), waits, or is dead.
LEMMA schedulerStep == ASSUME Counting, SInv, NEW m \in M, scheduler(m) PROVE SInv'
<1>1. pc[m] = "scheduler" /\ schedlock = NoM /\ stopped = "no" /\ ~predawn
  BY Zenon DEF scheduler, Enter, SInv, Control, Dawn
<1>2. place[m] = "scheduler"
  BY Zenon, <1>1, PlaceOf DEF SInv
<1>3. PICK g \in G : g = curg[m]
  BY Zenon, <1>2, InHand DEF SInv, CpuLabels
<1>4. /\ gstatus[g] \in {"Grunning", "Gsyscall", "Gwaiting", "Gmoribund"} /\ gm[g] = m
      /\ g \notin Elems(gq) /\ g \notin Elems(gfree)
      /\ \A n \in M : (curg[n] = g => n = m) /\ nextg[n] # g
  BY SMTT(30), <1>2, <1>3, InHand DEF SInv, CpuLabels
<1>5. /\ readyonstop[g] => gstatus[g] \in {"Gwaiting", "Gsyscall"} /\ g \notin sleeping
      /\ gstatus[g] = "Gsyscall" => readyonstop[g]
  BY Zenon, <1>2, <1>3 DEF SInv, Shape, Sleepers
<1>6. mcpu \in Int /\ ~(mcpu - 1 < 0)
  <2>1. mcpu > 0
    BY Zenon, <1>2, Counted DEF CpuLabels
  <2>2. mcpu \in Int
    BY Zenon DEF SInv, STypes
  <2> QED BY <2>1, <2>2
<1>7. nextg[m] = NoG
  BY Zenon, <1>2 DEF SInv, Shape, Hands
<1>8. ASSUME \A n \in M : n # m => nextg'[n] = nextg[n],
             msyscall' = msyscall, place' = [place EXCEPT ![m] = "nextg"],
             \/ nextg'[m] # NoG /\ mcpu' = mcpu
             \/ nextg'[m] = NoG /\ mcpu' = mcpu - 1
      PROVE  Counts'
  <2>1. /\ mcpu' = mcpu + (IF "nextg" \in CpuLabels \/ nextg'[m] # NoG THEN 1 ELSE 0)
                        - (IF place[m] \in CpuLabels \/ nextg[m] # NoG THEN 1 ELSE 0)
        /\ msyscall' = msyscall + (IF "nextg" \in System THEN 1 ELSE 0)
                                - (IF place[m] \in System THEN 1 ELSE 0)
    BY <1>2, <1>6, <1>8 DEF SInv, STypes, CpuLabels, System
  <2> QED BY Zenon, <1>8, <2>1, CountsStep
<1>9. CASE gstatus[g] = "Grunning" \/ readyonstop[g]
  <2>1. /\ gm' = [gm EXCEPT ![g] = NoM] /\ readyonstop' = [readyonstop EXCEPT ![g] = FALSE]
        /\ gstatus' = [gstatus EXCEPT ![g] = "Grunnable"] /\ lockedm' = lockedm
        /\ gfree' = gfree /\ stopped' = "no" /\ curg' = [curg EXCEPT ![m] = NoG]
        /\ gput(g, mcpu - 1)
        /\ IF readyonstop[g] THEN CallMatchmg(m, "nextg")
                             ELSE schedlock' = m /\ Goto(m, "nextg") /\ UNCHANGED ret
        /\ sleeping' = sleeping /\ incallback' = incallback /\ mhead' = mhead
        /\ msyscall' = msyscall /\ mcpumax' = mcpumax /\ predawn' = predawn
        /\ gomaxprocs' = gomaxprocs /\ gcing' = gcing
    BY Zenon, <1>1, <1>3, <1>4, <1>5, <1>6, <1>9 DEF scheduler, svars
  <2>2. /\ place' = [place EXCEPT ![m] = "nextg"] /\ schedlock' = m
        /\ pc' \in [M -> Labels] /\ ret' \in [M -> Returns]
        /\ \E k \in {"nextg", "matchmg"} : pc' = [pc EXCEPT ![m] = k]
    <3>1. CASE readyonstop[g]
      BY Zenon, <2>1, <3>1, PlaceCall DEF SInv, Returns
    <3>2. CASE ~readyonstop[g]
      BY Zenon, <2>1, <3>2, PlaceGoto DEF SInv, STypes, Labels, Locked, Goto
    <3> QED BY Zenon, <3>1, <3>2
  <2>3. PICK k \in {"nextg", "matchmg"} : pc' = [pc EXCEPT ![m] = k]
    BY Zenon, <2>2
  <2>4. g \notin sleeping
    BY Zenon, <1>5, <1>9 DEF SInv, Shape, Sleepers
  <2>5. CASE lockedm[g] = NoM
    <3>1. gq' = Append(gq, g) /\ nextg' = nextg /\ waitnextg' = waitnextg
      BY Zenon, <2>1, <2>5 DEF gput, hvars
    <3>2. mcpu' = mcpu - 1
      BY <2>1, <2>5 DEF gput
    <3>3. mcpu' \in Int
      BY SMTT(30), <1>6, <3>2
    <3>4. gq' \in Seq(G) /\ NoDup(gq') /\ Elems(gq') = Elems(gq) \cup {g}
      BY SMTT(30), <1>4, <3>1, ElemsAppend DEF SInv, STypes, Shape, Apart
    <3>5. STypes'
      BY ZenonT(30), <2>1, <2>2, <3>1, <3>3, <3>4 DEF SInv, STypes, Statuses
    <3>6. Shape'
      BY Zenon, <1>2, <1>3, <2>1, <2>2, <2>4, <2>5, <3>1, <3>4, ShapeStopsReady DEF SInv
    <3>7. Counts'
      BY <1>7, <1>8, <2>1, <2>2, <3>1, <3>2
    <3>8. Control'
      BY Zenon, <1>1, <2>1, <2>2, <2>3, Frame DEF Labels, Locked
    <3> QED BY Zenon, <3>5, <3>6, <3>7, <3>8 DEF SInv
  <2>6. CASE lockedm[g] # NoM
    <3>0. lockedm[g] = m
      BY Zenon, <1>3, <2>6 DEF SInv, Shape, Wired
    <3>1. /\ gq' = gq
          /\ nextg' = [nextg EXCEPT ![m] = g] /\ waitnextg' = [waitnextg EXCEPT ![m] = FALSE]
      BY Zenon, <2>1, <2>6, <3>0 DEF gput, mnextg
    <3>2. mcpu' = mcpu
      BY <1>6, <2>1, <2>6 DEF gput, mnextg
    <3>3. mcpu' \in Int
      BY SMTT(30), <1>6, <3>2
    <3>5. STypes'
      BY ZenonT(30), <2>1, <2>2, <3>1, <3>3 DEF SInv, STypes, Statuses
    <3>6. Shape'
      BY ZenonT(30), <1>2, <1>3, <2>1, <2>2, <2>4, <2>6, <3>0, <3>1, ShapeStopsReady DEF SInv
    <3>7. Counts'
      <4>1. nextg'[m] # NoG /\ \A n \in M : n # m => nextg'[n] = nextg[n]
        BY Zenon, <3>1, SchedAssumption DEF SInv, STypes
      <4> QED BY Zenon, <1>8, <2>1, <2>2, <3>2, <4>1
    <3>8. Control'
      BY Zenon, <1>1, <2>1, <2>2, <2>3, <3>1, Frame DEF Labels, Locked
    <3> QED BY <3>5, <3>6, <3>7, <3>8 DEF SInv
  <2> QED BY <2>5, <2>6
<1>10. CASE gstatus[g] \in {"Gwaiting", "Gmoribund"} /\ ~readyonstop[g]
  <2>1. /\ gm' = [gm EXCEPT ![g] = NoM] /\ readyonstop' = [readyonstop EXCEPT ![g] = FALSE]
        /\ curg' = [curg EXCEPT ![m] = NoG] /\ pc' = [pc EXCEPT ![m] = "nextg"]
        /\ ret' = ret /\ schedlock' = m /\ gq' = gq /\ nextg' = nextg /\ waitnextg' = waitnextg
        /\ sleeping' = sleeping /\ incallback' = incallback /\ mhead' = mhead
        /\ msyscall' = msyscall /\ mcpumax' = mcpumax /\ predawn' = predawn
        /\ gomaxprocs' = gomaxprocs /\ gcing' = gcing
    BY Zenon, <1>1, <1>3, <1>6, <1>10 DEF scheduler, Goto, svars, hvars
  <2>2. mcpu' = mcpu - 1
    BY Zenon, <1>1, <1>3, <1>6, <1>10 DEF scheduler
  <2>3. mcpu' \in Int
    BY <1>6, <2>2
  <2>4. place' = [place EXCEPT ![m] = "nextg"]
    BY Zenon, <2>1, PlaceGoto DEF SInv, Labels, Locked, Goto
  <2>5. Counts'
    BY Zenon, <1>7, <1>8, <2>1, <2>2, <2>4
  <2>6. CASE gstatus[g] = "Gwaiting"
    <3>1. gstatus' = gstatus /\ lockedm' = lockedm /\ gfree' = gfree /\ stopped' = "no"
      <4>1. /\ gstatus' = [gstatus EXCEPT ![g] = gstatus[g]]
            /\ lockedm' = lockedm /\ gfree' = gfree /\ stopped' = "no"
        BY Zenon, <1>1, <1>3, <1>6, <1>10, <2>6 DEF scheduler
      <4> QED BY <4>1 DEF SInv, STypes
    <3>2. STypes'
      BY Zenon, <2>1, <2>3, <3>1 DEF SInv, STypes, Labels, Locked
    <3>3. Shape'
      BY Zenon, <1>2, <1>3, <1>10, <2>1, <2>4, <2>6, <3>1, ShapeStopsWaiting DEF SInv
    <3>4. Control'
      BY ZenonT(30), <1>1, <2>1, <3>1, Frame DEF Labels, Locked
    <3> QED BY Zenon, <2>5, <3>2, <3>3, <3>4 DEF SInv
  <2>7. CASE gstatus[g] = "Gmoribund"
    <3>1. /\ gstatus' = [gstatus EXCEPT ![g] = "Gdead"]
          /\ lockedm' = [lockedm EXCEPT ![g] = NoM] /\ gfree' = <<g>> \o gfree
          /\ stopped' \in {"no", "exit"}
      BY Zenon, <1>1, <1>3, <1>6, <1>10, <2>7 DEF scheduler
    <3>2. gfree' \in Seq(G) /\ NoDup(gfree') /\ Elems(gfree') = Elems(gfree) \cup {g}
      BY <1>4, <3>1, ElemsCons DEF SInv, STypes, Shape, FreeList
    <3>3. STypes'
      BY Zenon, <2>1, <2>3, <3>1, <3>2 DEF SInv, STypes, Labels, Locked, Statuses
    <3>4. Shape'
      BY Zenon, <1>2, <1>3, <2>1, <2>4, <2>7, <3>1, <3>2, ShapeStopsDead DEF SInv
    <3>5. Control'
      BY Zenon, <1>1, <2>1, <3>1, Frame DEF Labels, Locked
    <3> QED BY <2>5, <3>3, <3>4, <3>5 DEF SInv
  <2> QED BY <1>10, <2>6, <2>7
<1> QED BY Zenon, <1>4, <1>5, <1>9, <1>10

\* The first state: m0 is about to run main.
LEMMA SchedInit == ASSUME Counting, Init PROVE SInv
<1>1. /\ gstatus = [g \in G |-> IF g = main THEN "Grunnable" ELSE "Gidle"]
      /\ gm = [g \in G |-> NoM] /\ lockedm = [g \in G |-> NoM]
      /\ readyonstop = [g \in G |-> FALSE] /\ sleeping = {} /\ incallback = {}
      /\ gq = <<main>> /\ gfree = <<>> /\ mhead = <<>> /\ mcpu = 0 /\ msyscall = 0
      /\ gomaxprocs \in Nat \ {0} /\ mcpumax = gomaxprocs /\ predawn = TRUE /\ gcing = NoM
      /\ schedlock = NoM /\ pc = [m \in M |-> IF m = m0 THEN "mstart" ELSE "new"]
      /\ ret = [m \in M |-> "user"] /\ curg = [m \in M |-> NoG]
      /\ nextg = [m \in M |-> NoG] /\ waitnextg = [m \in M |-> FALSE] /\ stopped = "no"
  BY SchedAssumption DEF Init
<1>2. \A m \in M : place[m] \in {"mstart", "new"}
  BY Zenon, <1>1 DEF place, Place
<1>3. /\ Elems(gq) = {main} /\ Elems(gfree) = {} /\ Elems(mhead) = {}
      /\ NoDup(gq) /\ NoDup(gfree) /\ NoDup(mhead) /\ gq # <<>> /\ gq \in Seq(G)
  BY SMTT(30), <1>1, SchedAssumption DEF Elems, NoDup
<1>4. STypes
  BY SMTT(30), <1>1, <1>3, SchedAssumption DEF STypes, Statuses, Labels, Returns
<1>5. Hands /\ Running /\ Status /\ Sleepers /\ Wired
  BY ZenonT(30), <1>1, <1>2, SchedAssumption DEF Hands, Running, Status, Sleepers, Wired, CpuLabels,
                                     System, Busy
<1>6. Apart /\ Runnable /\ FreeList /\ Pool
  BY Zenon, <1>1, <1>2, <1>3, SchedAssumption DEF Apart, Runnable, FreeList, Pool
<1>7. Counts
  <2>1. Cpus = {} /\ Syscalls = {}
    BY Zenon, <1>1, <1>2 DEF Cpus, Syscalls, CpuLabels, System
  <2> QED BY Zenon, <1>1, <2>1 DEF Counts, Counting
<1>8. Control
  BY <1>1, <1>3, SchedAssumption DEF Control, LockHeld, Dawn, NoneLeft, Idle, Gcing, Ended,
                                     NoThrow, DeadlockReportTrue, Locked
<1> QED BY Zenon, <1>4, <1>5, <1>6, <1>7, <1>8 DEF SInv, Shape
=============================================================================
