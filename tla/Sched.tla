------------------------------- MODULE Sched -------------------------------
(***************************************************************************)
(* The goroutine scheduler (proc.c).  Ms (OS threads) take goroutines from *)
(* one run queue; everything they share is protected by the lock of the    *)
(* structure `sched'.  A section under that lock is one step, except that  *)
(* each round of the loop of matchmg, and each part of nextgandunlock, is  *)
(* a step of its own taken with the lock held (schedlock).                 *)
(*                                                                         *)
(* Goroutines do anything they may: start and end, yield, go to sleep, be  *)
(* readied by others, make system calls, wire themselves to their M, set   *)
(* GOMAXPROCS, be called back from C, and collect garbage with the world   *)
(* stopped.  A goroutine that goes to sleep first makes itself known to    *)
(* those who can ready it (the queue of a channel or a semaphore: the set  *)
(* `sleeping'), sets Gwaiting, and only then enters the scheduler, so the  *)
(* wakeup may come while it still runs.                                    *)
(*                                                                         *)
(* The notes m->havenextg and sched.stopped are represented by waitnextg   *)
(* and waitstop, which are cleared when the note is woken (FutexNote).     *)
(***************************************************************************)
EXTENDS Integers, Sequences, FiniteSets

CONSTANTS G, M,          \* goroutines and Ms
          main, m0,      \* the first ones
          NoG, NoM,      \* nil
          Gomaxprocs,    \* the values $GOMAXPROCS may have
          ProcChoices,   \* arguments of runtime.GOMAXPROCS
          Wirable,       \* goroutines that call LockOSThread or cgocall
          Callbacks      \* goroutines whose C functions call back into Go

ASSUME SchedAssumption ==
    /\ main \in G /\ m0 \in M /\ NoG \notin G /\ NoM \notin M
    /\ IsFiniteSet(G) /\ IsFiniteSet(M)
    /\ Gomaxprocs \subseteq Nat \ {0} /\ ProcChoices \subseteq Nat \ {0}
    /\ Wirable \subseteq G /\ Callbacks \subseteq Wirable

VARIABLES
    gstatus,      \* g->status; "Gidle" if the G was never allocated
    gm,           \* g->m
    lockedm,      \* g->lockedm; m->lockedg is its inverse
    readyonstop,  \* g->readyonstop
    sleeping,     \* goroutines that somebody may still ready
    incallback,   \* goroutines inside a callback from C
    gq,           \* sched.ghead .. gtail
    gfree,        \* sched.gfree
    gcount,       \* sched.gcount
    mhead,        \* sched.mhead
    mcpu, mcpumax, gomaxprocs, msyscall, predawn, waitstop,
    gcwaiting,
    gcing,        \* the M with m->gcing set
    gcsema,       \* gcsema is available
    schedlock,    \* the M that holds the lock of sched
    pc,           \* where each M is
    ret,          \* where it goes on after matchmg
    curg,         \* m->curg, or the goroutine it is about to run
    nextg,        \* m->nextg
    waitnextg,    \* m->waitnextg
    stopped       \* how the process ended: "no", "exit", or what was thrown

gvars == <<gstatus, gm, readyonstop, sleeping>>
wvars == <<lockedm, incallback>>
qvars == <<gfree, gcount>>
svars == <<mcpumax, gomaxprocs, predawn, gcwaiting, gcing, gcsema>>
hvars == <<nextg, waitnextg>>
vars == <<gvars, wvars, gq, qvars, mhead, mcpu, msyscall, waitstop, svars, schedlock,
          pc, ret, curg, hvars, stopped>>

\* m->lockedg
lockedg(m) == {g \in G : lockedm[g] = m}

\* schedinit, the newproc of main and the mstart of m0.
Init ==
    /\ gstatus = [g \in G |-> IF g = main THEN "Grunnable" ELSE "Gidle"]
    /\ gm = [g \in G |-> NoM] /\ lockedm = [g \in G |-> NoM]
    /\ readyonstop = [g \in G |-> FALSE]
    /\ sleeping = {} /\ incallback = {}
    /\ gq = <<main>> /\ gfree = <<>> /\ gcount = 1
    /\ mhead = <<>>
    /\ mcpu = 0 /\ msyscall = 0
    /\ gomaxprocs \in Gomaxprocs /\ mcpumax = gomaxprocs
    /\ predawn = TRUE /\ waitstop = FALSE /\ gcwaiting = FALSE
    /\ gcing = NoM /\ gcsema = TRUE
    /\ schedlock = NoM
    /\ pc = [m \in M |-> IF m = m0 THEN "mstart" ELSE "new"]
    /\ ret = [m \in M |-> "user"]
    /\ curg = [m \in M |-> NoG]
    /\ nextg = [m \in M |-> NoG] /\ waitnextg = [m \in M |-> FALSE]
    /\ stopped = "no"

(***************************************************************************)
(* Locking and control                                                     *)
(***************************************************************************)
\* m is at a label where it takes the lock, and gets it.
Enter(m, label) == stopped = "no" /\ schedlock = NoM /\ pc[m] = label

\* m is at a label inside a locked section.
Inside(m, label) == stopped = "no" /\ schedlock = m /\ pc[m] = label

Goto(m, label) == pc' = [pc EXCEPT ![m] = label]

\* Release the lock (or never hold it beyond this step) and go on.
Unlock(m, label) == schedlock' = NoM /\ Goto(m, label) /\ UNCHANGED ret

\* Keep the lock and call matchmg.
CallMatchmg(m, back) ==
    /\ schedlock' = m
    /\ Goto(m, "matchmg")
    /\ ret' = [ret EXCEPT ![m] = back]

\* "if(sched.gwait != 0) matchmg();" and then on to label, still locked.
KickFaulty(m, label) == schedlock' = m /\ Goto(m, label) /\ UNCHANGED ret

Kick(m, label) ==
    IF gq # <<>> THEN CallMatchmg(m, label)
                 ELSE schedlock' = m /\ Goto(m, label) /\ UNCHANGED ret

Throw(m, what) ==
    /\ stopped' = what
    /\ UNCHANGED <<gvars, wvars, gq, qvars, mhead, mcpu, msyscall, waitstop, svars,
                   schedlock, pc, ret, curg, hvars>>

(***************************************************************************)
(* gput and mnextg: cpu is the value of sched.mcpu they start from.        *)
(***************************************************************************)
mnextgFaulty(m, g, cpu) ==
    /\ mcpu' = cpu
    /\ nextg' = [nextg EXCEPT ![m] = g]
    /\ waitnextg' = [waitnextg EXCEPT ![m] = FALSE]

mnextg(m, g, cpu) ==
    /\ mcpu' = cpu + 1
    /\ nextg' = [nextg EXCEPT ![m] = g]
    /\ waitnextg' = [waitnextg EXCEPT ![m] = FALSE]

gput(g, cpu) ==
    \/ /\ lockedm[g] # NoM
       /\ mnextg(lockedm[g], g, cpu)
       /\ UNCHANGED gq
    \/ /\ lockedm[g] = NoM
       /\ gq' = Append(gq, g)
       /\ mcpu' = cpu
       /\ UNCHANGED hvars

(***************************************************************************)
(* matchmg, with the lock held: kick off Ms while there is room.  A g in   *)
(* the queue is never wired (GqUnwired), so mget takes from the pool.      *)
(***************************************************************************)
matchmgFaulty(m) ==
    /\ Inside(m, "matchmg")
    /\ IF ret[m] \in {"nextg", "nextgwait", "sysexit"}
       THEN Goto(m, ret[m]) /\ UNCHANGED <<schedlock, ret>>
       ELSE Unlock(m, ret[m])
    /\ UNCHANGED <<gvars, wvars, gq, qvars, mhead, mcpu, msyscall, waitstop, svars, curg, hvars,
                   stopped>>

matchmg(m) ==
    /\ Inside(m, "matchmg")
    /\ IF gcing # m /\ mcpu < mcpumax /\ gq # <<>>
       THEN \E n \in M :
              /\ gq' = Tail(gq)
              /\ mnextg(n, Head(gq), mcpu)
              /\ IF mhead # <<>>
                 THEN n = Head(mhead) /\ mhead' = Tail(mhead) /\ UNCHANGED pc
                 ELSE pc[n] = "new" /\ Goto(n, "mstart") /\ UNCHANGED mhead
              /\ UNCHANGED <<schedlock, ret>>
       ELSE /\ IF ret[m] \in {"nextg", "nextgwait", "sysexit"}
               THEN Goto(m, ret[m]) /\ UNCHANGED <<schedlock, ret>>
               ELSE Unlock(m, ret[m])
            /\ UNCHANGED <<gq, mhead, mcpu, hvars>>
    /\ UNCHANGED <<gvars, wvars, qvars, msyscall, waitstop, svars, curg, stopped>>

(***************************************************************************)
(* What running goroutines do.  The collector may also ready and start     *)
(* goroutines (runfinq) while the world is stopped.                        *)
(***************************************************************************)
\* The end of readylocked, after gput.
Readied(m) == IF predawn THEN Unlock(m, pc[m]) ELSE CallMatchmg(m, pc[m])

newproc1(m) ==
    /\ \E label \in {"user", "gcend"} : Enter(m, label)
    /\ \E g \in G :
         /\ IF gfree # <<>> THEN g = Head(gfree) /\ gfree' = Tail(gfree)
                            ELSE gstatus[g] = "Gidle" /\ UNCHANGED gfree
         /\ gstatus' = [gstatus EXCEPT ![g] = "Grunnable"]
         /\ gput(g, mcpu)
    /\ gcount' = gcount + 1
    /\ Readied(m)
    /\ UNCHANGED <<gm, readyonstop, sleeping, wvars, mhead, msyscall, waitstop, svars,
                   curg, stopped>>

\* readylocked for a g that still runs: it is readied when it stops.
ReadyOnStopFaulty(g) == readyonstop' = readyonstop

ReadyOnStop(g) == readyonstop' = [readyonstop EXCEPT ![g] = TRUE]

\* ready(g) for a g that waits for it, or has just said that it will wait.
ready(m, g) ==
    /\ \E label \in {"user", "gcend"} : Enter(m, label)
    /\ g \in sleeping /\ g # curg[m]
    /\ IF gm[g] # NoM
       THEN /\ sleeping' = sleeping \ {g}
            /\ ReadyOnStop(g)
            /\ UNCHANGED <<gstatus, gm, wvars, gq, qvars, mhead, mcpu, msyscall, waitstop,
                           svars, schedlock, pc, ret, curg, hvars, stopped>>
       ELSE IF gstatus[g] \in {"Grunnable", "Grunning"}
       THEN Throw(m, "bad g->status in ready")
       ELSE /\ sleeping' = sleeping \ {g}
            /\ gstatus' = [gstatus EXCEPT ![g] = "Grunnable"]
            /\ gput(g, mcpu)
            /\ Readied(m)
            /\ UNCHANGED <<gm, readyonstop, wvars, qvars, mhead, msyscall, waitstop, svars,
                           curg, stopped>>

\* A running goroutine decides, without the lock, to enter the scheduler with
\* the given status.  (To do so while init functions run is a programming
\* error, which the scheduler reports.)
EnterScheduler(m, status) ==
    /\ stopped = "no" /\ pc[m] = "user" /\ ~predawn
    /\ gstatus' = [gstatus EXCEPT ![curg[m]] = status]
    /\ Goto(m, "scheduler")
    /\ UNCHANGED <<gm, readyonstop, wvars, gq, qvars, mhead, mcpu, msyscall, waitstop,
                   svars, schedlock, ret, curg, hvars, stopped>>

Gosched(m) == EnterScheduler(m, "Grunning") /\ UNCHANGED sleeping

\* Queue on a channel or a semaphore, then g->status = Gwaiting; gosched().
Park(m) == EnterScheduler(m, "Gwaiting") /\ sleeping' = sleeping \cup {curg[m]}

goexit(m) ==
    /\ curg[m] \notin incallback
    /\ EnterScheduler(m, "Gmoribund")
    /\ UNCHANGED sleeping

\* LockOSThread, and the wiring done by cgocall.
LockOSThread(m) ==
    /\ stopped = "no" /\ pc[m] = "user" /\ ~predawn
    /\ curg[m] \in Wirable /\ lockedm[curg[m]] = NoM
    /\ lockedm' = [lockedm EXCEPT ![curg[m]] = m]
    /\ UNCHANGED <<gvars, incallback, gq, qvars, mhead, mcpu, msyscall, waitstop, svars,
                   schedlock, pc, ret, curg, hvars, stopped>>

\* UnlockOSThread, and the unwiring at the end of cgocall.
UnlockOSThread(m) ==
    /\ stopped = "no" /\ pc[m] = "user"
    /\ lockedm[curg[m]] = m /\ curg[m] \notin incallback
    /\ lockedm' = [lockedm EXCEPT ![curg[m]] = NoM]
    /\ UNCHANGED <<gvars, incallback, gq, qvars, mhead, mcpu, msyscall, waitstop, svars,
                   schedlock, pc, ret, curg, hvars, stopped>>

\* Programs that call GOMAXPROCS from an init function are left out: matchmg is
\* called whatever predawn is, so goroutines would start before their time.
gomaxprocsfunc(m, n) ==
    /\ Enter(m, "user") /\ ~predawn
    /\ gomaxprocs' = n /\ mcpumax' = n
    /\ IF mcpu > n THEN Unlock(m, "scheduler") ELSE CallMatchmg(m, "user")
    /\ UNCHANGED <<gvars, wvars, gq, qvars, mhead, mcpu, msyscall, waitstop, predawn,
                   gcwaiting, gcing, gcsema, curg, hvars, stopped>>

\* initdone: predawn is cleared before the lock is taken.
initdone(m) ==
    /\ stopped = "no" /\ pc[m] = "user" /\ curg[m] = main /\ predawn
    /\ predawn' = FALSE
    /\ Goto(m, "initdone")
    /\ UNCHANGED <<gvars, wvars, gq, qvars, mhead, mcpu, msyscall, waitstop, mcpumax,
                   gomaxprocs, gcwaiting, gcing, gcsema, schedlock, ret, curg, hvars, stopped>>

initdoneKick(m) ==
    /\ Enter(m, "initdone")
    /\ CallMatchmg(m, "user")
    /\ UNCHANGED <<gvars, wvars, gq, qvars, mhead, mcpu, msyscall, waitstop, svars, curg,
                   hvars, stopped>>

(***************************************************************************)
(* scheduler: what becomes of the goroutine the M just ran.  With          *)
(* readyonstop set, readylocked makes it runnable again.                   *)
(***************************************************************************)
scheduler(m) ==
    LET g == curg[m]
        left == CASE gstatus[g] = "Grunning"  -> "Grunnable"
                  [] gstatus[g] = "Gmoribund" -> "Gdead"
                  [] OTHER                    -> gstatus[g]
        dies == gstatus[g] = "Gmoribund"
    IN
    /\ Enter(m, "scheduler")
    /\ IF predawn THEN Throw(m, "init sleeping")
       ELSE IF mcpu - 1 < 0 THEN Throw(m, "sched.mcpu < 0 in scheduler")
       ELSE IF gstatus[g] \in {"Grunnable", "Gdead"} THEN Throw(m, "bad gp->status in sched")
       ELSE IF left = "Grunnable" /\ readyonstop[g] THEN Throw(m, "bad g->status in ready")
       ELSE /\ gm' = [gm EXCEPT ![g] = NoM]
            /\ readyonstop' = [readyonstop EXCEPT ![g] = FALSE]
            /\ gstatus' = [gstatus EXCEPT ![g] = IF readyonstop[g] THEN "Grunnable" ELSE left]
            /\ lockedm' = IF dies THEN [lockedm EXCEPT ![g] = NoM] ELSE lockedm
            /\ gfree' = IF dies THEN <<g>> \o gfree ELSE gfree
            /\ gcount' = IF dies THEN gcount - 1 ELSE gcount
            /\ stopped' = IF dies /\ gcount = 1 THEN "exit" ELSE "no"
            /\ curg' = [curg EXCEPT ![m] = NoG]
            /\ IF left = "Grunnable" \/ readyonstop[g]
               THEN gput(g, mcpu - 1)
               ELSE mcpu' = mcpu - 1 /\ UNCHANGED <<gq, hvars>>
            /\ IF readyonstop[g]
               THEN CallMatchmg(m, "nextg")
               ELSE schedlock' = m /\ Goto(m, "nextg") /\ UNCHANGED ret
            /\ UNCHANGED <<sleeping, incallback, mhead, msyscall, waitstop, svars>>

\* mstart: a new M enters the scheduler with nothing to put away.
mstart(m) ==
    /\ Enter(m, "mstart")
    /\ schedlock' = m /\ Goto(m, "nextg")
    /\ UNCHANGED <<gvars, wvars, gq, qvars, mhead, mcpu, msyscall, waitstop, svars, ret,
                   curg, hvars, stopped>>

\* gp = m->nextg; m->nextg = nil;
TakeNextgFaulty(m) == curg' = [curg EXCEPT ![m] = nextg[m]] /\ UNCHANGED nextg

TakeNextg(m) ==
    /\ curg' = [curg EXCEPT ![m] = nextg[m]]
    /\ nextg' = [nextg EXCEPT ![m] = NoG]

\* nextgandunlock up to the wait: a g handed to this M, else one from the
\* queue, else wait; a wired M first sees to it that others serve the queue.
nextgandunlock(m) ==
    /\ Inside(m, "nextg")
    /\ IF mcpu < 0 THEN Throw(m, "negative sched.mcpu")
       ELSE
       /\ CASE nextg[m] # NoG ->
                /\ TakeNextg(m)
                /\ Unlock(m, "run")
                /\ UNCHANGED <<gq, mhead, mcpu>>
            [] nextg[m] = NoG /\ lockedg(m) # {} ->
                /\ Kick(m, "nextgwait")
                /\ UNCHANGED <<curg, nextg, gq, mhead, mcpu>>
            [] nextg[m] = NoG /\ lockedg(m) = {} /\ mcpu < mcpumax /\ gq # <<>> ->
                /\ curg' = [curg EXCEPT ![m] = Head(gq)]
                /\ gq' = Tail(gq)
                /\ mcpu' = mcpu + 1
                /\ Unlock(m, "run")
                /\ UNCHANGED <<nextg, mhead>>
            [] OTHER ->
                /\ mhead' = <<m>> \o mhead
                /\ Goto(m, "nextgwait")
                /\ UNCHANGED <<curg, nextg, gq, mcpu, schedlock, ret>>
       /\ UNCHANGED <<gvars, wvars, qvars, msyscall, waitstop, svars, waitnextg, stopped>>

\* Wake the M that stops the world, if enough others have stopped.
SignalStoppedFaulty == waitstop' = waitstop

SignalStopped == waitstop' = (waitstop /\ mcpu > mcpumax)

AllAsleepFaulty == mcpu = 0

AllAsleep == mcpu = 0 /\ msyscall = 0

nextgwait(m) ==
    /\ Inside(m, "nextgwait")
    /\ IF AllAsleep
       THEN Throw(m, "all goroutines are asleep - deadlock!")
       ELSE /\ nextg' = [nextg EXCEPT ![m] = NoG]
            /\ waitnextg' = [waitnextg EXCEPT ![m] = TRUE]
            /\ SignalStopped
            /\ Unlock(m, "sleep")
            /\ UNCHANGED <<gvars, wvars, gq, qvars, mhead, mcpu, msyscall, svars, curg, stopped>>

\* notesleep(&m->havenextg) returns.
nextgwake(m) ==
    /\ stopped = "no" /\ pc[m] = "sleep" /\ ~waitnextg[m]
    /\ IF nextg[m] = NoG THEN Throw(m, "bad m->nextg in nextgoroutine")
       ELSE /\ TakeNextg(m)
            /\ Goto(m, "run")
            /\ UNCHANGED <<gvars, wvars, gq, qvars, mhead, mcpu, msyscall, waitstop, svars,
                           schedlock, ret, waitnextg, stopped>>

\* The end of scheduler: switch to the goroutine.  No lock is held.
run(m) ==
    /\ stopped = "no" /\ pc[m] = "run"
    /\ readyonstop' = [readyonstop EXCEPT ![curg[m]] = FALSE]
    /\ gstatus' = [gstatus EXCEPT ![curg[m]] = "Grunning"]
    /\ gm' = [gm EXCEPT ![curg[m]] = m]
    /\ Goto(m, "user")
    /\ UNCHANGED <<sleeping, wvars, gq, qvars, mhead, mcpu, msyscall, waitstop, svars,
                   schedlock, ret, curg, hvars, stopped>>

(***************************************************************************)
(* System calls and callbacks from C                                       *)
(***************************************************************************)
\* While init functions run, entersyscall and exitsyscall do nothing.
entersyscall(m) ==
    /\ Enter(m, "user") /\ ~predawn /\ curg[m] \notin incallback
    /\ gstatus' = [gstatus EXCEPT ![curg[m]] = "Gsyscall"]
    /\ mcpu' = mcpu - 1 /\ msyscall' = msyscall + 1
    /\ Kick(m, "sysexit")
    /\ UNCHANGED <<gm, readyonstop, sleeping, wvars, gq, qvars, mhead, waitstop, svars, curg,
                   hvars, stopped>>

entersyscallEnd(m) ==
    /\ Inside(m, "sysexit")
    /\ SignalStopped
    /\ Unlock(m, "syscall")
    /\ UNCHANGED <<gvars, wvars, gq, qvars, mhead, mcpu, msyscall, svars, curg, hvars, stopped>>

\* The fast path of exitsyscall is taken when there is room for this M.
HasRoom == mcpu + 1 <= mcpumax

\* The slow path leaves it to the scheduler to ready g; the status stays.
SlowExitFaulty(g) ==
    /\ readyonstop' = [readyonstop EXCEPT ![g] = TRUE]
    /\ gstatus' = [gstatus EXCEPT ![g] = "Grunning"]

SlowExit(g) == readyonstop' = [readyonstop EXCEPT ![g] = TRUE] /\ UNCHANGED gstatus

exitsyscall(m) ==
    /\ Enter(m, "syscall")
    /\ msyscall' = msyscall - 1 /\ mcpu' = mcpu + 1
    /\ IF HasRoom
       THEN /\ gstatus' = [gstatus EXCEPT ![curg[m]] = "Grunning"]
            /\ Goto(m, "user")
            /\ UNCHANGED readyonstop
       ELSE SlowExit(curg[m]) /\ Goto(m, "scheduler")
    /\ UNCHANGED <<gm, sleeping, wvars, gq, qvars, mhead, waitstop, svars, schedlock, ret,
                   curg, hvars, stopped>>

startcgocallback(m) ==
    /\ Enter(m, "syscall")
    /\ curg[m] \in Callbacks /\ lockedm[curg[m]] = m
    /\ incallback' = incallback \cup {curg[m]}
    /\ gstatus' = [gstatus EXCEPT ![curg[m]] = "Grunning"]
    /\ msyscall' = msyscall - 1 /\ mcpu' = mcpu + 1
    /\ Goto(m, "user")
    /\ UNCHANGED <<gm, readyonstop, sleeping, lockedm, gq, qvars, mhead, waitstop, svars,
                   schedlock, ret, curg, hvars, stopped>>

endcgocallback(m) ==
    /\ Enter(m, "user")
    /\ curg[m] \in incallback
    /\ incallback' = incallback \ {curg[m]}
    /\ gstatus' = [gstatus EXCEPT ![curg[m]] = "Gsyscall"]
    /\ mcpu' = mcpu - 1 /\ msyscall' = msyscall + 1
    /\ Goto(m, "syscall")
    /\ UNCHANGED <<gm, readyonstop, sleeping, lockedm, gq, qvars, mhead, waitstop, svars,
                   schedlock, ret, curg, hvars, stopped>>

(***************************************************************************)
(* The frame of gc (mgc0.c): stop the world, collect, start the world.     *)
(* A goroutine that finds gcsema taken goes to sleep (Park) on it.         *)
(***************************************************************************)
gc(m) ==
    /\ stopped = "no" /\ pc[m] = "user" /\ ~predawn
    /\ gcsema
    /\ gcsema' = FALSE
    /\ gcing' = m
    /\ Goto(m, "stoptheworld")
    /\ UNCHANGED <<gvars, wvars, gq, qvars, mhead, mcpu, msyscall, waitstop, mcpumax,
                   gomaxprocs, predawn, gcwaiting, schedlock, ret, curg, hvars, stopped>>

\* The loop of stoptheworld: go on, or wait for the note sched.stopped.
AwaitStoppedFaulty(m) ==
    IF mcpu > 2 THEN waitstop' = TRUE /\ Goto(m, "stopwait")
                ELSE Goto(m, "gc") /\ UNCHANGED waitstop

AwaitStopped(m) ==
    IF mcpu > 1 THEN waitstop' = TRUE /\ Goto(m, "stopwait")
                ELSE Goto(m, "gc") /\ UNCHANGED waitstop

stoptheworld(m) ==
    /\ Enter(m, "stoptheworld")
    /\ gcwaiting' = TRUE /\ mcpumax' = 1
    /\ AwaitStopped(m)
    /\ UNCHANGED <<gvars, wvars, gq, qvars, mhead, mcpu, msyscall, gomaxprocs, predawn,
                   gcing, gcsema, schedlock, ret, curg, hvars, stopped>>

stopwake(m) ==
    /\ Enter(m, "stopwait") /\ ~waitstop
    /\ AwaitStopped(m)
    /\ UNCHANGED <<gvars, wvars, gq, qvars, mhead, mcpu, msyscall, svars, schedlock, ret,
                   curg, hvars, stopped>>

\* The end of mark and sweep, m->gcing = 0.
gcdone(m) ==
    /\ stopped = "no" /\ pc[m] = "gc"
    /\ gcing' = NoM
    /\ Goto(m, "gcend")
    /\ UNCHANGED <<gvars, wvars, gq, qvars, mhead, mcpu, msyscall, waitstop, mcpumax,
                   gomaxprocs, predawn, gcwaiting, gcsema, schedlock, ret, curg, hvars, stopped>>

\* semrelease(&gcsema), which readies a sleeper through ready.
gcrelease(m) ==
    /\ stopped = "no" /\ pc[m] = "gcend"
    /\ gcsema' = TRUE
    /\ Goto(m, "starttheworld")
    /\ UNCHANGED <<gvars, wvars, gq, qvars, mhead, mcpu, msyscall, waitstop, mcpumax,
                   gomaxprocs, predawn, gcwaiting, gcing, schedlock, ret, curg, hvars, stopped>>

starttheworld(m) ==
    /\ Enter(m, "starttheworld")
    /\ gcwaiting' = FALSE /\ mcpumax' = gomaxprocs
    /\ CallMatchmg(m, "user")
    /\ UNCHANGED <<gvars, wvars, gq, qvars, mhead, mcpu, msyscall, waitstop, gomaxprocs,
                   predawn, gcing, gcsema, curg, hvars, stopped>>

\* The process has exited.
Exited == stopped # "no" /\ UNCHANGED vars

\* What the runtime does by itself ...
RuntimeStep(m) ==
    \/ matchmg(m) \/ scheduler(m) \/ mstart(m) \/ nextgandunlock(m) \/ nextgwait(m)
    \/ nextgwake(m) \/ run(m) \/ entersyscallEnd(m) \/ initdoneKick(m)
    \/ stoptheworld(m) \/ stopwake(m) \/ gcdone(m) \/ gcrelease(m) \/ starttheworld(m)

\* ... and what the program makes it do.
UserStep(m) ==
    \/ newproc1(m) \/ Gosched(m) \/ Park(m) \/ goexit(m) \/ initdone(m)
    \/ LockOSThread(m) \/ UnlockOSThread(m)
    \/ entersyscall(m) \/ exitsyscall(m) \/ startcgocallback(m) \/ endcgocallback(m)
    \/ gc(m)
    \/ \E g \in G : ready(m, g)
    \/ \E n \in ProcChoices : gomaxprocsfunc(m, n)

Next == (\E m \in M : RuntimeStep(m) \/ UserStep(m)) \/ Exited

Spec == Init /\ [][Next]_vars

(***************************************************************************)
(* Fairness.  The lock of sched is starvation free as far as FutexLock's   *)
(* is, so an M that can take it again and again gets it (strong fairness   *)
(* of the runtime's steps).  Scheduling is cooperative: nothing takes the  *)
(* CPU from a goroutine, so that others run depends on goroutines that     *)
(* enter the scheduler now and then, as every allocation and channel       *)
(* operation does when gcwaiting is set (malloc.goc:48, chan.c:185).  Init *)
(* functions return.  Nothing else a program may do is assumed to happen,  *)
(* not even that a system call returns.                                    *)
(***************************************************************************)
Fairness ==
    /\ \A m \in M : SF_vars(RuntimeStep(m)) /\ SF_vars(Gosched(m))
    /\ SF_vars(\E m \in M : initdone(m))

FairSpec == Spec /\ Fairness

(***************************************************************************)
(* Properties                                                              *)
(***************************************************************************)
\* M occupies a place among the running Ms: it runs a goroutine, collects, or
\* was handed a goroutine it has not picked up.
CpuLabels == {"run", "user", "scheduler", "initdone", "stoptheworld", "stopwait", "gc", "gcend",
              "starttheworld"}
Place(m) == IF pc[m] = "matchmg" THEN ret[m] ELSE pc[m]
OnCpu(m) == Place(m) \in CpuLabels \/ nextg[m] # NoG
InSyscall(m) == Place(m) \in {"sysexit", "syscall"}

\* None of the throws that report a broken scheduler is reached: no negative
\* mcpu, no M woken without a goroutine, no goroutine readied while it is
\* runnable or running (proc.c 246, 296, 339, 487, 492).
NoThrow == stopped \in {"no", "exit", "all goroutines are asleep - deadlock!"}

\* sched.mcpu and sched.msyscall count exactly the Ms on a CPU and in system
\* calls, through hand-offs, system calls and slow returns from them.
CountsExact ==
    stopped # "exit" =>
        /\ mcpu = Cardinality({m \in M : OnCpu(m)})
        /\ msyscall = Cardinality({m \in M : InSyscall(m)})

\* No goroutine is in two places where an M would find it (the queue, a nextg,
\* the hands of an M), and a runnable one is in exactly one: it is neither lost
\* nor run twice, whatever path (hand-off, slow exit, readyonstop) it took.
Places(g) == {<<"gq", i>> : i \in {j \in DOMAIN gq : gq[j] = g}}
             \cup {<<"nextg", m>> : m \in {n \in M : nextg[n] = g}}
             \cup {<<"curg", m>> : m \in {n \in M : curg[n] = g}}
RunnableOnce ==
    stopped = "no" =>
        \A g \in G : /\ Cardinality(Places(g)) <= 1
                     /\ gstatus[g] = "Grunnable" => Places(g) # {}

\* "All goroutines are asleep" is reported only when every goroutine that was
\* started and has not ended waits for another goroutine.
DeadlockReportTrue ==
    stopped = "all goroutines are asleep - deadlock!" =>
        \A g \in G : gstatus[g] \in {"Gidle", "Gdead", "Gwaiting"}

\* With the lock free after init, no goroutine is left in the queue while
\* there is room for another running M.
WorkConserving ==
    stopped = "no" /\ schedlock = NoM /\ ~predawn /\ gq # <<>>
        => mcpu >= mcpumax \/ \E m \in M : pc[m] = "initdone"

\* A wakeup is never lost: a goroutine whose status is Gwaiting can still be
\* readied by somebody, or has been and carries readyonstop to the scheduler.
NoLostWakeup ==
    stopped = "no" =>
        \A g \in G : gstatus[g] = "Gwaiting" => g \in sleeping \/ (readyonstop[g] /\ gm[g] # NoM)

\* m executes the code of a goroutine, or is about to without asking again.
Runs(m) == Place(m) \in {"run", "user"}

\* Between stoptheworld and starttheworld nobody else executes Go code: an M
\* that leaves a system call must go through the scheduler and wait.
Collects(m) == pc[m] \in {"gc", "gcend", "starttheworld"}
WorldStopped == \A m, n \in M : m # n /\ Collects(m) => ~Runs(n)

\* The world does stop: an M that waits in stoptheworld is woken once the
\* others have stopped or are in system calls; the signal is given by whoever
\* brings mcpu down (nextgandunlock, entersyscall).
StopCompletes ==
    \A m \in M : pc[m] = "stopwait" ~> (pc[m] = "gc" \/ stopped # "no")

\* A runnable goroutine eventually runs: in the queue it is overtaken only by
\* those before it, and a system call that does not return takes no CPU.
RunnableRuns ==
    \A g \in G : gstatus[g] = "Grunnable" ~> (gstatus[g] = "Grunning" \/ stopped # "no")
=============================================================================
