------------------------------ MODULE SchedInv ------------------------------
(***************************************************************************)
(* The inductive invariant of the scheduler (SInv), for every finite set   *)
(* of goroutines and of Ms, with wired goroutines, callbacks from C,       *)
(* GOMAXPROCS and collections, and what each kind of change to the         *)
(* goroutines does to it.                                                  *)
(*                                                                         *)
(* Shape says where goroutines are: what an M has in hand fits its place   *)
(* in the code, queue, nextgs and hands have nothing in common, a runnable *)
(* goroutine is in one of them and a waiting one can still be readied.     *)
(* Counts says what mcpu and msyscall count. Control says who may hold the *)
(* lock, what holds before initdone, during a collection and after the end *)
(* of the program.                                                         *)
(***************************************************************************)
EXTENDS Sched, TLAPS

Statuses == {"Gidle", "Grunnable", "Grunning", "Gsyscall", "Gwaiting", "Gmoribund", "Gdead"}
Locked == {"matchmg", "nextg", "nextgwait", "sysexit"}
Returns == {"user", "gcend", "nextg", "nextgwait", "sysexit"}
Busy == {"user", "initdone", "stoptheworld", "stopwait", "gc", "gcend", "starttheworld"}
System == {"sysexit", "syscall"}
Labels == CpuLabels \cup Locked \cup {"new", "mstart", "sleep", "syscall"}

\* Where each M is, matchmg aside.
place == [m \in M |-> Place(m)]

Elems(s) == {s[i] : i \in 1..Len(s)}
NoDup(s) == \A i, j \in 1..Len(s) : s[i] = s[j] => i = j

STypes ==
    /\ gstatus \in [G -> Statuses]
    /\ gm \in [G -> M \cup {NoM}] /\ lockedm \in [G -> M \cup {NoM}]
    /\ readyonstop \in [G -> BOOLEAN] /\ sleeping \subseteq G
    /\ gq \in Seq(G) /\ gfree \in Seq(G) /\ mhead \in Seq(M)
    /\ mcpu \in Int /\ msyscall \in Int
    /\ mcpumax \in Nat \ {0} /\ gomaxprocs \in Nat \ {0} /\ predawn \in BOOLEAN
    /\ gcing \in M \cup {NoM} /\ schedlock \in M \cup {NoM}
    /\ pc \in [M -> Labels] /\ ret \in [M -> Returns]
    /\ curg \in [M -> G \cup {NoG}] /\ nextg \in [M -> G \cup {NoG}]
    /\ waitnextg \in [M -> BOOLEAN]

\* Who is inside a locked section holds the lock.
LockHeld == \A m \in M : schedlock = m <=> pc[m] \in Locked

\* An M has a goroutine in hand exactly at these labels; a nextg waits for an
\* M that is about to look at it.
Hands ==
    \A m \in M :
        /\ curg[m] # NoG <=> place[m] \in CpuLabels \cup System
        /\ nextg[m] # NoG => place[m] \in {"mstart", "nextg", "sleep"}
        /\ place[m] = "sleep" => (waitnextg[m] <=> nextg[m] = NoG)

\* The queue, the nextgs and the goroutines in hand have nothing in common.
Apart ==
    /\ NoDup(gq)
    /\ \A m \in M : curg[m] \notin Elems(gq) /\ nextg[m] \notin Elems(gq)
    /\ \A m, n \in M : /\ curg[m] # NoG => curg[m] # nextg[n]
                       /\ curg[m] # NoG /\ curg[m] = curg[n] => m = n
                       /\ nextg[m] # NoG /\ nextg[m] = nextg[n] => m = n

\* Where a runnable goroutine is.
Runnable ==
    /\ \A g \in Elems(gq) : gstatus[g] = "Grunnable"
    /\ \A m \in M : /\ nextg[m] # NoG => gstatus[nextg[m]] = "Grunnable"
                    /\ place[m] = "run" => gstatus[curg[m]] = "Grunnable"
    /\ \A g \in G : gstatus[g] = "Grunnable" =>
          \/ g \in Elems(gq)
          \/ \E m \in M : nextg[m] = g \/ (curg[m] = g /\ place[m] = "run")

\* g->m is the M that runs g.
Running ==
    /\ \A m \in M : curg[m] # NoG /\ place[m] # "run" => gm[curg[m]] = m
    /\ \A g \in G : gm[g] # NoM => curg[gm[g]] = g /\ place[gm[g]] # "run"

\* What the label of its M says of the status of a goroutine.
Status ==
    /\ \A m \in M :
        /\ place[m] \in Busy => gstatus[curg[m]] = "Grunning"
        /\ place[m] \in System => gstatus[curg[m]] = "Gsyscall"
        /\ place[m] = "scheduler" =>
              gstatus[curg[m]] \in {"Grunning", "Gwaiting", "Gmoribund", "Gsyscall"}
    /\ \A g \in G : gstatus[g] \in {"Grunning", "Gsyscall", "Gmoribund"} => gm[g] # NoM

\* Who sleeps, and who will be readied when it stops.
Sleepers ==
    /\ \A g \in sleeping : gstatus[g] = "Gwaiting" /\ ~readyonstop[g]
    /\ \A g \in G : readyonstop[g] => /\ gm[g] # NoM /\ place[gm[g]] = "scheduler"
                                      /\ gstatus[g] \in {"Gwaiting", "Gsyscall"}
    /\ \A g \in G : gstatus[g] = "Gwaiting" => g \in sleeping \/ readyonstop[g]
    /\ \A m \in M : place[m] = "scheduler" /\ gstatus[curg[m]] = "Gsyscall"
                        => readyonstop[curg[m]]

FreeList == NoDup(gfree) /\ \A g \in Elems(gfree) : gstatus[g] = "Gdead"

\* The pool holds Ms that wait for work.
Pool ==
    /\ NoDup(mhead)
    /\ \A m \in Elems(mhead) : place[m] \in {"nextgwait", "sleep"} /\ nextg[m] = NoG

\* A goroutine wired to an M is run by that M, and the M runs nobody else.
Wired ==
    \A g \in G : lockedm[g] # NoM =>
        /\ gstatus[g] \notin {"Gidle", "Gdead"} /\ g \notin Elems(gq)
        /\ place[lockedm[g]] \notin {"new", "mstart"} /\ lockedm[g] \notin Elems(mhead)
        /\ curg[lockedm[g]] \in {NoG, g} /\ nextg[lockedm[g]] \in {NoG, g}
        /\ \A m \in M : curg[m] = g \/ nextg[m] = g => m = lockedm[g]
        /\ \A h \in G : lockedm[h] = lockedm[g] => h = g

Shape == Hands /\ Apart /\ Runnable /\ Running /\ Status /\ Sleepers /\ FreeList /\ Pool /\ Wired

\* Until initdone there is one M, which runs main.
Dawn ==
    predawn =>
        /\ \A m \in M : /\ pc[m] \in {"new", "mstart", "nextg", "run", "user"}
                        /\ m # m0 => pc[m] = "new"
                        /\ nextg[m] = NoG
        /\ incallback = {} /\ \A g \in G : lockedm[g] = NoM
        /\ pc[m0] \in {"mstart", "nextg"} => gq # <<>>

Cpus == {m \in M : place[m] \in CpuLabels \/ nextg[m] # NoG}
Syscalls == {m \in M : place[m] \in System}
Counts == mcpu = Cardinality(Cpus) /\ msyscall = Cardinality(Syscalls)

\* An M that is about to wait leaves no goroutine it could have run.
NoneLeft == \A m \in M : pc[m] = "nextgwait" => gq = <<>> \/ mcpu >= mcpumax

\* The collector is outside the scheduler until m->gcing is cleared.
Gcing == gcing # NoM => pc[gcing] \in {"stoptheworld", "stopwait", "gc"}

\* An M in the pool does not serve the queue for others.
Idle == \A m \in Elems(mhead) : pc[m] # "matchmg"

Ended == NoThrow /\ DeadlockReportTrue

Control == LockHeld /\ Dawn /\ NoneLeft /\ Idle /\ Gcing /\ Ended

SInv == STypes /\ Shape /\ Counts /\ Control

-----------------------------------------------------------------------------
\* Sequences without duplicates, as sets.
LEMMA ElemsAppend ==
    ASSUME NEW S, NEW s \in Seq(S), NEW x \in S, NoDup(s), x \notin Elems(s)
    PROVE  /\ Append(s, x) \in Seq(S) /\ Append(s, x) # <<>> /\ NoDup(Append(s, x))
           /\ Elems(Append(s, x)) = Elems(s) \cup {x}
<1>1. /\ Append(s, x) \in Seq(S) /\ Append(s, x) # <<>>
      /\ Len(Append(s, x)) = Len(s) + 1 /\ Len(s) \in Nat
      /\ \A i \in 1..Len(s) : Append(s, x)[i] = s[i]
      /\ Append(s, x)[Len(s) + 1] = x
  OBVIOUS
<1>2. \A i \in 1..Len(s) + 1 : i \in 1..Len(s) \/ i = Len(s) + 1
  BY <1>1
<1>3. \A i \in 1..Len(s) : s[i] # x
  BY DEF Elems
<1>4. NoDup(Append(s, x))
  BY <1>1, <1>2, <1>3 DEF NoDup
<1>5. Elems(Append(s, x)) = Elems(s) \cup {x}
  <2>1. ASSUME NEW e \in Elems(Append(s, x)) PROVE e \in Elems(s) \cup {x}
    BY <1>1, <1>2 DEF Elems
  <2>2. ASSUME NEW e \in Elems(s) PROVE e \in Elems(Append(s, x))
    <3>1. PICK i \in 1..Len(s) : e = s[i]
      BY DEF Elems
    <3>2. i \in 1..Len(Append(s, x)) /\ e = Append(s, x)[i]
      BY <1>1, <3>1
    <3> QED BY <3>2 DEF Elems
  <2>3. x \in Elems(Append(s, x))
    BY <1>1 DEF Elems
  <2> QED BY <2>1, <2>2, <2>3
<1> QED BY <1>1, <1>4, <1>5

\* Taking the first element off a queue removes it and nothing else.
LEMMA ElemsTail ==
    ASSUME NEW S, NEW s \in Seq(S), NoDup(s), s # <<>>
    PROVE  /\ Head(s) \in S /\ Tail(s) \in Seq(S) /\ NoDup(Tail(s))
           /\ Head(s) \in Elems(s) /\ Elems(Tail(s)) = Elems(s) \ {Head(s)}
<1>1. /\ Head(s) \in S /\ Tail(s) \in Seq(S) /\ Len(Tail(s)) = Len(s) - 1
      /\ \A i \in 1..Len(Tail(s)) : Tail(s)[i] = s[i + 1]
      /\ Len(s) \in Nat \ {0}
  OBVIOUS
<1>2. Head(s) = s[1] /\ 1 \in 1..Len(s)
  BY <1>1
<1>3. NoDup(Tail(s))
  BY <1>1 DEF NoDup
<1>4. Elems(Tail(s)) = Elems(s) \ {Head(s)}
  <2>1. ASSUME NEW e \in Elems(Tail(s)) PROVE e \in Elems(s) /\ e # Head(s)
    <3>1. PICK i \in 1..Len(Tail(s)) : e = Tail(s)[i]
      BY DEF Elems
    <3>2. i + 1 \in 1..Len(s) /\ e = s[i + 1] /\ i + 1 # 1
      BY <1>1, <3>1
    <3> QED BY <3>2, <1>2 DEF Elems, NoDup
  <2>2. ASSUME NEW e \in Elems(s), e # Head(s) PROVE e \in Elems(Tail(s))
    <3>1. PICK i \in 1..Len(s) : e = s[i]
      BY DEF Elems
    <3>2. i - 1 \in 1..Len(Tail(s)) /\ e = Tail(s)[i - 1]
      BY <1>1, <1>2, <2>2, <3>1
    <3> QED BY <3>2 DEF Elems
  <2> QED BY <2>1, <2>2
<1> QED BY Zenon, <1>1, <1>2, <1>3, <1>4 DEF Elems

\* Putting an element in front of a list adds it and nothing else.
LEMMA ElemsCons ==
    ASSUME NEW S, NEW s \in Seq(S), NEW x \in S, NoDup(s), x \notin Elems(s)
    PROVE  /\ <<x>> \o s \in Seq(S) /\ NoDup(<<x>> \o s)
           /\ Elems(<<x>> \o s) = Elems(s) \cup {x}
<1>0. PICK t : t = <<x>> \o s
  BY Zenon
<1>1. /\ t \in Seq(S) /\ Len(t) = Len(s) + 1 /\ Len(s) \in Nat
      /\ t[1] = x /\ \A i \in 1..Len(s) : t[i + 1] = s[i]
  BY <1>0
<1>2. \A i \in 1..Len(t) : i = 1 \/ (i - 1 \in 1..Len(s) /\ t[i] = s[i - 1])
  BY <1>1
<1>3. \A i \in 1..Len(s) : s[i] # x
  BY DEF Elems
<1>4. NoDup(t)
  <2> SUFFICES ASSUME NEW i \in 1..Len(t), NEW j \in 1..Len(t), t[i] = t[j] PROVE i = j
    BY DEF NoDup
  <2>1. CASE i # 1 /\ j # 1
    <3>1. /\ i - 1 \in 1..Len(s) /\ t[i] = s[i - 1]
          /\ j - 1 \in 1..Len(s) /\ t[j] = s[j - 1]
      BY <1>2, <2>1
    <3>2. i - 1 = j - 1
      BY Zenon, <3>1 DEF NoDup
    <3> QED BY <1>1, <3>2
  <2>2. CASE i = 1 \/ j = 1
    BY Zenon, <1>1, <1>2, <1>3, <2>2
  <2> QED BY <2>1, <2>2
<1>5. Elems(t) = Elems(s) \cup {x}
  <2>1. ASSUME NEW e \in Elems(t) PROVE e \in Elems(s) \cup {x}
    <3>1. PICK i \in 1..Len(t) : e = t[i]
      BY DEF Elems
    <3> QED BY Zenon, <1>1, <1>2, <3>1 DEF Elems
  <2>2. ASSUME NEW e \in Elems(s) PROVE e \in Elems(t)
    <3>1. PICK i \in 1..Len(s) : e = s[i]
      BY DEF Elems
    <3>2. i + 1 \in 1..Len(t) /\ e = t[i + 1]
      BY <1>1, <3>1
    <3> QED BY <3>2 DEF Elems
  <2>3. x \in Elems(t)
    <3>1. 1 \in 1..Len(t)
      BY <1>1
    <3> QED BY <1>1, <3>1 DEF Elems
  <2> QED BY <2>1, <2>2, <2>3
<1> QED BY <1>0, <1>1, <1>4, <1>5

-----------------------------------------------------------------------------
\* The places of the Ms.
LEMMA PlaceType == ASSUME STypes PROVE place \in [M -> Labels \ {"matchmg"}]
BY DEF STypes, place, Place, Labels, Locked, Returns, CpuLabels

\* A jump moves one M to the place it jumps to.
LEMMA PlaceGoto ==
    ASSUME STypes, NEW m \in M, NEW l \in Labels \ {"matchmg"}, Goto(m, l), UNCHANGED ret
    PROVE  place' = [place EXCEPT ![m] = l] /\ pc' \in [M -> Labels]
BY Zenon DEF STypes, place, Place, Goto, Labels

\* A call of matchmg is at the place it returns to.
LEMMA PlaceCall ==
    ASSUME STypes, NEW m \in M, NEW l \in Returns, CallMatchmg(m, l)
    PROVE  /\ place' = [place EXCEPT ![m] = l] /\ schedlock' = m
           /\ pc' = [pc EXCEPT ![m] = "matchmg"]
           /\ pc' \in [M -> Labels] /\ ret' \in [M -> Returns]
BY Zenon DEF STypes, place, Place, CallMatchmg, Goto, Labels, Locked, Returns

\* Outside matchmg the place of an M is its pc.
LEMMA PlaceOf ==
    ASSUME STypes, NEW m \in M
    PROVE  /\ pc[m] # "matchmg" => place[m] = pc[m]
           /\ pc[m] = "matchmg" => place[m] = ret[m]
           /\ place[m] \notin Returns => place[m] = pc[m]
BY DEF STypes, place, Place

\* Steps that move an M without touching goroutines.
LEMMA ShapeMoves ==
    ASSUME STypes, Shape, NEW m \in M, NEW l, place' = [place EXCEPT ![m] = l],
           \/ l = place[m]
           \/ place[m] \in Busy /\ l \in Busy \cup {"scheduler"}
           \/ place[m] = "sysexit" /\ l = "syscall"
           \/ place[m] = "mstart" /\ l = "nextg"
           \/ place[m] = "nextg" /\ l = "nextgwait" /\ nextg[m] = NoG,
           gstatus' = gstatus, gm' = gm, lockedm' = lockedm, readyonstop' = readyonstop,
           sleeping' = sleeping, gq' = gq, gfree' = gfree, mhead' = mhead, curg' = curg,
           nextg' = nextg, waitnextg' = waitnextg
    PROVE  Shape'
<1>0. place \in [M -> Labels \ {"matchmg"}]
  BY PlaceType
<1>1. Hands'
  BY <1>0 DEF Shape, Hands, Busy, System, CpuLabels
<1>2. Apart'
  BY DEF Shape, Apart, Elems, NoDup
<1>3. Runnable'
  BY <1>0 DEF Shape, Runnable, Busy, Elems
<1>4. Running'
  BY <1>0 DEF Shape, Running, Busy, Hands, CpuLabels, System
<1>5. Status'
  BY <1>0 DEF Shape, Status, Busy, System
<1>6. Sleepers'
  BY <1>0 DEF Shape, Sleepers, Status, Busy, System
<1>7. FreeList'
  BY DEF Shape, FreeList, Elems, NoDup
<1>8. Pool'
  BY <1>0 DEF Shape, Pool, Busy, Elems, NoDup
<1>9. Wired'
  BY <1>0 DEF Shape, Wired, Busy, Elems
<1> QED BY <1>1, <1>2, <1>3, <1>4, <1>5, <1>6, <1>7, <1>8, <1>9 DEF Shape

\* What is known of the goroutine that m runs.
LEMMA InHand ==
    ASSUME STypes, Shape, NEW m \in M, place[m] \in CpuLabels \cup System, place[m] # "run"
    PROVE  /\ curg[m] \in G /\ gm[curg[m]] = m /\ \A n \in M : curg[n] = curg[m] => n = m
           /\ curg[m] \notin Elems(gq) /\ curg[m] \notin Elems(gfree)
           /\ \A n \in M : nextg[n] # curg[m]
           /\ gstatus[curg[m]] \in {"Grunning", "Gsyscall", "Gwaiting", "Gmoribund"}
           /\ place[m] \in Busy => gstatus[curg[m]] = "Grunning"
           /\ place[m] \in System => gstatus[curg[m]] = "Gsyscall"
           /\ place[m] # "scheduler" => ~readyonstop[curg[m]] /\ curg[m] \notin sleeping
<1>1. curg[m] \in G /\ curg[m] # NoG
  BY SchedAssumption DEF STypes, Shape, Hands
<1>2. gm[curg[m]] = m
  BY <1>1 DEF Shape, Running
<1>3. /\ curg[m] \notin Elems(gq)
      /\ \A n \in M : nextg[n] # curg[m] /\ (curg[n] = curg[m] => n = m)
  BY <1>1 DEF Shape, Apart
<1>4. /\ gstatus[curg[m]] \in {"Grunning", "Gsyscall", "Gwaiting", "Gmoribund"}
      /\ place[m] \in Busy => gstatus[curg[m]] = "Grunning"
      /\ place[m] \in System => gstatus[curg[m]] = "Gsyscall"
  BY <1>1 DEF Shape, Status, Busy, System, CpuLabels
<1>5. curg[m] \notin Elems(gfree)
  BY <1>1, <1>4 DEF Shape, FreeList
<1>6. place[m] # "scheduler" => ~readyonstop[curg[m]] /\ curg[m] \notin sleeping
  BY <1>1, <1>2, <1>4 DEF Shape, Sleepers, Busy, System, CpuLabels
<1> QED BY <1>1, <1>2, <1>3, <1>4, <1>5, <1>6

\* m picks up the goroutine handed to it.
LEMMA ShapeTakesNextg ==
    ASSUME STypes, Shape, NEW m \in M,
           place[m] \in {"nextg", "sleep"},
           nextg[m] # NoG,
           place' = [place EXCEPT ![m] = "run"],
           curg' = [curg EXCEPT ![m] = nextg[m]],
           nextg' = [nextg EXCEPT ![m] = NoG],
           gstatus' = gstatus, gm' = gm, lockedm' = lockedm, readyonstop' = readyonstop,
           sleeping' = sleeping, gq' = gq, gfree' = gfree, mhead' = mhead,
           waitnextg' = waitnextg
    PROVE  Shape'
<1>1. place \in [M -> Labels \ {"matchmg"}]
  BY PlaceType
<1>2. curg[m] = NoG
  BY Zenon, <1>1 DEF STypes, Shape, Hands, System, CpuLabels
<1>3. Hands'
  BY <1>1, <1>2, SchedAssumption DEF STypes, Shape, Hands, Busy, System, CpuLabels
<1>4. Apart'
  BY <1>1, <1>2, SchedAssumption DEF STypes, Shape, Apart, Hands, System, CpuLabels
<1>5. Runnable'
  BY <1>1, <1>2, SchedAssumption DEF STypes, Shape, Runnable, Hands, System, CpuLabels
<1>6. Running'
  BY <1>1, <1>2, SchedAssumption DEF STypes, Shape, Running
<1>7. Status'
  BY <1>1, <1>2, SchedAssumption DEF STypes, Shape, Status, Busy, System, Hands, System, CpuLabels
<1>8. Sleepers'
  BY <1>1, <1>2, SchedAssumption DEF STypes, Shape, Sleepers, Hands, System, CpuLabels
<1>9. FreeList'
  BY <1>1, <1>2, SchedAssumption DEF STypes, Shape, FreeList
<1>10. Pool'
  BY <1>1, <1>2, SchedAssumption DEF STypes, Shape, Pool
<1>11. Wired'
  BY SMTT(30), <1>1, <1>2, SchedAssumption DEF STypes, Shape, Wired
<1> QED BY <1>3, <1>4, <1>5, <1>6, <1>7, <1>8, <1>9, <1>10, <1>11 DEF Shape

\* m takes a goroutine from the queue.
LEMMA ShapeTakesQueue ==
    ASSUME STypes, Shape, NEW m \in M,
           place[m] = "nextg",
           nextg[m] = NoG,
           \A g \in G : lockedm[g] # m,
           NEW h \in Elems(gq),
           NoDup(gq'),
           Elems(gq') = Elems(gq) \ {h},
           place' = [place EXCEPT ![m] = "run"],
           curg' = [curg EXCEPT ![m] = h],
           gstatus' = gstatus, gm' = gm, lockedm' = lockedm, readyonstop' = readyonstop,
           sleeping' = sleeping, gfree' = gfree, mhead' = mhead, nextg' = nextg,
           waitnextg' = waitnextg
    PROVE  Shape'
<1>1. place \in [M -> Labels \ {"matchmg"}]
  BY PlaceType
<1>2. curg[m] = NoG
  BY Zenon, <1>1 DEF STypes, Shape, Hands, System, CpuLabels
<1>3. h \in G
  BY DEF STypes, Elems
<1>4. Hands'
  BY <1>1, <1>2, <1>3, SchedAssumption DEF STypes, Shape, Hands, Busy, System, CpuLabels
<1>5. Apart'
  BY <1>1, <1>2, <1>3, SchedAssumption DEF STypes, Shape, Apart, Hands, System, CpuLabels
<1>6. Runnable'
  BY <1>1, <1>2, <1>3, SchedAssumption DEF STypes, Shape, Runnable, Hands, System, CpuLabels
<1>7. Running'
  BY <1>1, <1>2, <1>3, SchedAssumption DEF STypes, Shape, Running
<1>8. Status'
  BY <1>1, <1>2, <1>3, SchedAssumption DEF STypes, Shape, Status, Busy, System, Hands, System, CpuLabels
<1>9. Sleepers'
  BY <1>1, <1>2, <1>3, SchedAssumption DEF STypes, Shape, Sleepers, Hands, System, CpuLabels
<1>10. FreeList'
  BY <1>1, <1>2, <1>3, SchedAssumption DEF STypes, Shape, FreeList
<1>11. Pool'
  BY <1>1, <1>2, <1>3, SchedAssumption DEF STypes, Shape, Pool
<1>12. Wired'
  BY SMTT(30), <1>1, <1>2, <1>3, SchedAssumption DEF STypes, Shape, Wired
<1> QED BY <1>4, <1>5, <1>6, <1>7, <1>8, <1>9, <1>10, <1>11, <1>12 DEF Shape

\* m puts itself into the pool.
LEMMA ShapeMput ==
    ASSUME STypes, Shape, NEW m \in M,
           place[m] = "nextg",
           nextg[m] = NoG,
           \A g \in G : lockedm[g] # m,
           place' = [place EXCEPT ![m] = "nextgwait"],
           NoDup(mhead'),
           Elems(mhead') = Elems(mhead) \cup {m},
           gstatus' = gstatus, gm' = gm, lockedm' = lockedm, readyonstop' = readyonstop,
           sleeping' = sleeping, gq' = gq, gfree' = gfree, curg' = curg,
           nextg' = nextg, waitnextg' = waitnextg
    PROVE  Shape'
<1>1. place \in [M -> Labels \ {"matchmg"}]
  BY PlaceType
<1>2. Elems(mhead) \subseteq M
  BY DEF STypes, Elems
<1>3. Hands'
  BY <1>1, <1>2, SchedAssumption DEF STypes, Shape, Hands, Busy, System, CpuLabels
<1>4. Apart'
  BY <1>1, <1>2, SchedAssumption DEF STypes, Shape, Apart
<1>5. Runnable'
  BY <1>1, <1>2, SchedAssumption DEF STypes, Shape, Runnable
<1>6. Running'
  BY <1>1, <1>2, SchedAssumption DEF STypes, Shape, Running, Hands, System, CpuLabels
<1>7. Status'
  BY <1>1, <1>2, SchedAssumption DEF STypes, Shape, Status, Busy, System
<1>8. Sleepers'
  BY <1>1, <1>2, SchedAssumption DEF STypes, Shape, Sleepers
<1>9. FreeList'
  BY <1>1, <1>2, SchedAssumption DEF STypes, Shape, FreeList
<1>10. Pool'
  BY <1>1, <1>2, SchedAssumption DEF STypes, Shape, Pool
<1>11. Wired'
  BY <1>1, <1>2, SchedAssumption DEF STypes, Shape, Wired
<1> QED BY <1>3, <1>4, <1>5, <1>6, <1>7, <1>8, <1>9, <1>10, <1>11 DEF Shape

\* m is about to sleep on its note.
LEMMA ShapeWaits ==
    ASSUME STypes, Shape, NEW m \in M,
           place[m] = "nextgwait",
           place' = [place EXCEPT ![m] = "sleep"],
           waitnextg' = [waitnextg EXCEPT ![m] = TRUE],
           gstatus' = gstatus, gm' = gm, lockedm' = lockedm, readyonstop' = readyonstop,
           sleeping' = sleeping, gq' = gq, gfree' = gfree, mhead' = mhead,
           curg' = curg, nextg' = nextg
    PROVE  Shape'
<1>1. place \in [M -> Labels \ {"matchmg"}]
  BY PlaceType
<1>2. Hands'
  BY <1>1, SchedAssumption DEF STypes, Shape, Hands, Busy, System, CpuLabels
<1>3. Apart'
  BY <1>1, SchedAssumption DEF STypes, Shape, Apart
<1>4. Runnable'
  BY <1>1, SchedAssumption DEF STypes, Shape, Runnable
<1>5. Running'
  BY <1>1, SchedAssumption DEF STypes, Shape, Running, Hands, System, CpuLabels
<1>6. Status'
  BY <1>1, SchedAssumption DEF STypes, Shape, Status, Busy, System
<1>7. Sleepers'
  BY <1>1, SchedAssumption DEF STypes, Shape, Sleepers
<1>8. FreeList'
  BY <1>1, SchedAssumption DEF STypes, Shape, FreeList
<1>9. Pool'
  BY <1>1, SchedAssumption DEF STypes, Shape, Pool
<1>10. Wired'
  BY SMTT(30), <1>1, SchedAssumption DEF STypes, Shape, Wired
<1> QED BY <1>2, <1>3, <1>4, <1>5, <1>6, <1>7, <1>8, <1>9, <1>10 DEF Shape

\* m switches to its goroutine.
LEMMA ShapeRuns ==
    ASSUME STypes, Shape, NEW m \in M,
           place[m] = "run",
           place' = [place EXCEPT ![m] = "user"],
           readyonstop' = [readyonstop EXCEPT ![curg[m]] = FALSE],
           gstatus' = [gstatus EXCEPT ![curg[m]] = "Grunning"],
           gm' = [gm EXCEPT ![curg[m]] = m],
           lockedm' = lockedm, sleeping' = sleeping, gq' = gq, gfree' = gfree,
           mhead' = mhead, curg' = curg, nextg' = nextg, waitnextg' = waitnextg
    PROVE  Shape'
<1>1. place \in [M -> Labels \ {"matchmg"}]
  BY PlaceType
<1>2. curg[m] \in G /\ gstatus[curg[m]] = "Grunnable" /\ gm[curg[m]] = NoM
  BY <1>1 DEF STypes, Shape, Hands, Apart, Runnable, Running, CpuLabels
<1>3. Hands'
  BY <1>1, <1>2, SchedAssumption DEF STypes, Shape, Hands, Busy, System, CpuLabels
<1>4. Apart'
  BY <1>1, <1>2, SchedAssumption DEF STypes, Shape, Apart
<1>5. Runnable'
  BY <1>1, <1>2, SchedAssumption DEF STypes, Shape, Runnable, Apart
<1>6. Running'
  BY <1>1, <1>2, SchedAssumption DEF STypes, Shape, Running, Apart, Hands, System, CpuLabels
<1>7. Status'
  BY <1>1, <1>2, SchedAssumption DEF STypes, Shape, Status, Busy, System, Apart, Runnable, Running, Hands
<1>8. Sleepers'
  BY <1>1, <1>2, SchedAssumption DEF STypes, Shape, Sleepers, Apart, Runnable, Running
<1>9. FreeList'
  BY <1>1, <1>2, SchedAssumption DEF STypes, Shape, FreeList, Runnable
<1>10. Pool'
  BY <1>1, <1>2, SchedAssumption DEF STypes, Shape, Pool
<1>11. Wired'
  BY SMTT(30), <1>1, <1>2, SchedAssumption DEF STypes, Shape, Wired
<1> QED BY Zenon, <1>3, <1>4, <1>5, <1>6, <1>7, <1>8, <1>9, <1>10, <1>11 DEF Shape

\* The goroutine of m announces that it will wait, and m enters the scheduler.
LEMMA ShapeParks ==
    ASSUME STypes, Shape, NEW m \in M,
           place[m] = "user",
           place' = [place EXCEPT ![m] = "scheduler"],
           gstatus' = [gstatus EXCEPT ![curg[m]] = "Gwaiting"],
           sleeping' = sleeping \cup {curg[m]},
           gm' = gm, lockedm' = lockedm, readyonstop' = readyonstop, gq' = gq,
           gfree' = gfree, mhead' = mhead, curg' = curg, nextg' = nextg,
           waitnextg' = waitnextg
    PROVE  Shape'
<1>1. place \in [M -> Labels \ {"matchmg"}]
  BY Zenon, PlaceType
<1>2. /\ curg[m] \in G /\ gm[curg[m]] = m /\ \A n \in M : curg[n] = curg[m] => n = m
      /\ curg[m] \notin Elems(gq) /\ curg[m] \notin Elems(gfree)
      /\ \A n \in M : nextg[n] # curg[m]
      /\ gstatus[curg[m]] = "Grunning" /\ ~readyonstop[curg[m]] /\ curg[m] \notin sleeping
  BY InHand DEF CpuLabels, System, Busy
<1>3. Hands'
  BY <1>1, <1>2, SchedAssumption DEF STypes, Shape, Hands, Busy, System, CpuLabels
<1>4. Apart'
  BY <1>1, <1>2, SchedAssumption DEF STypes, Shape, Apart
<1>5. Runnable'
  BY <1>1, <1>2, SchedAssumption DEF STypes, Shape, Runnable
<1>6. Running'
  BY <1>1, <1>2, SchedAssumption DEF STypes, Shape, Running
<1>7. Status'
  BY <1>1, <1>2, SchedAssumption DEF STypes, Shape, Status, Busy, System
<1>8. Sleepers'
  BY <1>1, <1>2, SchedAssumption DEF STypes, Shape, Sleepers
<1>9. FreeList'
  BY <1>1, <1>2, SchedAssumption DEF STypes, Shape, FreeList
<1>10. Pool'
  BY <1>1, <1>2, SchedAssumption DEF STypes, Shape, Pool
<1>11. Wired'
  BY SMTT(30), <1>1, <1>2, SchedAssumption DEF STypes, Shape, Wired
<1> QED BY Zenon, <1>3, <1>4, <1>5, <1>6, <1>7, <1>8, <1>9, <1>10, <1>11 DEF Shape

\* The goroutine of m ends, and m enters the scheduler.
LEMMA ShapeExits ==
    ASSUME STypes, Shape, NEW m \in M,
           place[m] = "user",
           place' = [place EXCEPT ![m] = "scheduler"],
           gstatus' = [gstatus EXCEPT ![curg[m]] = "Gmoribund"],
           gm' = gm, lockedm' = lockedm, readyonstop' = readyonstop, sleeping' = sleeping,
           gq' = gq, gfree' = gfree, mhead' = mhead, curg' = curg,
           nextg' = nextg, waitnextg' = waitnextg
    PROVE  Shape'
<1>1. place \in [M -> Labels \ {"matchmg"}]
  BY Zenon, PlaceType
<1>2. /\ curg[m] \in G /\ gm[curg[m]] = m /\ \A n \in M : curg[n] = curg[m] => n = m
      /\ curg[m] \notin Elems(gq) /\ curg[m] \notin Elems(gfree)
      /\ \A n \in M : nextg[n] # curg[m]
      /\ gstatus[curg[m]] = "Grunning" /\ ~readyonstop[curg[m]] /\ curg[m] \notin sleeping
  BY InHand DEF CpuLabels, System, Busy
<1>3. Hands'
  BY Zenon, <1>1, <1>2, SchedAssumption DEF STypes, Shape, Hands, Busy, System, CpuLabels
<1>4. Apart'
  BY Zenon, <1>1, <1>2, SchedAssumption DEF STypes, Shape, Apart
<1>5. Runnable'
  BY <1>1, <1>2, SchedAssumption DEF STypes, Shape, Runnable
<1>6. Running'
  BY <1>1, <1>2, SchedAssumption DEF STypes, Shape, Running
<1>7. Status'
  BY <1>1, <1>2, SchedAssumption DEF STypes, Shape, Status, Busy, System
<1>8. Sleepers'
  BY <1>1, <1>2, SchedAssumption DEF STypes, Shape, Sleepers
<1>9. FreeList'
  BY <1>1, <1>2, SchedAssumption DEF STypes, Shape, FreeList
<1>10. Pool'
  BY <1>1, <1>2, SchedAssumption DEF STypes, Shape, Pool
<1>11. Wired'
  BY SMTT(30), <1>1, <1>2, SchedAssumption DEF STypes, Shape, Wired
<1> QED BY Zenon, <1>3, <1>4, <1>5, <1>6, <1>7, <1>8, <1>9, <1>10, <1>11 DEF Shape

\* The goroutine of m enters a system call, or goes back to C.
LEMMA ShapeEntersSystem ==
    ASSUME STypes, Shape, NEW m \in M,
           place[m] = "user",
           NEW l \in System,
           place' = [place EXCEPT ![m] = l],
           gstatus' = [gstatus EXCEPT ![curg[m]] = "Gsyscall"],
           gm' = gm, lockedm' = lockedm, readyonstop' = readyonstop, sleeping' = sleeping,
           gq' = gq, gfree' = gfree, mhead' = mhead, curg' = curg,
           nextg' = nextg, waitnextg' = waitnextg
    PROVE  Shape'
<1>1. place \in [M -> Labels \ {"matchmg"}]
  BY PlaceType
<1>2. /\ curg[m] \in G /\ gm[curg[m]] = m /\ \A n \in M : curg[n] = curg[m] => n = m
      /\ curg[m] \notin Elems(gq) /\ curg[m] \notin Elems(gfree)
      /\ \A n \in M : nextg[n] # curg[m]
      /\ gstatus[curg[m]] = "Grunning" /\ ~readyonstop[curg[m]] /\ curg[m] \notin sleeping
  BY Zenon, InHand DEF CpuLabels, System, Busy
<1>3. Hands'
  BY Zenon, <1>1, <1>2, SchedAssumption DEF STypes, Shape, Hands, Busy, System, CpuLabels
<1>4. Apart'
  BY Zenon, <1>1, <1>2, SchedAssumption DEF STypes, Shape, Apart
<1>5. Runnable'
  BY <1>1, <1>2, SchedAssumption DEF STypes, Shape, Runnable, System
<1>6. Running'
  BY <1>1, <1>2, SchedAssumption DEF STypes, Shape, Running, System
<1>7. Status'
  BY <1>1, <1>2, SchedAssumption DEF STypes, Shape, Status, Busy, System
<1>8. Sleepers'
  BY <1>1, <1>2, SchedAssumption DEF STypes, Shape, Sleepers, System
<1>9. FreeList'
  BY <1>1, <1>2, SchedAssumption DEF STypes, Shape, FreeList
<1>10. Pool'
  BY <1>1, <1>2, SchedAssumption DEF STypes, Shape, Pool, System
<1>11. Wired'
  BY SMTT(30), <1>1, <1>2, SchedAssumption DEF STypes, Shape, Wired, System
<1> QED BY <1>3, <1>4, <1>5, <1>6, <1>7, <1>8, <1>9, <1>10, <1>11 DEF Shape

\* The goroutine of m returns from a system call, or is called from C.
LEMMA ShapeLeavesSystem ==
    ASSUME STypes, Shape, NEW m \in M,
           place[m] = "syscall",
           place' = [place EXCEPT ![m] = "user"],
           gstatus' = [gstatus EXCEPT ![curg[m]] = "Grunning"],
           gm' = gm, lockedm' = lockedm, readyonstop' = readyonstop, sleeping' = sleeping,
           gq' = gq, gfree' = gfree, mhead' = mhead, curg' = curg,
           nextg' = nextg, waitnextg' = waitnextg
    PROVE  Shape'
<1>1. place \in [M -> Labels \ {"matchmg"}]
  BY Zenon, PlaceType
<1>2. /\ curg[m] \in G /\ gm[curg[m]] = m /\ \A n \in M : curg[n] = curg[m] => n = m
      /\ curg[m] \notin Elems(gq) /\ curg[m] \notin Elems(gfree)
      /\ \A n \in M : nextg[n] # curg[m]
      /\ gstatus[curg[m]] = "Gsyscall" /\ ~readyonstop[curg[m]] /\ curg[m] \notin sleeping
  BY Zenon, InHand DEF CpuLabels, System, Busy
<1>3. Hands'
  BY Zenon, <1>1, <1>2, SchedAssumption DEF STypes, Shape, Hands, Busy, System, CpuLabels
<1>4. Apart'
  BY Zenon, <1>1, <1>2, SchedAssumption DEF STypes, Shape, Apart
<1>5. Runnable'
  BY <1>1, <1>2, SchedAssumption DEF STypes, Shape, Runnable
<1>6. Running'
  BY <1>1, <1>2, SchedAssumption DEF STypes, Shape, Running
<1>7. Status'
  BY <1>1, <1>2, SchedAssumption DEF STypes, Shape, Status, Busy, System
<1>8. Sleepers'
  BY <1>1, <1>2, SchedAssumption DEF STypes, Shape, Sleepers
<1>9. FreeList'
  BY <1>1, <1>2, SchedAssumption DEF STypes, Shape, FreeList
<1>10. Pool'
  BY <1>1, <1>2, SchedAssumption DEF STypes, Shape, Pool
<1>11. Wired'
  BY SMTT(30), <1>1, <1>2, SchedAssumption DEF STypes, Shape, Wired
<1> QED BY Zenon, <1>3, <1>4, <1>5, <1>6, <1>7, <1>8, <1>9, <1>10, <1>11 DEF Shape

\* The goroutine of m returns from a system call and there is no room for it.
LEMMA ShapeSlowExit ==
    ASSUME STypes, Shape, NEW m \in M,
           place[m] = "syscall",
           place' = [place EXCEPT ![m] = "scheduler"],
           readyonstop' = [readyonstop EXCEPT ![curg[m]] = TRUE],
           gstatus' = gstatus, gm' = gm, lockedm' = lockedm, sleeping' = sleeping,
           gq' = gq, gfree' = gfree, mhead' = mhead, curg' = curg,
           nextg' = nextg, waitnextg' = waitnextg
    PROVE  Shape'
<1>1. place \in [M -> Labels \ {"matchmg"}]
  BY Zenon, PlaceType
<1>2. /\ curg[m] \in G /\ gm[curg[m]] = m /\ \A n \in M : curg[n] = curg[m] => n = m
      /\ curg[m] \notin Elems(gq) /\ curg[m] \notin Elems(gfree)
      /\ \A n \in M : nextg[n] # curg[m]
      /\ gstatus[curg[m]] = "Gsyscall" /\ ~readyonstop[curg[m]] /\ curg[m] \notin sleeping
  BY Zenon, InHand DEF CpuLabels, System, Busy
<1>3. Hands'
  BY Zenon, <1>1, <1>2, SchedAssumption DEF STypes, Shape, Hands, Busy, System, CpuLabels
<1>4. Apart'
  BY Zenon, <1>1, <1>2, SchedAssumption DEF STypes, Shape, Apart
<1>5. Runnable'
  BY ZenonT(60), <1>1, <1>2, SchedAssumption DEF STypes, Shape, Runnable
<1>6. Running'
  BY <1>1, <1>2, SchedAssumption DEF STypes, Shape, Running
<1>7. Status'
  BY Zenon, <1>1, <1>2, SchedAssumption DEF STypes, Shape, Status, Busy, System
<1>8. Sleepers'
  BY <1>1, <1>2, SchedAssumption DEF STypes, Shape, Sleepers
<1>9. FreeList'
  BY Zenon, <1>1, <1>2, SchedAssumption DEF STypes, Shape, FreeList
<1>10. Pool'
  BY <1>1, <1>2, SchedAssumption DEF STypes, Shape, Pool
<1>11. Wired'
  BY <1>1, <1>2, SchedAssumption DEF STypes, Shape, Wired
<1> QED BY Zenon, <1>3, <1>4, <1>5, <1>6, <1>7, <1>8, <1>9, <1>10, <1>11 DEF Shape

\* A goroutine is readied before it has stopped.
LEMMA ShapeReadyOnStop ==
    ASSUME STypes, Shape, NEW m \in M,
           place' = place,
           NEW g \in sleeping,
           gm[g] # NoM,
           sleeping' = sleeping \ {g},
           readyonstop' = [readyonstop EXCEPT ![g] = TRUE],
           gstatus' = gstatus, gm' = gm, lockedm' = lockedm, gq' = gq,
           gfree' = gfree, mhead' = mhead, curg' = curg, nextg' = nextg,
           waitnextg' = waitnextg
    PROVE  Shape'
<1>1. place \in [M -> Labels \ {"matchmg"}]
  BY PlaceType
<1>2. g \in G /\ gm[g] \in M /\ gstatus[g] = "Gwaiting" /\ curg[gm[g]] = g /\ place[gm[g]] # "run"
  BY SMTT(30) DEF STypes, Shape, Running, Sleepers
<1>3. place[gm[g]] = "scheduler"
  <2>1. curg[gm[g]] # NoG
    BY <1>2, SchedAssumption
  <2>2. place[gm[g]] \in CpuLabels \cup System
    BY Zenon, <1>2, <2>1 DEF Shape, Hands
  <2>3. place[gm[g]] \notin Busy /\ place[gm[g]] \notin System
    BY Zenon, <1>2 DEF Shape, Status
  <2> QED BY <1>2, <2>2, <2>3 DEF Busy, System, CpuLabels
<1>4. Hands'
  BY Zenon, <1>1, <1>2, <1>3, SchedAssumption DEF STypes, Shape, Hands, Busy, System, CpuLabels
<1>5. Apart'
  BY Zenon, <1>1, <1>2, <1>3, SchedAssumption DEF STypes, Shape, Apart
<1>6. Runnable'
  BY <1>1, <1>2, <1>3, SchedAssumption DEF STypes, Shape, Runnable
<1>7. Running'
  BY Zenon, <1>1, <1>2, <1>3, SchedAssumption DEF STypes, Shape, Running
<1>8. Status'
  BY Zenon, <1>1, <1>2, <1>3, SchedAssumption DEF STypes, Shape, Status, Busy, System
<1>9. Sleepers'
  BY <1>1, <1>2, <1>3, SchedAssumption DEF STypes, Shape, Sleepers
<1>10. FreeList'
  BY Zenon, <1>1, <1>2, <1>3, SchedAssumption DEF STypes, Shape, FreeList
<1>11. Pool'
  BY Zenon, <1>1, <1>2, <1>3, SchedAssumption DEF STypes, Shape, Pool
<1>12. Wired'
  BY ZenonT(60), <1>1, <1>2, <1>3, SchedAssumption DEF STypes, Shape, Wired
<1> QED BY <1>4, <1>5, <1>6, <1>7, <1>8, <1>9, <1>10, <1>11, <1>12 DEF Shape

\* LockOSThread, between a goroutine and the M that runs it.
LEMMA ShapeWires ==
    ASSUME STypes, Shape, NEW m \in M,
           place' = place,
           place[m] = "user",
           lockedm[curg[m]] = NoM,
           lockedm' = [lockedm EXCEPT ![curg[m]] = m],
           gstatus' = gstatus, gm' = gm, readyonstop' = readyonstop, sleeping' = sleeping,
           gq' = gq, gfree' = gfree, mhead' = mhead, curg' = curg,
           nextg' = nextg, waitnextg' = waitnextg
    PROVE  Shape'
<1>1. place \in [M -> Labels \ {"matchmg"}]
  BY Zenon, PlaceType
<1>2. /\ curg[m] \in G /\ gm[curg[m]] = m /\ \A n \in M : curg[n] = curg[m] => n = m
      /\ curg[m] \notin Elems(gq) /\ curg[m] \notin Elems(gfree)
      /\ \A n \in M : nextg[n] # curg[m]
      /\ gstatus[curg[m]] = "Grunning" /\ ~readyonstop[curg[m]] /\ curg[m] \notin sleeping
  BY Zenon, InHand DEF CpuLabels, System, Busy
<1>3. Hands'
  BY Zenon, <1>1, <1>2, SchedAssumption DEF STypes, Shape, Hands, Busy, System, CpuLabels
<1>4. Apart'
  BY Zenon, <1>1, <1>2, SchedAssumption DEF STypes, Shape, Apart
<1>5. Runnable'
  BY <1>1, <1>2, SchedAssumption DEF STypes, Shape, Runnable
<1>6. Running'
  BY Zenon, <1>1, <1>2, SchedAssumption DEF STypes, Shape, Running
<1>7. Status'
  BY Zenon, <1>1, <1>2, SchedAssumption DEF STypes, Shape, Status, Busy, System
<1>8. Sleepers'
  BY Zenon, <1>1, <1>2, SchedAssumption DEF STypes, Shape, Sleepers
<1>9. FreeList'
  BY Zenon, <1>1, <1>2, SchedAssumption DEF STypes, Shape, FreeList
<1>10. Pool'
  BY Zenon, <1>1, <1>2, SchedAssumption DEF STypes, Shape, Pool
<1>11. Wired'
  BY <1>1, <1>2, SchedAssumption DEF STypes, Shape, Wired, Pool, Apart, Hands
<1> QED BY Zenon, <1>3, <1>4, <1>5, <1>6, <1>7, <1>8, <1>9, <1>10, <1>11 DEF Shape

\* UnlockOSThread.
LEMMA ShapeUnwires ==
    ASSUME STypes, Shape, NEW m \in M,
           place' = place,
           NEW g \in G,
           lockedm' = [lockedm EXCEPT ![g] = NoM],
           gstatus' = gstatus, gm' = gm, readyonstop' = readyonstop, sleeping' = sleeping,
           gq' = gq, gfree' = gfree, mhead' = mhead, curg' = curg,
           nextg' = nextg, waitnextg' = waitnextg
    PROVE  Shape'
<1>1. place \in [M -> Labels \ {"matchmg"}]
  BY Zenon, PlaceType
<1>2. Hands'
  BY Zenon, <1>1, SchedAssumption DEF STypes, Shape, Hands, Busy, System, CpuLabels
<1>3. Apart'
  BY Zenon, <1>1, SchedAssumption DEF STypes, Shape, Apart
<1>4. Runnable'
  BY Zenon, <1>1, SchedAssumption DEF STypes, Shape, Runnable
<1>5. Running'
  BY Zenon, <1>1, SchedAssumption DEF STypes, Shape, Running
<1>6. Status'
  BY Zenon, <1>1, SchedAssumption DEF STypes, Shape, Status, Busy, System
<1>7. Sleepers'
  BY <1>1, SchedAssumption DEF STypes, Shape, Sleepers
<1>8. FreeList'
  BY Zenon, <1>1, SchedAssumption DEF STypes, Shape, FreeList
<1>9. Pool'
  BY Zenon, <1>1, SchedAssumption DEF STypes, Shape, Pool
<1>10. Wired'
  BY <1>1, SchedAssumption DEF STypes, Shape, Wired
<1> QED BY <1>2, <1>3, <1>4, <1>5, <1>6, <1>7, <1>8, <1>9, <1>10 DEF Shape

\* matchmg hands a goroutine of the queue to an M of the pool, or to a new one.
LEMMA ShapeHandoff ==
    ASSUME STypes, Shape, NEW m \in M,
           NEW h \in Elems(gq),
           NoDup(gq'),
           Elems(gq') = Elems(gq) \ {h},
           NoDup(mhead'),
           Elems(mhead') = Elems(mhead) \ {m},
           NEW l,
           place' = [place EXCEPT ![m] = l],
           \/ place[m] = "sleep" /\ l = "sleep" /\ m \in Elems(mhead)
           \/ place[m] = "new" /\ l = "mstart",
           nextg' = [nextg EXCEPT ![m] = h],
           waitnextg' = [waitnextg EXCEPT ![m] = FALSE],
           gstatus' = gstatus, gm' = gm, lockedm' = lockedm, readyonstop' = readyonstop,
           sleeping' = sleeping, gfree' = gfree, curg' = curg
    PROVE  Shape'
<1>1. place \in [M -> Labels \ {"matchmg"}]
  BY Zenon, PlaceType
<1>2. h \in G /\ gstatus[h] = "Grunnable"
  BY DEF STypes, Elems, Shape, Runnable
<1>3. nextg[m] = NoG /\ curg[m] = NoG
  BY ZenonT(60) DEF Shape, Hands, Pool, System, CpuLabels
<1>4. (\A g \in G : lockedm[g] # m) /\ lockedm[h] = NoM
  BY SMTT(30), <1>2, SchedAssumption DEF Shape, Wired
<1>5. Elems(mhead) \subseteq M
  BY DEF STypes, Elems
<1>6. Hands'
  BY <1>1, <1>2, <1>3, <1>4, <1>5, SchedAssumption DEF STypes, Shape, Hands, Busy, System, CpuLabels
<1>7. Apart'
  BY <1>1, <1>2, <1>3, <1>4, <1>5, SchedAssumption DEF STypes, Shape, Apart
<1>8. Runnable'
  BY <1>1, <1>2, <1>3, <1>4, <1>5, SchedAssumption DEF STypes, Shape, Runnable
<1>9. Running'
  BY ZenonT(60), <1>1, <1>2, <1>3, <1>4, <1>5, SchedAssumption DEF STypes, Shape, Running
<1>10. Status'
  BY Zenon, <1>1, <1>2, <1>3, <1>4, <1>5, SchedAssumption DEF STypes, Shape, Status, Busy, System
<1>11. Sleepers'
  BY <1>1, <1>2, <1>3, <1>4, <1>5, SchedAssumption DEF STypes, Shape, Sleepers
<1>12. FreeList'
  BY Zenon, <1>1, <1>2, <1>3, <1>4, <1>5, SchedAssumption DEF STypes, Shape, FreeList
<1>13. Pool'
  BY Zenon, <1>1, <1>2, <1>3, <1>4, <1>5, SchedAssumption DEF STypes, Shape, Pool
<1>14. Wired'
  BY SMTT(30), <1>1, <1>2, <1>3, <1>4, <1>5, SchedAssumption DEF STypes, Shape, Wired
<1> QED BY Zenon, <1>6, <1>7, <1>8, <1>9, <1>10, <1>11, <1>12, <1>13, <1>14 DEF Shape

\* gput of a goroutine that was not runnable and that no M has.
LEMMA ShapePuts ==
    ASSUME STypes, Shape, NEW m \in M,
           place' = place,
           NEW g \in G,
           gstatus[g] \in {"Gidle", "Gdead", "Gwaiting"},
           gm[g] = NoM,
           gstatus' = [gstatus EXCEPT ![g] = "Grunnable"],
           sleeping' = sleeping \ {g},
           NoDup(gfree'),
           Elems(gfree') = Elems(gfree) \ {g},
           lockedm[g] # NoM => place[lockedm[g]] \notin {"nextg", "nextgwait"},
           \/ /\ lockedm[g] = NoM /\ NoDup(gq') /\ Elems(gq') = Elems(gq) \cup {g}
              /\ nextg' = nextg /\ waitnextg' = waitnextg
           \/ /\ lockedm[g] # NoM /\ gq' = gq
              /\ nextg' = [nextg EXCEPT ![lockedm[g]] = g]
              /\ waitnextg' = [waitnextg EXCEPT ![lockedm[g]] = FALSE],
           gm' = gm, lockedm' = lockedm, readyonstop' = readyonstop, mhead' = mhead,
           curg' = curg
    PROVE  Shape'
<1>1. place \in [M -> Labels \ {"matchmg"}]
  BY Zenon, PlaceType
<1>2. /\ g \notin Elems(gq) /\ ~readyonstop[g]
      /\ \A n \in M : nextg[n] # g /\ curg[n] # g
  BY <1>1, SchedAssumption DEF STypes, Shape, Runnable, Running, Sleepers
<1>3. lockedm[g] # NoM => /\ lockedm[g] \in M /\ curg[lockedm[g]] = NoG
                          /\ nextg[lockedm[g]] = NoG /\ lockedm[g] \notin Elems(mhead)
  BY SMTT(30), <1>1, <1>2 DEF STypes, Shape, Wired
<1>4. lockedm[g] # NoM => place[lockedm[g]] = "sleep"
  BY Zenon, <1>1, <1>3 DEF Shape, Hands, Wired, System, CpuLabels, Labels, Locked
<1>5. Elems(gfree) \subseteq G /\ Elems(mhead) \subseteq M
  BY DEF STypes, Elems
<1>6. Hands'
  BY SMTT(30), <1>1, <1>2, <1>3, <1>4, <1>5, SchedAssumption DEF STypes, Shape, Hands, Busy, System, CpuLabels
<1>7. Apart'
  <2>1. CASE lockedm[g] = NoM
    BY Zenon, <2>1, <1>1, <1>2, <1>3, <1>4, <1>5, SchedAssumption DEF STypes, Shape, Apart
  <2>2. CASE lockedm[g] # NoM
    BY SMTT(30), <2>2, <1>1, <1>2, <1>3, <1>4, <1>5, SchedAssumption DEF STypes, Shape, Apart
  <2> QED BY Zenon, <2>1, <2>2
<1>8. Runnable'
  <2>1. CASE lockedm[g] = NoM
    BY SMTT(30), <2>1, <1>1, <1>2, <1>3, <1>4, <1>5, SchedAssumption DEF STypes, Shape, Runnable
  <2>2. CASE lockedm[g] # NoM
    BY SMTT(30), <2>2, <1>1, <1>2, <1>3, <1>4, <1>5, SchedAssumption DEF STypes, Shape, Runnable
  <2> QED BY ZenonT(30), <2>1, <2>2
<1>9. Running'
  BY <1>1, <1>2, <1>3, <1>4, <1>5, SchedAssumption DEF STypes, Shape, Running
<1>10. Status'
  BY SMTT(30), <1>1, <1>2, <1>3, <1>4, <1>5, SchedAssumption DEF STypes, Shape, Status, Busy, System
<1>11. Sleepers'
  BY <1>1, <1>2, <1>3, <1>4, <1>5, SchedAssumption DEF STypes, Shape, Sleepers
<1>12. FreeList'
  BY Zenon, <1>1, <1>2, <1>3, <1>4, <1>5, SchedAssumption DEF STypes, Shape, FreeList
<1>13. Pool'
  <2>1. CASE lockedm[g] = NoM
    BY Zenon, <2>1, <1>1, <1>2, <1>3, <1>4, <1>5, SchedAssumption DEF STypes, Shape, Pool
  <2>2. CASE lockedm[g] # NoM
    BY Zenon, <2>2, <1>1, <1>2, <1>3, <1>4, <1>5, SchedAssumption DEF STypes, Shape, Pool
  <2> QED BY ZenonT(30), <2>1, <2>2
<1>14. Wired'
  <2>1. CASE lockedm[g] = NoM
    BY SMTT(30), <2>1, <1>1, <1>2, <1>3, <1>4, <1>5, SchedAssumption DEF STypes, Shape, Wired
  <2>2. CASE lockedm[g] # NoM
    BY <2>2, <1>1, <1>2, <1>3, <1>4, <1>5, SchedAssumption DEF STypes, Shape, Wired
  <2> QED BY ZenonT(30), <2>1, <2>2
<1> QED BY ZenonT(30), <1>6, <1>7, <1>8, <1>9, <1>10, <1>11, <1>12, <1>13, <1>14 DEF Shape

\* What an M in scheduler has in hand.
LEMMA AtScheduler ==
    ASSUME STypes, Shape, NEW m \in M, place[m] = "scheduler", NEW g \in G, g = curg[m]
    PROVE  /\ gm[g] = m /\ (\A n \in M : curg[n] = g => n = m)
           /\ g \notin Elems(gq) /\ g \notin Elems(gfree) /\ \A n \in M : nextg[n] # g
           /\ gstatus[g] \in {"Grunning", "Gsyscall", "Gwaiting", "Gmoribund"}
           /\ nextg[m] = NoG /\ (lockedm[g] # NoM => lockedm[g] = m)
<1>1. place[m] \in CpuLabels \cup System /\ place[m] # "run"
  BY DEF CpuLabels
<1>2. /\ gm[g] = m /\ (\A n \in M : curg[n] = g => n = m)
      /\ g \notin Elems(gq) /\ g \notin Elems(gfree) /\ \A n \in M : nextg[n] # g
      /\ gstatus[g] \in {"Grunning", "Gsyscall", "Gwaiting", "Gmoribund"}
  BY Zenon, <1>1, InHand
<1>3. nextg[m] = NoG
  BY DEF Shape, Hands
<1>4. lockedm[g] # NoM => lockedm[g] = m
  BY Zenon DEF Shape, Wired
<1> QED BY Zenon, <1>2, <1>3, <1>4

\* m puts away a goroutine that can run on, or was readied before it stopped.
LEMMA ShapeStopsReady ==
    ASSUME STypes, Shape, NEW m \in M,
           place[m] = "scheduler",
           NEW g \in G,
           g = curg[m],
           place' = [place EXCEPT ![m] = "nextg"],
           curg' = [curg EXCEPT ![m] = NoG],
           gm' = [gm EXCEPT ![g] = NoM],
           readyonstop' = [readyonstop EXCEPT ![g] = FALSE],
           g \notin sleeping,
           gstatus' = [gstatus EXCEPT ![g] = "Grunnable"],
           \/ /\ lockedm[g] = NoM /\ NoDup(gq') /\ Elems(gq') = Elems(gq) \cup {g}
              /\ nextg' = nextg /\ waitnextg' = waitnextg
           \/ /\ lockedm[g] # NoM /\ gq' = gq
              /\ nextg' = [nextg EXCEPT ![lockedm[g]] = g]
              /\ waitnextg' = [waitnextg EXCEPT ![lockedm[g]] = FALSE],
           lockedm' = lockedm, sleeping' = sleeping, gfree' = gfree, mhead' = mhead
    PROVE  Shape'
<1>1. place \in [M -> Labels \ {"matchmg"}]
  BY ZenonT(60), PlaceType
<1>2. /\ gm[g] = m /\ (\A n \in M : curg[n] = g => n = m)
      /\ g \notin Elems(gq) /\ g \notin Elems(gfree) /\ \A n \in M : nextg[n] # g
      /\ gstatus[g] \in {"Grunning", "Gsyscall", "Gwaiting", "Gmoribund"}
      /\ nextg[m] = NoG /\ (lockedm[g] # NoM => lockedm[g] = m)
  BY AtScheduler
<1>3. \A x \in G : gm[x] = m => x = g
  BY Zenon, SchedAssumption DEF Shape, Running
<1>4. \A n \in M : n # m /\ place[n] = "scheduler" => curg[n] \in G /\ curg[n] # g
  BY Zenon, <1>2, SchedAssumption DEF STypes, Shape, Hands, CpuLabels
<1>5. Elems(gfree) \subseteq G /\ Elems(mhead) \subseteq M
  BY DEF STypes, Elems
<1>6. Hands'
  BY <1>1, <1>2, <1>3, <1>4, <1>5, SchedAssumption DEF STypes, Shape, Hands, Busy, System, CpuLabels
<1>7. Apart'
  <2>1. CASE lockedm[g] = NoM
    BY SMTT(30), <2>1, <1>1, <1>2, <1>3, <1>4, <1>5, SchedAssumption DEF STypes, Shape, Apart
  <2>2. CASE lockedm[g] # NoM
    BY SMTT(30), <2>2, <1>1, <1>2, <1>3, <1>4, <1>5, SchedAssumption DEF STypes, Shape, Apart
  <2> QED BY Zenon, <2>1, <2>2
<1>8. Runnable'
  <2>1. CASE lockedm[g] = NoM
    BY SMTT(30), <2>1, <1>1, <1>2, <1>3, <1>4, <1>5, SchedAssumption DEF STypes, Shape, Runnable
  <2>2. CASE lockedm[g] # NoM
    BY SMTT(30), <2>2, <1>1, <1>2, <1>3, <1>4, <1>5, SchedAssumption DEF STypes, Shape, Runnable
  <2> QED BY Zenon, <2>1, <2>2
<1>9. Running'
  BY SMTT(30), <1>1, <1>2, <1>3, <1>4, <1>5, SchedAssumption DEF STypes, Shape, Running
<1>10. Status'
  BY SMTT(30), <1>1, <1>2, <1>3, <1>4, <1>5, SchedAssumption DEF STypes, Shape, Status, Busy, System
<1>11. Sleepers'
  BY <1>1, <1>2, <1>3, <1>4, <1>5, SchedAssumption DEF STypes, Shape, Sleepers
<1>12. FreeList'
  BY Zenon, <1>1, <1>2, <1>3, <1>4, <1>5, SchedAssumption DEF STypes, Shape, FreeList
<1>13. Pool'
  <2>1. CASE lockedm[g] = NoM
    BY Zenon, <2>1, <1>1, <1>2, <1>3, <1>4, <1>5, SchedAssumption DEF STypes, Shape, Pool
  <2>2. CASE lockedm[g] # NoM
    BY Zenon, <2>2, <1>1, <1>2, <1>3, <1>4, <1>5, SchedAssumption DEF STypes, Shape, Pool
  <2> QED BY <2>1, <2>2
<1>14. Wired'
  <2>1. CASE lockedm[g] = NoM
    BY SMTT(30), <2>1, <1>1, <1>2, <1>3, <1>4, <1>5, SchedAssumption DEF STypes, Shape, Wired
  <2>2. CASE lockedm[g] # NoM
    BY <2>2, <1>1, <1>2, <1>3, <1>4, <1>5, SchedAssumption DEF STypes, Shape, Wired
  <2> QED BY <2>1, <2>2
<1> QED BY Zenon, <1>6, <1>7, <1>8, <1>9, <1>10, <1>11, <1>12, <1>13, <1>14 DEF Shape

\* m puts away a goroutine that waits.
LEMMA ShapeStopsWaiting ==
    ASSUME STypes, Shape, NEW m \in M,
           place[m] = "scheduler",
           NEW g \in G,
           g = curg[m],
           place' = [place EXCEPT ![m] = "nextg"],
           curg' = [curg EXCEPT ![m] = NoG],
           gm' = [gm EXCEPT ![g] = NoM],
           readyonstop' = [readyonstop EXCEPT ![g] = FALSE],
           gstatus[g] = "Gwaiting",
           ~readyonstop[g],
           gstatus' = gstatus, lockedm' = lockedm, sleeping' = sleeping, gq' = gq,
           gfree' = gfree, mhead' = mhead, nextg' = nextg, waitnextg' = waitnextg
    PROVE  Shape'
<1>1. place \in [M -> Labels \ {"matchmg"}]
  BY ZenonT(60), PlaceType
<1>2. /\ gm[g] = m /\ (\A n \in M : curg[n] = g => n = m)
      /\ g \notin Elems(gq) /\ g \notin Elems(gfree) /\ \A n \in M : nextg[n] # g
      /\ gstatus[g] \in {"Grunning", "Gsyscall", "Gwaiting", "Gmoribund"}
      /\ nextg[m] = NoG /\ (lockedm[g] # NoM => lockedm[g] = m)
  BY AtScheduler
<1>3. \A x \in G : gm[x] = m => x = g
  BY Zenon, SchedAssumption DEF Shape, Running
<1>4. \A n \in M : n # m /\ place[n] = "scheduler" => curg[n] \in G /\ curg[n] # g
  BY <1>2, SchedAssumption DEF STypes, Shape, Hands, CpuLabels
<1>5. Elems(gfree) \subseteq G /\ Elems(mhead) \subseteq M
  BY DEF STypes, Elems
<1>6. Hands'
  BY Zenon, <1>1, <1>2, <1>3, <1>4, <1>5, SchedAssumption DEF STypes, Shape, Hands, Busy, System, CpuLabels
<1>7. Apart'
  BY ZenonT(60), <1>1, <1>2, <1>3, <1>4, <1>5, SchedAssumption DEF STypes, Shape, Apart
<1>8. Runnable'
  BY SMTT(30), <1>1, <1>2, <1>3, <1>4, <1>5, SchedAssumption DEF STypes, Shape, Runnable
<1>9. Running'
  BY SMTT(30), <1>1, <1>2, <1>3, <1>4, <1>5, SchedAssumption DEF STypes, Shape, Running
<1>10. Status'
  BY Zenon, <1>1, <1>2, <1>3, <1>4, <1>5, SchedAssumption DEF STypes, Shape, Status, Busy, System
<1>11. Sleepers'
  BY <1>1, <1>2, <1>3, <1>4, <1>5, SchedAssumption DEF STypes, Shape, Sleepers
<1>12. FreeList'
  BY Zenon, <1>1, <1>2, <1>3, <1>4, <1>5, SchedAssumption DEF STypes, Shape, FreeList
<1>13. Pool'
  BY Zenon, <1>1, <1>2, <1>3, <1>4, <1>5, SchedAssumption DEF STypes, Shape, Pool
<1>14. Wired'
  BY <1>1, <1>2, <1>3, <1>4, <1>5, SchedAssumption DEF STypes, Shape, Wired
<1> QED BY Zenon, <1>6, <1>7, <1>8, <1>9, <1>10, <1>11, <1>12, <1>13, <1>14 DEF Shape

\* m puts away a goroutine that has ended.
LEMMA ShapeStopsDead ==
    ASSUME STypes, Shape, NEW m \in M,
           place[m] = "scheduler",
           NEW g \in G,
           g = curg[m],
           place' = [place EXCEPT ![m] = "nextg"],
           curg' = [curg EXCEPT ![m] = NoG],
           gm' = [gm EXCEPT ![g] = NoM],
           readyonstop' = [readyonstop EXCEPT ![g] = FALSE],
           gstatus[g] = "Gmoribund",
           gstatus' = [gstatus EXCEPT ![g] = "Gdead"],
           lockedm' = [lockedm EXCEPT ![g] = NoM],
           NoDup(gfree'),
           Elems(gfree') = Elems(gfree) \cup {g},
           sleeping' = sleeping, gq' = gq, mhead' = mhead, nextg' = nextg,
           waitnextg' = waitnextg
    PROVE  Shape'
<1>1. place \in [M -> Labels \ {"matchmg"}]
  BY Zenon, PlaceType
<1>2. /\ gm[g] = m /\ (\A n \in M : curg[n] = g => n = m)
      /\ g \notin Elems(gq) /\ g \notin Elems(gfree) /\ \A n \in M : nextg[n] # g
      /\ gstatus[g] \in {"Grunning", "Gsyscall", "Gwaiting", "Gmoribund"}
      /\ nextg[m] = NoG /\ (lockedm[g] # NoM => lockedm[g] = m)
  BY AtScheduler
<1>3. \A x \in G : gm[x] = m => x = g
  BY Zenon, SchedAssumption DEF Shape, Running
<1>4. \A n \in M : n # m /\ place[n] = "scheduler" => curg[n] \in G /\ curg[n] # g
  BY Zenon, <1>2, SchedAssumption DEF STypes, Shape, Hands, CpuLabels
<1>5. Elems(gfree) \subseteq G /\ Elems(mhead) \subseteq M
  BY SMTT(30) DEF STypes, Elems
<1>6. Hands'
  BY SMTT(30), <1>1, <1>2, <1>3, <1>4, <1>5, SchedAssumption DEF STypes, Shape, Hands, Busy, System, CpuLabels
<1>7. Apart'
  BY SMTT(30), <1>1, <1>2, <1>3, <1>4, <1>5, SchedAssumption DEF STypes, Shape, Apart
<1>8. Runnable'
  BY SMTT(30), <1>1, <1>2, <1>3, <1>4, <1>5, SchedAssumption DEF STypes, Shape, Runnable
<1>9. Running'
  BY SMTT(30), <1>1, <1>2, <1>3, <1>4, <1>5, SchedAssumption DEF STypes, Shape, Running
<1>10. Status'
  BY SMTT(30), <1>1, <1>2, <1>3, <1>4, <1>5, SchedAssumption DEF STypes, Shape, Status, Busy, System
<1>11. Sleepers'
  BY SMTT(30), <1>1, <1>2, <1>3, <1>4, <1>5, SchedAssumption DEF STypes, Shape, Sleepers
<1>12. FreeList'
  BY ZenonT(60), <1>1, <1>2, <1>3, <1>4, <1>5, SchedAssumption DEF STypes, Shape, FreeList
<1>13. Pool'
  BY Zenon, <1>1, <1>2, <1>3, <1>4, <1>5, SchedAssumption DEF STypes, Shape, Pool
<1>14. Wired'
  BY <1>1, <1>2, <1>3, <1>4, <1>5, SchedAssumption DEF STypes, Shape, Wired
<1> QED BY Zenon, <1>6, <1>7, <1>8, <1>9, <1>10, <1>11, <1>12, <1>13, <1>14 DEF Shape
=============================================================================
