----------------------------- MODULE Semaphore -----------------------------
(***************************************************************************)
(* The semaphores of the runtime (sema.goc): goroutines sleep until they   *)
(* can take a unit from the count at an address.                           *)
(*                                                                         *)
(* A goroutine makes itself available for wakeup (semsleep1), tries the    *)
(* count once more, and then parks (semsleep2).  A wakeup that arrives     *)
(* before it has parked finds it still on its M, so ready only sets        *)
(* g->readyonstop and the scheduler readies it when it stops.  Sections    *)
(* under semlock are one step, and so are the compare-and-swap loops on    *)
(* the count.                                                              *)
(***************************************************************************)
EXTENDS Naturals, Sequences, FiniteSets

CONSTANTS G,            \* goroutines
          Addrs,        \* addresses used as semaphores
          InitialSem,   \* their first values
          MaxReleases   \* bound on the calls of semrelease

ASSUME SemAssumption == InitialSem \in Nat /\ MaxReleases \in Nat

VARIABLES sem,          \* *addr, for every address
          semq,         \* semfirst..semlast: the goroutines whose Sema is queued
          sg,           \* the goroutines whose Sema has s->g set
          addr,         \* the argument of the current call of each goroutine
          pc,           \* where each goroutine is
          status,       \* "running" on an M, "waiting" parked, or "runnable"
          readyonstop,  \* g->readyonstop
          released,     \* history: calls of semrelease so far, per address
          acquired      \* history: returns of cansemacquire with 1, per address

vars == <<sem, semq, sg, addr, pc, status, readyonstop, released, acquired>>

Labels == {"idle", "semqueue", "semsleep1", "cansemacquire", "semsleepundo1",
           "semsleep2", "semdequeue", "semwakeup", "fault"}

Init ==
    /\ sem = [a \in Addrs |-> InitialSem]
    /\ semq = <<>> /\ sg = {}
    /\ addr \in [G -> Addrs]
    /\ pc = [g \in G |-> "idle"]
    /\ status = [g \in G |-> "running"]
    /\ readyonstop = [g \in G |-> FALSE]
    /\ released = [a \in Addrs |-> 0]
    /\ acquired = [a \in Addrs |-> 0]

Goto(g, label) == pc' = [pc EXCEPT ![g] = label]

\* Goroutine g executes the code at a label.
At(g, label) == pc[g] = label /\ status[g] = "running"

(***************************************************************************)
(* Faulty variants                                                         *)
(***************************************************************************)
\* semsleepundo1 that takes a wakeup that came too early for no wakeup.
SemsleepundoKeepsReady(g) ==
    /\ At(g, "semsleepundo1")
    /\ sg' = sg \ {g}
    /\ Goto(g, "semdequeue")
    /\ UNCHANGED <<sem, semq, addr, status, readyonstop, released, acquired>>

\* semsleep2 that parks a goroutine that is ready already.
SemsleepIgnoresReady(g) ==
    /\ At(g, "semsleep2")
    /\ status' = [status EXCEPT ![g] = "waiting"]
    /\ readyonstop' = [readyonstop EXCEPT ![g] = FALSE]
    /\ Goto(g, "semsleep1")
    /\ UNCHANGED <<sem, semq, sg, addr, released, acquired>>

\* semsleep2 entered without making ourselves available again.
SemsleepNotAvailable(g) ==
    /\ At(g, "semsleep2")
    /\ IF readyonstop[g]
       THEN status' = [status EXCEPT ![g] = "runnable"]
       ELSE status' = [status EXCEPT ![g] = "waiting"]
    /\ readyonstop' = [readyonstop EXCEPT ![g] = FALSE]
    /\ Goto(g, "cansemacquire")
    /\ UNCHANGED <<sem, semq, sg, addr, released, acquired>>

(***************************************************************************)
(* semwakeup                                                               *)
(***************************************************************************)
\* The places of the queue that semwakeup(a) may stop at.
Available(a) == {i \in 1..Len(semq) : addr[semq[i]] = a /\ semq[i] \in sg}

\* readylocked(h) of proc.c, as far as a sleeper sees it.
ready(h) ==
    IF status[h] = "running"
    THEN readyonstop' = [readyonstop EXCEPT ![h] = TRUE] /\ UNCHANGED status
    ELSE status' = [status EXCEPT ![h] = "runnable"] /\ UNCHANGED readyonstop

\* semwakeup(addr), the last step of semacquire and of semrelease: ready the
\* first goroutine in the queue that is available at that address.
semwakeup(g) ==
    /\ At(g, "semwakeup")
    /\ \/ \E i \in Available(addr[g]) :
             /\ \A j \in Available(addr[g]) : i <= j
             /\ ready(semq[i])
             /\ sg' = sg \ {semq[i]}
       \/ /\ Available(addr[g]) = {}
          /\ UNCHANGED <<sg, status, readyonstop>>
    /\ Goto(g, "idle")
    /\ UNCHANGED <<sem, semq, addr, released, acquired>>

(***************************************************************************)
(* semacquire                                                              *)
(***************************************************************************)
\* cansemacquire(a): to `yes' with a unit, or to `no'.
Try(g, a, yes, no) ==
    \/ /\ sem[a] > 0
       /\ sem' = [sem EXCEPT ![a] = @ - 1]
       /\ acquired' = [acquired EXCEPT ![a] = @ + 1]
       /\ Goto(g, yes)
    \/ /\ sem[a] = 0
       /\ UNCHANGED <<sem, acquired>>
       /\ Goto(g, no)

\* The call of semacquire(a), with its easy case.
semacquire(g, a) ==
    /\ At(g, "idle")
    /\ addr' = [addr EXCEPT ![g] = a]
    /\ Try(g, a, "idle", "semqueue")
    /\ UNCHANGED <<semq, sg, status, readyonstop, released>>

semqueue(g) ==
    /\ At(g, "semqueue")
    /\ semq' = Append(semq, g)
    /\ Goto(g, "semsleep1")
    /\ UNCHANGED <<sem, sg, addr, status, readyonstop, released, acquired>>

semsleep1(g) ==
    /\ At(g, "semsleep1")
    /\ sg' = sg \cup {g}
    /\ Goto(g, "cansemacquire")
    /\ UNCHANGED <<sem, semq, addr, status, readyonstop, released, acquired>>

cansemacquire(g) ==
    /\ At(g, "cansemacquire")
    /\ Try(g, addr[g], "semsleepundo1", "semsleep2")
    /\ UNCHANGED <<semq, sg, addr, status, readyonstop, released>>

\* Undo semsleep1: back out, or clear the readyonstop of an early wakeup; if
\* there was none the code stores to 0x555 to crash.
semsleepundo1(g) ==
    /\ At(g, "semsleepundo1")
    /\ \/ /\ g \in sg
          /\ sg' = sg \ {g}
          /\ UNCHANGED readyonstop
          /\ Goto(g, "semdequeue")
       \/ /\ g \notin sg
          /\ readyonstop' = [readyonstop EXCEPT ![g] = FALSE]
          /\ UNCHANGED sg
          /\ Goto(g, IF readyonstop[g] THEN "semdequeue" ELSE "fault")
    /\ UNCHANGED <<sem, semq, addr, status, released, acquired>>

\* Gwaiting, gosched: the scheduler takes g off its M, and readies it at once
\* if it was marked.  When g runs again it is at the top of the loop.
semsleep2(g) ==
    /\ At(g, "semsleep2")
    /\ status' = [status EXCEPT ![g] = IF readyonstop[g] THEN "runnable" ELSE "waiting"]
    /\ readyonstop' = [readyonstop EXCEPT ![g] = FALSE]
    /\ Goto(g, "semsleep1")
    /\ UNCHANGED <<sem, semq, sg, addr, released, acquired>>

\* An M picks g from the run queue (end of scheduler in proc.c).
Resume(g) ==
    /\ status[g] = "runnable"
    /\ status' = [status EXCEPT ![g] = "running"]
    /\ readyonstop' = [readyonstop EXCEPT ![g] = FALSE]
    /\ UNCHANGED <<sem, semq, sg, addr, pc, released, acquired>>

semdequeue(g) ==
    /\ At(g, "semdequeue")
    /\ \E k \in 1..Len(semq) :
          /\ semq[k] = g
          /\ semq' = [i \in 1..Len(semq) - 1 |-> semq[IF i < k THEN i ELSE i + 1]]
    /\ Goto(g, "semwakeup")
    /\ UNCHANGED <<sem, sg, addr, status, readyonstop, released, acquired>>

(***************************************************************************)
(* semrelease                                                              *)
(***************************************************************************)
semrelease(g, a) ==
    /\ At(g, "idle")
    /\ released[a] < MaxReleases
    /\ sem' = [sem EXCEPT ![a] = @ + 1]
    /\ released' = [released EXCEPT ![a] = @ + 1]
    /\ addr' = [addr EXCEPT ![g] = a]
    /\ Goto(g, "semwakeup")
    /\ UNCHANGED <<semq, sg, status, readyonstop, acquired>>

Call(g) == \E a \in Addrs : semacquire(g, a) \/ semrelease(g, a)

Step(g) ==
    \/ semqueue(g) \/ semsleep1(g) \/ cansemacquire(g) \/ semsleepundo1(g)
    \/ semsleep2(g) \/ semdequeue(g) \/ semwakeup(g) \/ Resume(g)

Next == \E g \in G : Call(g) \/ Step(g)

Spec == Init /\ [][Next]_vars

\* A goroutine that can run is run, and keeps running; none has to call.
FairSpec == Spec /\ \A g \in G : WF_vars(Step(g))

-----------------------------------------------------------------------------
(***************************************************************************)
(* Properties                                                              *)
(***************************************************************************)
\* Types of the variables.
TypeOK ==
    /\ sem \in [Addrs -> Nat]
    /\ semq \in Seq(G)
    /\ sg \subseteq G
    /\ addr \in [G -> Addrs]
    /\ pc \in [G -> Labels]
    /\ status \in [G -> {"running", "waiting", "runnable"}]
    /\ readyonstop \in [G -> BOOLEAN]
    /\ released \in [Addrs -> Nat]
    /\ acquired \in [Addrs -> Nat]

\* Goroutines whose Sema, a variable on their stack, is in the queue.
Queued(g) == pc[g] \in {"semsleep1", "cansemacquire", "semsleepundo1", "semsleep2",
                        "semdequeue"}

\* semsleepundo1 never finds that it was taken for a wakeup without
\* readyonstop being set: the store to 0x555 is not reachable.
NoFault == \A g \in G : pc[g] # "fault"

\* Each Sema is in the queue exactly once while its stack frame is alive in
\* the loop of semacquire, and never after semacquire has returned.
QueueIsExact ==
    /\ \A i, j \in 1..Len(semq) : semq[i] = semq[j] => i = j
    /\ \A i \in 1..Len(semq) : Queued(semq[i])
    /\ \A g \in G : Queued(g) => \E i \in 1..Len(semq) : semq[i] = g

\* A wakeup reaches a goroutine exactly once: while it is in the loop, either
\* its Sema is still available, or it was readied by being marked
\* readyonstop, or it was put back on the run queue.  In particular ready is
\* never called on a goroutine that is runnable ("bad g->status in ready").
WakeupOnce ==
    \A g \in G :
        /\ g \in sg => Queued(g) /\ ~readyonstop[g] /\ status[g] # "runnable"
        /\ readyonstop[g] => status[g] = "running"
        /\ status[g] = "waiting" => g \in sg

\* Units are neither lost nor made up: what was put in is still there or was
\* taken by exactly one cansemacquire.
Conservation ==
    \A a \in Addrs : sem[a] + acquired[a] = InitialSem + released[a]

\* A unit that nobody has taken while a goroutine is parked for it is not
\* forgotten: somebody will still call semwakeup for that address, or is
\* awake on the way to trying the count again.
NoLostWakeup ==
    \A a \in Addrs :
        (sem[a] > 0 /\ \E g \in G : status[g] = "waiting" /\ addr[g] = a)
            => \E h \in G :
                  /\ addr[h] = a /\ status[h] # "waiting"
                  /\ \/ pc[h] \in {"semqueue", "semsleep1", "cansemacquire",
                                   "semsleepundo1", "semdequeue", "semwakeup"}
                     \/ pc[h] = "semsleep2" /\ readyonstop[h]

\* The goroutines that wait for a unit of a.
Waiting(a) ==
    {g \in G : addr[g] = a /\ pc[g] \in {"semqueue", "semsleep1", "cansemacquire",
                                         "semsleep2"}}

Abstract == INSTANCE SemaSpec WITH waiting <- [a \in Addrs |-> Waiting(a)]

\* semacquire and semrelease implement the atomic semaphore with its
\* fairness: a unit is taken as long as somebody waits for it.
ImplementsSemaphore == Abstract!Spec
=============================================================================
