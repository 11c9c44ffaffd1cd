-------------------------------- MODULE Once --------------------------------
(***************************************************************************)
(* once.Do (once/once.go): a table of jobs under joblock; the goroutine    *)
(* that enters a job runs it and holds the mutex of the job meanwhile.     *)
(* A job is never removed, so there is one mutex per function.             *)
(***************************************************************************)
EXTENDS MutexOps, FiniteSets

CONSTANTS Funcs,     \* the functions passed to Do, also naming their job's mutex
          joblock    \* the mutex of the table

ASSUME OnceAssumption == Mutexes = Funcs \cup {joblock} /\ joblock \notin Funcs

VARIABLES jobs,      \* the functions that have an entry in the table
          done,      \* those whose j.done is true
          arg,       \* the argument of the current Do of each goroutine
          ran,       \* history: how often each function was called
          finished   \* history: functions whose call has returned

vars == <<key, sema, pc, mu, ret, jobs, done, arg, ran, finished>>

Init ==
    /\ MutexInit
    /\ pc = [g \in G |-> "idle"]
    /\ ret = [g \in G |-> "idle"]
    /\ jobs = {} /\ done = {} /\ finished = {}
    /\ arg \in [G -> Funcs]
    /\ ran = [f \in Funcs |-> 0]

(***************************************************************************)
(* Faulty variants                                                         *)
(***************************************************************************)
\* The table is read without joblock.
DoUnlocked(g, f) ==
    /\ pc[g] = "idle"
    /\ arg' = [arg EXCEPT ![g] = f]
    /\ Goto(g, "lookup")
    /\ UNCHANGED <<key, sema, mu, ret, jobs, done, ran, finished>>

(***************************************************************************)
(* Do                                                                      *)
(***************************************************************************)
\* Do(f): joblock.Lock().
Do(g, f) ==
    /\ pc[g] = "idle"
    /\ arg' = [arg EXCEPT ![g] = f]
    /\ Lock(g, joblock, "lookup")
    /\ UNCHANGED <<key, sema, jobs, done, ran, finished>>

\* j := jobs[f]; a new job is locked before it is entered.
Lookup(g) ==
    /\ pc[g] = "lookup"
    /\ \/ arg[g] \notin jobs /\ Lock(g, arg[g], "enter")
       \/ arg[g] \in jobs /\ Unlock(g, joblock, "check")
    /\ UNCHANGED <<key, sema, jobs, done, arg, ran, finished>>

\* jobs[f] = j; joblock.Unlock().
EnterJob(g) ==
    /\ pc[g] = "enter"
    /\ jobs' = jobs \cup {arg[g]}
    /\ Unlock(g, joblock, "call")
    /\ UNCHANGED <<key, sema, done, arg, ran, finished>>

\* The call of f, and its return with j.done = true; j.Unlock().
CallF(g) ==
    /\ pc[g] = "call"
    /\ ran' = [ran EXCEPT ![arg[g]] = @ + 1]
    /\ Goto(g, "running")
    /\ UNCHANGED <<key, sema, mu, ret, jobs, done, arg, finished>>

FinishF(g) ==
    /\ pc[g] = "running"
    /\ finished' = finished \cup {arg[g]}
    /\ done' = done \cup {arg[g]}
    /\ Unlock(g, arg[g], "idle")
    /\ UNCHANGED <<key, sema, jobs, arg, ran>>

\* if j.done != true { j.Lock(); j.Unlock() }
Check(g) ==
    /\ pc[g] = "check"
    /\ \/ arg[g] \in done /\ Goto(g, "idle") /\ UNCHANGED <<mu, ret>>
       \/ arg[g] \notin done /\ Lock(g, arg[g], "waited")
    /\ UNCHANGED <<key, sema, jobs, done, arg, ran, finished>>

Waited(g) ==
    /\ pc[g] = "waited"
    /\ Unlock(g, arg[g], "idle")
    /\ UNCHANGED <<key, sema, jobs, done, arg, ran, finished>>

Steps(g) ==
    \/ Lookup(g) \/ EnterJob(g) \/ CallF(g) \/ FinishF(g) \/ Check(g) \/ Waited(g)
    \/ (XaddLock(g) \/ XaddUnlock(g) \/ Semrelease(g))
          /\ UNCHANGED <<jobs, done, arg, ran, finished>>

Wakes(g) == Semacquire(g) /\ UNCHANGED <<jobs, done, arg, ran, finished>>

-----------------------------------------------------------------------------
\* "the others will block until f finishes running": no Do(f) returns before
\* the call of f has returned.
ReturnsAfterFinish ==
    [][\A g \in G : pc[g] # "idle" /\ pc'[g] = "idle" => arg[g] \in finished']_vars
=============================================================================
