------------------------------ MODULE MutexOps ------------------------------
(***************************************************************************)
(* The operations of sync.Mutex (sync/mutex.go), as steps of a goroutine.  *)
(* key counts the goroutines that hold the mutex or wait for it; one that  *)
(* waits sleeps in Semacquire until an Unlock releases the semaphore.      *)
(* The semaphore is the atomic one of SemaSpec, which Semaphore            *)
(* implements.  key and sema are 32 bits wide in the code; neither exceeds *)
(* the number of goroutines here.                                          *)
(***************************************************************************)
EXTENDS Integers

CONSTANTS G,         \* goroutines
          Mutexes    \* the mutexes they use

VARIABLES key,       \* m.key
          sema,      \* m.sema
          pc,        \* where each goroutine is
          mu,        \* the mutex a goroutine in Lock or Unlock works on
          ret        \* the label it returns to

MutexLabels == {"xadd_lock", "semacquire", "xadd_unlock", "semrelease"}

MutexInit ==
    /\ key = [m \in Mutexes |-> 0]
    /\ sema = [m \in Mutexes |-> 0]
    /\ mu = [g \in G |-> CHOOSE m \in Mutexes : TRUE]

Goto(g, label) == pc' = [pc EXCEPT ![g] = label]

\* A call m.Lock() or m.Unlock() that continues at `back'.
Call(g, label, m, back) ==
    /\ Goto(g, label)
    /\ mu' = [mu EXCEPT ![g] = m]
    /\ ret' = [ret EXCEPT ![g] = back]

Lock(g, m, back) == Call(g, "xadd_lock", m, back)

Unlock(g, m, back) == Call(g, "xadd_unlock", m, back)

(***************************************************************************)
(* Lock and Unlock                                                         *)
(***************************************************************************)
\* Lock: xadd(&m.key, 1) == 1 means that we hold the mutex.
XaddLock(g) ==
    /\ pc[g] = "xadd_lock"
    /\ key' = [key EXCEPT ![mu[g]] = @ + 1]
    /\ Goto(g, IF key[mu[g]] + 1 = 1 THEN ret[g] ELSE "semacquire")
    /\ UNCHANGED <<sema, mu, ret>>

\* Lock: runtime.Semacquire(&m.sema).
Semacquire(g) ==
    /\ pc[g] = "semacquire"
    /\ sema[mu[g]] > 0
    /\ sema' = [sema EXCEPT ![mu[g]] = @ - 1]
    /\ Goto(g, ret[g])
    /\ UNCHANGED <<key, mu, ret>>

\* Unlock: xadd(&m.key, -1) == 0 means that nobody waits.
XaddUnlock(g) ==
    /\ pc[g] = "xadd_unlock"
    /\ key' = [key EXCEPT ![mu[g]] = @ - 1]
    /\ Goto(g, IF key[mu[g]] - 1 = 0 THEN ret[g] ELSE "semrelease")
    /\ UNCHANGED <<sema, mu, ret>>

\* Unlock: runtime.Semrelease(&m.sema).
Semrelease(g) ==
    /\ pc[g] = "semrelease"
    /\ sema' = [sema EXCEPT ![mu[g]] = @ + 1]
    /\ Goto(g, ret[g])
    /\ UNCHANGED <<key, mu, ret>>
=============================================================================
