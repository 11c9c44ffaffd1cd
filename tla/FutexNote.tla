----------------------------- MODULE FutexNote -----------------------------
(***************************************************************************)
(* The Note of the Linux runtime (linux/thread.c) as the scheduler uses it *)
(* to hand a goroutine to an idle M (proc.c: mnextg, nextgandunlock).      *)
(*                                                                         *)
(* The M `Sleeper' finds nothing to run, and, holding the scheduler lock,  *)
(* sets waitnextg and clears the note m->havenextg; then it releases the   *)
(* lock and sleeps on the note.  Another M, holding the lock, stores a     *)
(* goroutine in nextg and wakes the note up.  Both words are there step by *)
(* step: the scheduler lock is the one of FutexLock, and the word of the   *)
(* note has the same futexlock and futexunlock.                            *)
(***************************************************************************)
EXTENDS FutexLock

CONSTANT Sleeper    \* the M that sleeps

ASSUME SleeperAssumption == Sleeper \in Threads

VARIABLES note,       \* the key of m->havenextg of Sleeper
          at,         \* where each M is in the handoff
          nv, back,   \* v and ret of futexlock and futexunlock of the note
          woken,      \* spurious wakeups on the note so far
          waitnextg,  \* m->waitnextg of Sleeper
          nextg       \* m->nextg of Sleeper is set

notevars == <<note, at, nv, back, woken, waitnextg, nextg>>
allvars == <<vars, notevars>>

Word == INSTANCE FutexWord WITH key <- note, pc <- at, v <- nv, ret <- back, spurious <- woken

Wakers == Threads \ {Sleeper}

NoteInit ==
    /\ Init
    /\ note = 0
    /\ at = [t \in Threads |-> "run"]
    /\ nv = [t \in Threads |-> 0]
    /\ back = [t \in Threads |-> "run"]
    /\ woken = 0 /\ waitnextg = FALSE /\ nextg = FALSE

Move(t, label) == at' = [at EXCEPT ![t] = label] /\ UNCHANGED back

Call(t, label, to) ==
    /\ at' = [at EXCEPT ![t] = label]
    /\ back' = [back EXCEPT ![t] = to]

Locked(t) == pc[t] = "cs" /\ at[t] = "run"

\* lock(&sched), at the start of scheduler, ready, newproc, ...
SchedLock(t) == at[t] = "run" /\ lock(t) /\ UNCHANGED notevars

\* unlock(&sched), on the way back or on to notesleep.
SchedUnlock(t) ==
    /\ at[t] \in {"unlock", "cleared"}
    /\ unlock(t)
    /\ Move(t, IF at[t] = "unlock" THEN "run" ELSE "sleep")
    /\ UNCHANGED <<note, nv, woken, waitnextg, nextg>>

(***************************************************************************)
(* Faulty variants                                                         *)
(***************************************************************************)
\* mnextg that does not wake the note.
MnextgNoWakeup(t) ==
    /\ Locked(t) /\ t \in Wakers
    /\ ~nextg
    /\ nextg' = TRUE
    /\ waitnextg' = FALSE
    /\ Move(t, "unlock")
    /\ UNCHANGED <<vars, note, nv, woken>>

\* mnextg that releases the scheduler lock before notewakeup.
MnextgUnlocksFirst(t) ==
    /\ Locked(t) /\ t \in Wakers
    /\ ~nextg
    /\ nextg' = TRUE
    /\ waitnextg' = FALSE
    /\ IF waitnextg
       THEN unlock(t) /\ Call(t, "unlock_load", "run")
       ELSE Move(t, "unlock") /\ UNCHANGED vars
    /\ UNCHANGED <<note, nv, woken>>

(***************************************************************************)
(* The handoff                                                             *)
(***************************************************************************)
\* mnextg: store the goroutine, then notewakeup if the M waits.  One that does
\* not wait is given the goroutine that is wired to it, which is ready once.
mnextg(t) ==
    /\ Locked(t) /\ t \in Wakers
    /\ ~nextg
    /\ nextg' = TRUE
    /\ waitnextg' = FALSE
    /\ IF waitnextg
       THEN Call(t, "unlock_load", "unlock")        \* notewakeup: futexunlock
       ELSE Move(t, "unlock")
    /\ UNCHANGED <<vars, note, nv, woken>>

\* The other holders of the lock have nothing for Sleeper.
OtherWork(t) ==
    /\ Locked(t) /\ t \in Wakers
    /\ Move(t, "unlock")
    /\ UNCHANGED <<vars, note, nv, woken, waitnextg, nextg>>

\* nextgandunlock takes m->nextg if it is there.  When there is nothing to
\* run, noteclear stores 0 in the word and then takes it with futexlock.
nextgandunlock(t) ==
    /\ Locked(t) /\ t = Sleeper
    /\ nextg' = FALSE
    /\ IF nextg
       THEN Move(t, "unlock") /\ UNCHANGED <<note, waitnextg>>
       ELSE /\ waitnextg' = TRUE
            /\ note' = 0
            /\ Call(t, "lock_load", "cleared")
    /\ UNCHANGED <<vars, nv, woken>>

\* notesleep, once the scheduler lock is released: futexlock.
Notesleep(t) ==
    /\ at[t] = "sleep" /\ pc[t] = "idle"
    /\ Call(t, "lock_load", "slept")
    /\ UNCHANGED <<vars, note, nv, woken, waitnextg, nextg>>

\* The second half of notesleep: futexunlock, for other sleepers.
NotesleepUnlock(t) ==
    /\ at[t] = "slept"
    /\ Call(t, "unlock_load", "awake")
    /\ UNCHANGED <<vars, note, nv, woken, waitnextg, nextg>>

\* After notesleep: take m->nextg, or throw "bad m->nextg in nextgoroutine".
TakeNextg(t) ==
    /\ at[t] = "awake"
    /\ nextg' = FALSE
    /\ Move(t, IF nextg THEN "run" ELSE "throw")
    /\ UNCHANGED <<vars, note, nv, woken, waitnextg>>

NoteStep(t) ==
    \/ SchedUnlock(t) \/ mnextg(t) \/ OtherWork(t) \/ nextgandunlock(t)
    \/ Notesleep(t) \/ NotesleepUnlock(t) \/ TakeNextg(t)
    \/ (Word!futexlock(t) \/ Word!futexunlock(t)) /\ UNCHANGED <<vars, waitnextg, nextg>>

NoteNext ==
    \E t \in Threads :
        \/ SchedLock(t)
        \/ NoteStep(t)
        \/ (Step(t) \/ (SpuriousWakeup(t) /\ UNCHANGED locks)) /\ UNCHANGED notevars
        \/ Word!SpuriousWakeup(t) /\ UNCHANGED <<vars, waitnextg, nextg>>

NoteSpec == NoteInit /\ [][NoteNext]_allvars

\* The fairness of FutexLock; what an M does between lock and unlock ends.
NoteFairSpec ==
    /\ NoteSpec
    /\ \A t \in Threads :
          /\ WF_allvars(NoteStep(t))
          /\ WF_allvars(Step(t) /\ UNCHANGED notevars)
          /\ SF_allvars(Step(t) /\ key' # key /\ UNCHANGED notevars)

-----------------------------------------------------------------------------
\* No throw is reached: the M that wakes from notesleep finds the goroutine it
\* was woken for, and neither word is unlocked twice.
NoteNoThrow == \A t \in Threads : pc[t] # "throw" /\ at[t] # "throw"

\* noteclear overwrites the word with a plain store, so at that moment
\* nobody may be inside an operation on it: no M still runs the futexunlock
\* of the previous notewakeup.
ClearIsAlone ==
    pc[Sleeper] = "cs" => \A t \in Wakers : at[t] \notin LockLabels \cup UnlockLabels

\* A goroutine that is handed to an M on its way to sleep is taken, even if the
\* wakeup comes before the sleep or between any two steps of it.
HandoffTaken == nextg /\ at[Sleeper] # "run" ~> ~nextg
=============================================================================
