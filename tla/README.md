# Verification of the concurrent core of this Go tree

TLA+ models, TLC runs and TLAPS proofs for the parts of the tree in which threads, goroutines
or processes share state: the locks, notes, semaphores, scheduler and channels of
`src/src/pkg/runtime`, the packages `sync` and `once` on top of them, and five users of all
that: pipes, rpc, the network poll server, starting processes, and tickers. `PROJECT.json` maps
every definition to the lines it models.

## 1. The system

| part | source | what is hard | module |
|---|---|---|---|
| futex locks | `runtime/linux/thread.c` | every load, compare-and-swap and system call interleaves; spurious wakeups | `FutexWord`, `FutexLock`, `LockSpec` |
| notes, hand-off to an idle M | `linux/thread.c`, `proc.c` | `noteclear` is a plain store next to a `futexunlock` that may not be finished | `FutexNote` |
| semaphores | `sema.goc` | two-step sleep: the wakeup may come before the sleep | `Semaphore`, `SemaSpec` |
| scheduler, stop the world | `proc.c`, `mgc0.c`, `cgocall.c` | hand-off, `readyonstop`, slow return from a system call, deadlock report, Ms that come back while the collector runs | `Sched` |
| channels | `chan.c` | one select in several queues, served under different locks; stale sudogs | `WaitQ`, `Chan` |
| `sync`, `once` | `sync/*.go`, `once/once.go` | who holds `w` for the readers; a flag read without a lock | `MutexOps`, `RWMutex`, `Once` |
| `io.Pipe` | `io/pipe.go` | reads, writes, closes and finalizers meet one runner in any order | `Pipe` |
| `rpc` | `rpc/client.go`, `server.go`, `gob/decoder.go` | calls against the end of the connection; a codec that loses step | `Rpc` |
| poll server | `net/fd.go`, `newpollserver.go`, `fd_linux.go` | close, deadline and readiness of one descriptor; reused numbers | `Poll` |
| starting processes | `exec`, `os`, `syscall/exec.go`, `net/sock.go` | a fork between creating a descriptor and marking it; the child's shuffle of descriptors | `ForkExec` |
| tickers | `time/tick.go`, `sleep.go` | goroutines that sleep for others and replace one another | `Ticker` |

They lie in layers, and the models follow them:

    exec.Run, os.ForkExec          time.NewTicker      io.Pipe  rpc  net
      sync.RWMutex  RWMutex          once.Do  Once       (over channels and mutexes)
        sync.Mutex              MutexOps  (over the atomic semaphore of SemaSpec)
          semacquire/semrelease Semaphore (implements SemaSpec; uses ready of the scheduler)
            scheduler           Sched     (one lock, the notes of the Ms)
              lock, note        FutexLock (implements LockSpec), FutexNote (composed with it)
                futex word      FutexWord
    channels                    Chan, WaitQ (over ready, and one lock per channel)

Each layer is checked against what it promises, and the layer above uses the promise:
`FutexLock` implements `LockSpec`, which is why `Sched`, `Chan` and `Semaphore` treat a locked
section as one step; `Semaphore` implements `SemaSpec`, whose atomic semaphore `MutexOps` calls.
Three modules compose components instead: `FutexNote` runs the scheduler lock and the note word
step by step together, `ForkExec` uses the steps of `RWMutex` as they are, `Ticker` those of `Once`.

## 2. The modules and the code

**`FutexWord`, `FutexLock`, `LockSpec`.** `futexlock` and `futexunlock` with one step for each access to
`l->key`: the load, the compare-and-swap, the sleep, the decrement of the waiter count. `pc`
holds where a thread is, `v` its local copy of the word, which is `2 * waiters + owned`. The sleep is the
kernel's compare-and-sleep (external), with spurious wakeups. `LockSpec` is a variable that names the owner.

**`FutexNote`.** An M that finds nothing to run sets `waitnextg`, clears its note, releases the
scheduler lock and sleeps; another M stores `nextg` and wakes it, with the lock held. Both words have their own `FutexWord`
steps, so a late `futexunlock` of the note, and every state of the lock, meets every step of the hand-off.

**`Semaphore`, `SemaSpec`.** `semacquire` and `semrelease` with the queue, `semsleep1`,
`semsleepundo1`, `semsleep2`, `semdequeue`, `semwakeup`. `sg` is the set of goroutines with `s->g` set.
Of the scheduler it has `ready` (with `readyonstop`) and the step back onto an M. The abstraction is a
count with a set of waiters, in which a unit that is waited for is eventually taken.

**`MutexOps`, `RWMutex`, `Once`.** `sync.Mutex` as operators on an array of mutexes (`xadd`, `Semacquire`,
`Semrelease`), and its two users step by step. They are checked in the runs of their own users,
`ForkExec` and `Ticker`, and by proof.

**`Sched`.** All of `proc.c` that moves goroutines and Ms: a section under `sched`'s lock is one
step, but a round of `matchmg`, and each part of `nextgandunlock`, is a step with the lock held.
`pc[m]` is where an M is. The notes are the flags `waitnextg` and `waitstop`, cleared by whoever wakes (justified by
`FutexNote`). A goroutine does anything it may at any time; one that parks is in `sleeping` until it is
readied, which stands for the queues of channels and semaphores. `gc` is the frame of the collector: `gcsema`, stop, collect, start.

**`WaitQ`, `Chan`.** `WaitQ` has the linked structures of a channel: a pool of sudogs, `recvq` and `sendq` with
`first` and `last`, the free list, `enqueue`, `dequeue` (which drops sudogs whose `selgen` is stale) and `dequeueg`.
`Chan` has send, receive, their non-blocking forms, `closechan` and `selectgo` with its three passes, over the locks
of the channels, the circular buffer and `ready`. Elements are numbered by sender, so that order and duplication show.
The error count of closed channels (`incerr`, `chan.c:158`), and `len` and `cap`, which only read, are left out.

**`Pipe`.** `run`'s local variables, the two halves with the mutex `io`, and goroutines in `Read`, `Write`, `Close`,
`CloseWithError` or a finalizer. Channels of the pipe are unbuffered: a send and its receive are one step of both.

**`Rpc`.** A client (`Go`, `Call`, `send`, `input`, `Close`), a server (`input`, one goroutine per request, `sendResponse`, `register`) and
a connection with the values on it, which either end may close and the network may break. A message is a header
and a body; decoding a value into a variable of another type fails, as in gob.

**`Poll`.** `netFD` (references, `rio` and `wio`, deadlines, `ncr` and `ncw`, the channels `cr` and `cw`), the
`pollServer` (requests, wakeup pipe, `pending`, `deadline`), the epoll `pollster` and the kernel's epoll set with
ONESHOT and the reuse of numbers (external).

**`ForkExec`.** `exec.Run` and `Cmd.Close`, `os.ForkExec`, `forkExec` with the child between fork and exec (`forkAndExecInChild`: the two
passes of `dup2`, the errno through the status pipe), and goroutines that create descriptors under `ForkLock`. `tab` and
`clo` are the descriptor table and the close-on-exec marks; a child has its own copies.

**`Ticker`.** `NewTicker`, `Stop`, `tickerLoop` (each ticker of a scan is a step), `alarmer.set`, and any number of `wakeLoop`s, each with
its channel `wakeMeAt`. Tickers are named by their period.

## 3. Runs

| run | instance | shows |
|---|---|---|
| `futex` | 3 Ms, 1 spurious wakeup for each word | the lock word is exact and `LockSpec` implemented; nobody uses a note while it is cleared; somebody who waits for the lock gets it (`Progress`); a hand-off is taken (`HandoffTaken`) |
| `semaphore` | 3 goroutines, 2 addresses in one queue, 2 releases | the crash of `semsleepundo1` is unreachable, one wakeup per sleep, `SemaSpec` implemented with its fairness (so no lost wakeup and no lost unit) |
| `sched` | 3 goroutines, 4 Ms, 2 CPUs | no goroutine lost or run twice, true deadlock reports, work conservation, no lost wakeup, the world is stopped while the collector runs |
| `sched_features` | 2 goroutines, 3 Ms, wiring, callbacks, GOMAXPROCS 1 and 2 | no throw, exact `mcpu` and `msyscall` |
| `sched_live` | 2 goroutines, 3 Ms, 1 and 2 CPUs | the world does stop; a runnable goroutine runs, even if system calls never return |
| `chan` | 3 goroutines, a channel without a buffer and one with 2 places, 3 families of programs | FIFO, received once, senders know, nobody is forgotten while what it waits for is there, operations end |
| `pipe` | 3 goroutines, 4 calls, reads of 0 and 1 byte, writes of 0 and 2, the finalizer | bytes and counts agree, the runner never answers nobody, the end of one half releases the other |
| `rpc` | 2 calls, a `Close`, a connection that may break | a call completes once, with its own reply, and does complete |
| `poll` | 2 goroutines, 3 operations, a listener and a connection, deadlines | waiters are counted, the pollster agrees with the kernel, waiters are woken by readiness, close or deadline |
| `forkexec` | 2 goroutines, descriptors 0 to 8 | what a command inherits, a true status, nothing left open on any error path, `ForkLock` keeps unmarked descriptors from children, `forkExec` ends |
| `ticker` | 2 goroutines, periods 2 and 3, clock to 5 | one `tickerLoop`, started before it is used; ticks keep their phase; a ticker that is due is served |
| `sched_wired_gc` | 2 goroutines, 3 Ms, wiring | violated: section 7 |

*Bounds.* Each is a named constant. Three Ms let one own the lock, one wait and one pass between a load and its
compare-and-swap, or one sleep on the note and two race to wake it. One M more than goroutines is enough for `Sched`, since an M
that holds no goroutine is in the pool, except the one with the lock; were it not enough TLC would report a deadlock.
`MaxOps` and `MaxSudoG` bound the operations of a goroutine and the sudogs in `Chan`; programs are chosen in `Init` (operations on one
channel, on the other, selects on both), because all operations at once are out of reach. In `Pipe` a write of 2 bytes takes two
reads of 1, and four calls are enough for a write, its two reads and a close. Two calls in `Rpc` let one answer
be on its way while the other request is written. In `Poll` two goroutines and two `netFD`s let a number be closed and reused while
it is waited for. `MaxFd` 8 lets `Run` run out of descriptors between its pipes. In `Ticker` the clock passes two ticks of the
shorter period and one of the longer, and late scans step over ticks; `Buf` is the 10 of the code.
`MaxReleases` bounds `semrelease`, `MaxSpurious` the kernel's spurious wakeups. Symmetry is used only in `sched`, which has no liveness
property, for goroutines other than `main` and Ms other than `m0`.

*Deadlock* is checked in `futex`, `forkexec` and the runs of `Sched`. In `semaphore`, `chan` and `pipe` goroutines may all wait for a
partner that the program never provides; `rpc`, `poll`, `pipe` and `ticker` end when the bound on calls or on the clock is reached.

## 4. Fairness

* Threads and goroutines that can run keep running: weak fairness of the steps inside an operation. Nobody has to start
  an operation; who holds a lock of `sync` gives it up; the function given to `Do` returns.
* `FutexNote`: weak fairness of the steps on the note and on the lock, and strong fairness of lock steps that change the word. A
  compare-and-swap that could succeed again and again succeeds at last; the code does not ensure it, the hardware does in practice.
* `Sched`: strong fairness of each M's steps, as the lock is granted to an M that keeps asking, and of `Gosched`, as
  scheduling is cooperative: allocation and channel operations enter the scheduler when `gcwaiting` is set. `initdone` comes. A system call need not return.
* `Chan`: weak fairness of the goroutines' steps together; programs are finite.
* `Pipe`: weak fairness of each goroutine halfway through a call, of its meeting the runner, and of finalizers of garbage halves.
* `Rpc`: weak fairness of the two `input` loops, of each call's goroutine on both sides and of `sendResponse`. The connection may stay up for ever.
* `Poll`: weak fairness of goroutines inside an operation, of the server and of the clock. The network owes nothing.
* `ForkExec`: weak fairness of goroutines at work and of children before exec. A command need not exit.
* `Ticker`: weak fairness of goroutines in `NewTicker`, of `tickerLoop` and of each `wakeLoop` whose time has come. The clock may stop, users need not receive.

## 5. Proofs

| module | proved, for every | theorems |
|---|---|---|
| `FutexProof`, locks | finite set of threads, number of spurious wakeups | `LockMutualExclusion`, `LockWordIsExact`, `LockNoThrow`, `LockNoLostWakeup`, `LockImplements` |
| `FutexProof`, notes | the same, any idle M | `SchedLockUsed`, `NoteClearIsAlone`, `HandoffNoThrow`, `SchedLockImplements` |
| `SemaphoreProof` | set of goroutines and addresses, number of releases | `SemNoFault`, `SemWakeupOnce`, `SemConservation`, `SemQueueIsExact`, `SemNoLostWakeup`, `SemImplements` |
| `ForkExecProof`, RWMutex | finite set of goroutines | `RWExclusion`, `RWCount` |
| `ForkExecProof`, ForkLock | set of goroutines, number of descriptors, modes and lists | `ForkLockUsed`, `ForkLockWorks` |
| `ForkFilesProof`, `ForkExecProof`, descriptors | the same | `FilesKnown`, `NothingStaysOpen` |
| `ForkFilesProof`, `ForkExecProof`, children | the same, lists of at most three files | `ChildrenKnown`, `StatusIsTrue`, `IntendedOnly`, `FilesArrive` |
| `TickerProof`, once.Do | set of goroutines and functions | `DoReturnsAfterFinish` |
| `TickerProof`, tickers | set of goroutines and periods | `OnceUsed`, `OneLoopStarted`, `TicksInPhase` |
| `SchedInv`, `SchedSteps`, `SchedProof` | finite set of goroutines and of Ms, any program | `SchedInvariance`, `SchedNoThrow`, `SchedRunnableOnce`, `SchedCountsExact`, `SchedNoLostWakeup`, `SchedDeadlockReportTrue` |
| `SchedProof` | the same, under a hypothesis on the program | `SchedWorkConserving`, `SchedWorldStopped` |

*Futex locks.* That the owner is alone rests on the low bit of the word, and that on the whole word
being exact, since `unlock` subtracts one. What a thread has loaded is stale when it swaps; `Remembers` keeps what is
still known: its parity and, for a waiter that removes itself, that it is at least 2.

*Notes.* `SchedLockUsed` says that the hand-off uses the lock by its rules, so the invariant of the lock holds in it. `NInv` says which phase of the hand-off the sleeping M is in (`Away`, `Clearing`, `Cleared`, `Waiting`, `Slept`, `Woken`), what the word of the note
is then, and that an M inside `notewakeup` still holds the lock. As `noteclear` needs the lock too, nobody is inside.

*Semaphores.* `NoLostWakeup` speaks of goroutines that have parked, and is not inductive: a unit may be released between a
goroutine's last look at the count and `gosched`. `NoLost` extends it to those that will park.
`Place` ties `s->g`, `readyonstop` and the status together; the deliberate crash of
`semsleepundo1` is unreachable because of it. `QueueIsExact` says the queue holds the goroutines inside the loop and no
others, so no dangling `Sema`. `SemImplements` covers the safety part of the refinement.

*RWMutex.* The invariant says who has `r` and who has `w`: one goroutine, a unit of the semaphore
that somebody will take, or (for `w`) the readers together. `FirstIsOnly`: the reader that
locks `w` is the only one counted, because it still holds `r`. The count is exact only together with these.

*Starting processes.* `ForkLockUsed` brings `RWExclusion` into the composed system. `FInv`: a descriptor that is open, not a standard one and not
marked close-on-exec belongs to a goroutine that holds `ForkLock`, to read if it creates, to write if it is in `forkExec`. A fork is made with the write
lock held and its own status pipe marked, so nothing is unmarked then.

*What is open, and what the child gets.* The lemmas are in `ForkFilesProof`, the theorems in `ForkExecProof`. `KInv` says, by where a call is, which descriptors it has made and
that `fd`, `cmd` or `p` still names each of them (`Place`, `Ends`, `Owns`); a call at rest has none, which is `NothingLeftOpen`. The child is followed through `SavePipe`, pass 1, pass 2 and
the closing of 0 to 2 with a fact for each position (`Stages`): what the list needs is where the code will look for it, what is moved up is marked close-on-exec, and the status pipe is out of
the way. `CInv` ties the state of the child and of the status pipe to the place of the parent, and needs `ForkLockWorks` at the fork: without it the child would start with a descriptor that
exec does not close. The hypothesis `ShortLists` (at most three files) is what `exec.Run` and the other callers of `os.ForkExec` in the tree pass. It is needed: with four files or more the
status pipe can be descriptor `len(fd)`, which `pipe < nextfd` (`exec.go:149`) does not move and the first `dup2` of pass 1 overwrites.

*`once.Do` and tickers.* `OInv`: at most one goroutine has each mutex of `once` (`Alone`); a job in the table is being called or has finished, and who calls it
holds its mutex from before it is in the table until the call is over. So who finds the job and gets the mutex finds it finished. `OnceUsed` brings this to
the tickers, where `LoopInv` adds that `tickerLoop` has been started exactly when `startTickerLoop` has finished.
`PInv` is about the phase. `Advanced` keeps `nextTick` a whole number of periods after `born` and puts it past `now` by one period at most; a
ticker that is not due needs a bound from before, so the invariant says that no `nextTick` is more than a period ahead of the clock, nor of `now` during
a scan. The scan passes each ticker once though it takes stopped ones off the list on the way: the list has no ticker twice, and those before
`cur` lie in the future.

*Scheduler.* `SInv` is one invariant for all of `proc.c` that is modelled. `Shape` says where every goroutine is: what an M has in hand fits its place in the code (`Hands`),
the queue, the `nextg`s and the hands have nothing in common (`Apart`), a runnable goroutine is in one of them (`Runnable`), `g->m` is the M that runs g
(`Running`), a goroutine in `Gwaiting` can still be readied or has `readyonstop` (`Sleepers`), and free, idle and wired goroutines and Ms are where they belong. `RunnableOnce` needs all of
it: that `ready` does not queue a goroutine twice rests on the status, that the status is right on who may change it, that on who has the goroutine in hand. `Counts` is exact
only together with `Shape`, as a hand-off counts the M that is still asleep; `Control` has the lock, the time before `initdone`, collections and the end, and says that when nothing is
left to run the deadlock is found. The steps use three facts about cardinalities (`Counting`), proved at the end from the finiteness of M.
`SchedWorkConserving` assumes that C does not call back (`Callbacks = {}`), `SchedWorldStopped` that no goroutine is wired and GOMAXPROCS is not called (`Wirable = {}`,
`ProcChoices = {}`). The code breaks both properties otherwise (section 7). Each has a strengthening of its own (`WInv`, `GInv`): an M in or on the way to `matchmg` serves the queue,
and during a collection `mcpumax` is 1, so no M but the collector is given a goroutine.

TLC agreed with the properties before they were proved, and with the inductive invariants of `SemaphoreProof`, `SchedInv`, of the phase, and with `KInv` and `CInv`. Assumptions are the
`ASSUME`s of the modules (finite sets, distinct names, ranges of bounds), which the runs evaluate.

## 6. Only model-checked

Liveness and anything that uses `ENABLED` is out of the prover's reach, so the liveness properties and
the fairness part of `ImplementsSemaphore` are checked on the instances above only. So is what a recursive
definition computes (no induction over data), and modules that declare `RECURSIVE` operators cannot
hold theorems: this concerns `WaitQ` and `Chan`. `Pipe`, `Rpc` and `Poll` have no proofs. Of lists of more than three
files nothing is shown about the child: the lists of the run have at most three too.

## 7. Where the code and its documentation disagree

* `sched_wired_gc` (`proc.c:598`): a goroutine wired to its M that leaves a system call while the world
  is stopped is handed straight back to its M, which does not look at `mcpumax`, and runs during
  the collection. `mgc0.c` says the collector only runs when everyone else is stopped.

Others were seen while modelling, and have no run of their own. The runs exclude them by the constants or the programs named here,
and the properties that pass are to be read with that restriction:

* Scheduler: wired goroutines exceed GOMAXPROCS and keep others from running (`proc.c:172`; `Wirable`); GOMAXPROCS called during a collection
  resets `mcpumax` (`proc.c:1149`; `ProcChoices`); `endcgocallback` does not serve the queue (`proc.c:624`; `Callbacks`). A negative
  `$GOMAXPROCS` (`proc.c:119`) is outside `SchedAssumption`.
* Channels: `dequeueg` removes the last sudog of a queue and leaves `q->last` at it, so the next waiter is linked to a freed
  sudog (`chan.c:971`); a select woken for a buffered value may take another case while a receiver sleeps (`chan.c:770`); a select with a
  send and a receive on one unbuffered channel meets its own sudog and throws (`chan.c:722`). In the programs of `chan` a
  select is the only one that waits in its queues, and has one case per channel.
* Pipes: an operation of a half that reaches the runner after that half was closed stays pending until the other half is
  closed (`pipe.go:86`), against the comment at line 170.
* rpc: when the body of a response is lost the call completes without an error (`client.go:96`). Arguments of an unknown method are taken for the next
  request (`server.go:366`); the client survives it unless `Reply` has no fields (`EmptyReply`).
* Starting processes: pass 1 of the child dups onto descriptors the list still needs (`syscall/exec.go:147`, for instance the list {3, 1, 1}); `ChildGetsFiles` leaves
  such lists out. With four files or more pass 1 can overwrite the status pipe (line 149; section 5). The read of the status pipe is not interrupted by a signal in the model (`syscall/exec.go:272`), and the standard streams are open.
* Tickers: after a scan `alarm.wakeTime` is stale, so a new ticker may get no alarm of its own (`tick.go:150`); `DueServed` is about tickers that a
  scan has passed. One tick may still come after `Stop` (`tick.go:22`). The clock never steps back in the model (`tick.go:110`).

Memory is sequentially consistent in all models, so unsynchronised reads such as `j.done` in `once.Do` see the last value written.

## 8. Not modelled

`PROJECT.json` lists every part with its reason. The tree has some 146,000 lines of Go without its tests, besides the C of the runtime and of
the compilers, and the models stand for a small share of it, about 3,100 lines in 21 files; that share is where state is shared. The rest
falls into these groups:

* compilers, linkers and tools: sequential translators whose input no model checker can enumerate;
* encodings, compression, cryptography, images, text, syntax trees, tables: functions on bytes or plain data, without control of interest;
* the tables and wrappers of system calls, most of them generated, for each operating system and architecture;
* the allocator, mark and sweep, hash maps: their correctness is in the layout of memory; what is concurrent about them is one lock each, or the stop
  of the world, which `Sched` has;
* `panic`, `defer` and stack growth: control inside one goroutine; other systems' locks, which offer the same interface as the Linux ones;
* protocols of `net`, `http`, `websocket`, `netchan` and others: formats and blocking I/O over what `Poll`, `Chan` and `Rpc` have.

Inside modelled parts, left out are: errors of `epoll_wait` and of setting the poll server up, dialling and HTTP in `rpc`, `Exec` without a fork,
waiting for stopped processes, `LookPath`, the copying of channel elements.
