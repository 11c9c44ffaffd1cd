-------------------------------- MODULE Poll --------------------------------
(***************************************************************************)
(* Blocking network i/o (net/fd.go, newpollserver.go, fd_linux.go):        *)
(* goroutines that read, write, accept and close network descriptors, the  *)
(* pollServer that wakes those whose descriptor becomes ready or whose     *)
(* deadline passes, the epoll pollster, and the kernel, which reuses the   *)
(* numbers of closed descriptors.                                          *)
(***************************************************************************)
EXTENDS Integers, Sequences, FiniteSets, FiniteSetsExt

CONSTANTS G,          \* goroutines
          F,          \* netFD objects
          Listeners,  \* those that are listeners
          Ops,        \* bound: the operations that are called
          Timed,      \* bound: the modes for which a timeout may be set
          MaxNow,     \* bound: the clock
          MaxOps      \* bound: operations

ASSUME PollAssumption == Listeners \subseteq F /\ MaxNow \in Nat /\ MaxOps \in Nat

Modes == {"r", "w"}
Keys == F \X Modes
Numbers == 1..Cardinality(F)

VARIABLES
    \* netFD
    opened,           \* newFD has returned it
    sysfd,            \* the number, 0 once closed (and sysfile is nil)
    sysref, closing,
    io,               \* io[f, "r"]: who holds rio; io[f, "w"]: who holds wio
    deadline,         \* rdeadline and wdeadline: 0 none, -1 passed
    nc,               \* ncr and ncw
    token,            \* values in the channels cr and cw of the netFD, whose buffer is 1
    \* pollServer
    req,              \* the channels s.cr and s.cw, whose buffer is 1
    pipe,             \* the wakeup pipe is not empty
    pending,          \* the map, from a number and a mode to a netFD or NoFD
    sdeadline, spc,
    wake,             \* the netFDs and modes that WakeFD is yet to serve
    events,           \* pollster.events: the modes waited for on each number
    \* the kernel
    interest, armed,  \* the epoll set, and the entries ONESHOT has not disabled
    ready, shut,      \* readable, writable; shut down
    now,
    \* goroutines
    pc, op, fd, ops,
    partial,          \* Writes that have written a part of their bytes
    panicked          \* epoll_ctl has failed in AddFD

netfd == <<opened, sysfd, sysref, closing, io>>
chans == <<deadline, nc, token, req, pipe>>
server == <<pending, sdeadline, spc, wake, panicked>>
epoll == <<events, interest, armed>>
world == <<ready, shut, now>>
procs == <<pc, op, fd, ops, partial>>
vars == <<netfd, chans, server, epoll, world, procs>>

Free == "free"
NoFD == "none"

Init ==
    /\ opened = {} /\ sysfd = [f \in F |-> 0] /\ sysref = [f \in F |-> 0] /\ closing = {}
    /\ io = [k \in Keys |-> Free] /\ deadline = [k \in Keys |-> 0] /\ nc = [k \in Keys |-> 0]
    /\ token = {} /\ req = [m \in Modes |-> <<>>] /\ pipe = FALSE
    /\ pending = [k \in Numbers \X Modes |-> NoFD] /\ sdeadline = 0 /\ spc = "loop" /\ wake = {} /\ panicked = FALSE
    /\ events = [n \in Numbers |-> {}] /\ interest = events /\ armed = {}
    /\ ready = {} /\ shut = {} /\ now = 1
    /\ pc = [g \in G |-> "idle"] /\ op = [g \in G |-> "Read"] /\ fd = [g \in G |-> NoFD]
    /\ ops = 0 /\ partial = {}

Mode(o) == IF o \in {"Read", "ReadFrom", "accept"} THEN "r" ELSE "w"
Key(g) == <<fd[g], Mode(op[g])>>
Goto(g, l) == pc' = [pc EXCEPT ![g] = l]

\* The call returns, its arguments are gone.
Return(g) ==
    /\ pc' = [pc EXCEPT ![g] = "idle"]
    /\ op' = [op EXCEPT ![g] = "Read"]
    /\ fd' = [fd EXCEPT ![g] = NoFD]

(***************************************************************************)
(* Faulty variants                                                         *)
(***************************************************************************)
\* One value is sent for all the waiters of a netFD.
WakeFDOnce ==
    /\ spc = "wake"
    /\ \E k \in wake :
          /\ nc[k] > 0 /\ k \notin token
          /\ nc' = [nc EXCEPT ![k] = 0] /\ token' = token \cup {k}
    /\ wake' = {k \in wake : nc'[k] > 0}
    /\ spc' = IF wake' = {} THEN "loop" ELSE "wake"
    /\ UNCHANGED <<netfd, deadline, req, pipe, pending, sdeadline, panicked, epoll, world, procs>>

\* The descriptor is closed though there are references left.
decrefEarly(g) ==
    LET f == fd[g]  k == Key(g)  n == sysfd[f] IN
    /\ pc[g] = "decref"
    /\ sysref' = [sysref EXCEPT ![f] = @ - 1]
    /\ io' = IF op[g] \in {"accept", "Close"} THEN io ELSE [io EXCEPT ![k] = Free]
    /\ IF f \in closing /\ n # 0
       THEN /\ sysfd' = [sysfd EXCEPT ![f] = 0]
            /\ interest' = [interest EXCEPT ![n] = {}] /\ armed' = armed \ {n}
            /\ ready' = ready \ ({f} \X Modes)
       ELSE UNCHANGED <<sysfd, interest, armed, ready>>
    /\ Return(g)
    /\ UNCHANGED <<opened, closing, chans, server, events, shut, now, ops, partial>>

\* The request is sent after the wakeup: the server may look in between.
SendReqLate(g) ==
    LET m == Mode(op[g]) IN
    /\ \/ pc[g] = "send" /\ pipe' = TRUE /\ Goto(g, "late") /\ UNCHANGED req
       \/ pc[g] = "late" /\ req[m] = <<>> /\ req' = [req EXCEPT ![m] = <<fd[g]>>]
          /\ Goto(g, "wait") /\ UNCHANGED pipe
    /\ UNCHANGED <<netfd, deadline, nc, token, server, epoll, world, op, fd, ops, partial>>

(***************************************************************************)
(* The kernel (external)                                                   *)
(***************************************************************************)
\* A descriptor becomes readable or writable; it matters while someone is at it.
\* A connection arrives at a listener only if there is a netFD left for it.
Arrive(f, m) ==
    /\ <<f, m>> \notin ready /\ (f \in Listeners => ~(F \subseteq opened \cup Listeners))
    /\ \E g \in G : Key(g) = <<f, m>> /\ pc[g] \in {"syscall", "send", "wakeup", "wait"}
    /\ ready' = ready \cup {<<f, m>>}
    /\ UNCHANGED <<netfd, chans, server, epoll, shut, now, procs>>

Tick ==
    /\ now < MaxNow /\ now' = now + 1
    /\ UNCHANGED <<netfd, chans, server, epoll, ready, shut, procs>>

\* The lowest number that no open descriptor has.
FreeNumber == Min({n \in Numbers : \A f \in F : sysfd[f] # n})

(***************************************************************************)
(* netFD                                                                   *)
(***************************************************************************)
OpsOf(f) ==
    Ops \cap ({"Close"} \cup IF f \in Listeners THEN {"accept"} ELSE {"Read", "ReadFrom", "Write", "WriteTo"})

\* newFD, for a socket made by Dial or accept.
newFD(f) ==
    /\ f \notin opened /\ opened' = opened \cup {f}
    /\ sysfd' = [sysfd EXCEPT ![f] = FreeNumber]

Dial(f) ==
    /\ newFD(f)
    /\ UNCHANGED <<sysref, closing, io, chans, server, epoll, world, procs>>

\* A call; ReadFrom, WriteTo, accept and Close test sysfile before incref.
Call(g, f, o) ==
    /\ pc[g] = "idle" /\ f \in opened
    /\ ops < MaxOps /\ ops' = ops + 1
    /\ IF o \notin {"Read", "Write"} /\ sysfd[f] = 0 THEN Return(g)
       ELSE /\ op' = [op EXCEPT ![g] = o] /\ fd' = [fd EXCEPT ![g] = f]
            /\ Goto(g, IF o = "Close" THEN "shutdown" ELSE "lock")
    /\ UNCHANGED <<netfd, chans, server, epoll, world, partial>>

\* rio.Lock() or wio.Lock() except in accept; incref; Read and Write test
\* sysfile now; the deadline is set from a timeout (delta) that may be none.
Start(g) ==
    LET f == fd[g]  k == Key(g)  o == op[g] IN
    /\ pc[g] = "lock" /\ (o = "accept" \/ io[k] = Free)
    /\ IF o \in {"Read", "Write"} /\ sysfd[f] = 0
       THEN Return(g) /\ UNCHANGED <<io, sysref, deadline>>
       ELSE /\ sysref' = [sysref EXCEPT ![f] = @ + 1]
            /\ IF o = "accept" THEN UNCHANGED <<io, deadline>>
               ELSE /\ io' = [io EXCEPT ![k] = g]
                    /\ \E delta \in {0, 1} :
                          /\ delta > 0 => k[2] \in Timed /\ now < MaxNow
                          /\ deadline' = [deadline EXCEPT ![k] = IF delta > 0 THEN now + delta ELSE 0]
            /\ Goto(g, "syscall") /\ UNCHANGED <<op, fd>>
    /\ UNCHANGED <<opened, sysfd, closing, nc, token, req, pipe, server, epoll, world, ops, partial>>

\* The system call fails on a descriptor that is closed or shut down; it would
\* block on one that is not ready.
Fails(g) == sysfd[fd[g]] = 0 \/ fd[g] \in shut
Finds(g) == ~Fails(g) /\ Key(g) \in ready
WouldBlock(g) == ~Fails(g) /\ Key(g) \notin ready

\* EAGAIN is an error once the deadline has passed.
WaitOrGiveUp(g) == Goto(g, IF deadline[Key(g)] >= 0 THEN "send" ELSE "decref")

\* The loops in Read and ReadFrom.
SyscallRead(g) ==
    /\ pc[g] = "syscall" /\ op[g] \in {"Read", "ReadFrom"}
    /\ \/ Fails(g) /\ Goto(g, "decref") /\ UNCHANGED ready
       \/ Finds(g) /\ Goto(g, "decref") /\ ready' = ready \ {Key(g)}
       \/ WouldBlock(g) /\ WaitOrGiveUp(g) /\ UNCHANGED ready
    /\ UNCHANGED <<netfd, chans, server, epoll, shut, now, op, fd, ops, partial>>

\* The loops in Write and WriteTo; Write may write a part, and then the rest.
SyscallWrite(g) ==
    /\ pc[g] = "syscall" /\ op[g] \in {"Write", "WriteTo"}
    /\ \/ Fails(g) /\ Goto(g, "decref") /\ UNCHANGED ready
       \/ Finds(g) /\ Goto(g, "decref") /\ ready' = ready \ {Key(g)}
       \/ /\ Finds(g) /\ op[g] = "Write" /\ g \notin partial
          /\ Goto(g, "syscall") /\ ready' = ready \ {Key(g)}
       \/ WouldBlock(g) /\ WaitOrGiveUp(g) /\ UNCHANGED ready
    /\ partial' = CASE pc'[g] = "decref" -> partial \ {g}
                    [] pc'[g] = "syscall" -> partial \cup {g}
                    [] OTHER -> partial
    /\ UNCHANGED <<netfd, chans, server, epoll, shut, now, op, fd, ops>>

\* accept: the loop around syscall.Accept, without a deadline, and newFD.
accept(g) ==
    /\ pc[g] = "syscall" /\ op[g] = "accept"
    /\ \/ Fails(g) /\ Goto(g, "decref") /\ UNCHANGED <<ready, opened, sysfd>>
       \/ /\ Finds(g) /\ Goto(g, "decref") /\ ready' = ready \ {Key(g)}
          /\ \E f \in F \ Listeners : newFD(f)
       \/ WouldBlock(g) /\ Goto(g, "send") /\ UNCHANGED <<ready, opened, sysfd>>
    /\ UNCHANGED <<sysref, closing, io, chans, server, epoll, shut, now, op, fd, ops, partial>>

\* WaitRead and WaitWrite: s.cr <- fd; s.Wakeup(); <-fd.cr
SendReq(g) ==
    LET m == Mode(op[g]) IN
    /\ pc[g] = "send" /\ req[m] = <<>>
    /\ req' = [req EXCEPT ![m] = <<fd[g]>>]
    /\ Goto(g, "wakeup")
    /\ UNCHANGED <<netfd, deadline, nc, token, pipe, server, epoll, world, op, fd, ops, partial>>

Wakeup(g) ==
    /\ pc[g] = "wakeup"
    /\ pipe' = TRUE
    /\ Goto(g, "wait")
    /\ UNCHANGED <<netfd, deadline, nc, token, req, server, epoll, world, op, fd, ops, partial>>

Receive(g) ==
    /\ pc[g] = "wait" /\ Key(g) \in token
    /\ token' = token \ {Key(g)}
    /\ Goto(g, "syscall")
    /\ UNCHANGED <<netfd, deadline, nc, req, pipe, server, epoll, world, op, fd, ops, partial>>

\* Close: incref, Shutdown, and closing = true, which is set without the mutex
\* but while the reference is held.
Close(g) ==
    LET f == fd[g] IN
    /\ pc[g] = "shutdown"
    /\ sysref' = [sysref EXCEPT ![f] = @ + 1]
    /\ shut' = IF sysfd[f] # 0 THEN shut \cup {f} ELSE shut
    /\ closing' = closing \cup {f}
    /\ Goto(g, "decref")
    /\ UNCHANGED <<opened, sysfd, io, chans, server, epoll, ready, now, op, fd, ops, partial>>

\* decref, and the unlock of rio or wio.  The kernel forgets a closed
\* descriptor in the epoll set by itself.
decref(g) ==
    LET f == fd[g]  k == Key(g)  n == sysfd[f] IN
    /\ pc[g] = "decref"
    /\ sysref' = [sysref EXCEPT ![f] = @ - 1]
    /\ io' = IF op[g] \in {"accept", "Close"} THEN io ELSE [io EXCEPT ![k] = Free]
    /\ IF f \in closing /\ sysref'[f] = 0 /\ n # 0
       THEN /\ sysfd' = [sysfd EXCEPT ![f] = 0]
            /\ interest' = [interest EXCEPT ![n] = {}] /\ armed' = armed \ {n}
            /\ ready' = ready \ ({f} \X Modes)
       ELSE UNCHANGED <<sysfd, interest, armed, ready>>
    /\ Return(g)
    /\ UNCHANGED <<opened, closing, chans, server, events, shut, now, ops, partial>>

(***************************************************************************)
(* The pollster: epoll with one-shot events                                *)
(***************************************************************************)
\* pollster.AddFD: EPOLL_CTL_MOD needs an entry in the epoll set, ADD needs none.
CtlFails(n) == (events[n] # {}) # (interest[n] # {})

PollAdd(n, m) ==
    /\ events' = [events EXCEPT ![n] = @ \cup {m}]
    /\ interest' = [interest EXCEPT ![n] = events'[n]]
    /\ armed' = armed \cup {n}

\* StopWaiting for each number and mode in S; enabled are the armed entries.
\* An entry with modes left is modified, which arms it again; an error is only
\* printed.
StopWaiting(S, enabled) ==
    LET touched == {n \in Numbers : events[n] # {} /\ \E m \in Modes : <<n, m>> \in S}
        left(n) == {m \in events[n] : <<n, m>> \notin S}
        changed == {n \in touched : interest[n] # {}}
    IN  /\ events' = [n \in Numbers |-> IF n \in touched THEN left(n) ELSE events[n]]
        /\ interest' = [n \in Numbers |-> IF n \in changed THEN left(n) ELSE interest[n]]
        /\ armed' = {n \in enabled \cup changed : n \in changed => left(n) # {}}

(***************************************************************************)
(* The pollServer                                                          *)
(***************************************************************************)
AddFD(f, m) ==
    LET n == sysfd[f]  k == <<f, m>>  t == deadline[k] IN
    IF n = 0
    THEN /\ k \notin token /\ token' = token \cup {k}
         /\ UNCHANGED <<nc, pending, sdeadline, panicked, epoll>>
    ELSE IF CtlFails(n) THEN panicked' = TRUE /\ UNCHANGED <<nc, token, pending, sdeadline, epoll>>
    ELSE /\ PollAdd(n, m)
         /\ nc' = [nc EXCEPT ![k] = @ + 1]
         /\ pending' = [pending EXCEPT ![n, m] = f]
         /\ sdeadline' = IF t > 0 /\ (sdeadline = 0 \/ t < sdeadline) THEN t ELSE sdeadline
         /\ UNCHANGED <<token, panicked>>

\* The entries whose deadline has passed are deleted, marked and woken.
CheckDeadlines ==
    LET Due(k) == IF pending[k] = NoFD THEN 0 ELSE deadline[pending[k], k[2]]
        passed == {k \in DOMAIN pending : Due(k) > 0 /\ Due(k) <= now}
        later == {Due(k) : k \in DOMAIN pending \ passed} \ {0, -1}
    IN  /\ pending' = [k \in DOMAIN pending |-> IF k \in passed THEN NoFD ELSE pending[k]]
        /\ StopWaiting({<<sysfd[pending[k]], k[2]>> : k \in passed}, armed)
        /\ wake' = {<<pending[k], k[2]>> : k \in passed}
        /\ deadline' = [k \in Keys |-> IF k \in wake' THEN -1 ELSE deadline[k]]
        /\ sdeadline' = IF later = {} THEN 0 ELSE Min(later)
        /\ spc' = IF wake' = {} THEN "loop" ELSE "wake"

Overdue == sdeadline > 0 /\ sdeadline <= now

\* The deadline has passed at the top of the loop in Run, or WaitFD times out.
Timeout ==
    /\ spc = "loop" /\ Overdue
    /\ CheckDeadlines
    /\ UNCHANGED <<netfd, nc, token, req, pipe, panicked, world, procs>>

\* The netFD that waits is deleted from the map, to be woken.
LookupFD(n, m) ==
    /\ pending' = [pending EXCEPT ![n, m] = NoFD]
    /\ wake' = {pending[n, m]} \X {m} \ {<<NoFD, m>>}

\* WaitFD returns a descriptor: what it reports are the modes that are ready,
\* or only an error condition; writers go first.  LookupFD, then WakeFD.  The
\* server looks at the deadline first.
WaitFD(n, f, m) ==
    LET able == {x \in interest[n] : <<f, x>> \in ready \/ f \in shut} IN
    /\ spc = "loop" /\ ~Overdue /\ n \in armed /\ sysfd[f] = n
    /\ \/ able # {} /\ m = IF "w" \in able THEN "w" ELSE "r"
       \/ f \in shut /\ m = IF "w" \in events[n] THEN "w" ELSE "r"
    /\ StopWaiting({<<n, m>>}, armed \ {n})
    /\ LookupFD(n, m)
    /\ spc' = IF wake' = {} THEN "loop" ELSE "wake"
    /\ UNCHANGED <<netfd, chans, sdeadline, panicked, world, procs>>

\* fd.cr <- true for each waiter; the buffer of the channel is one.
WakeFD ==
    /\ spc = "wake"
    /\ \E k \in wake :
          /\ nc[k] > 0 /\ k \notin token
          /\ nc' = [nc EXCEPT ![k] = @ - 1] /\ token' = token \cup {k}
    /\ wake' = {k \in wake : nc'[k] > 0}
    /\ spc' = IF wake' = {} THEN "loop" ELSE "wake"
    /\ UNCHANGED <<netfd, deadline, req, pipe, pending, sdeadline, panicked, epoll, world, procs>>

\* WaitFD returns the wakeup pipe: it is drained, then the requests are taken.
Drain ==
    /\ spc = "loop" /\ ~Overdue /\ pipe
    /\ pipe' = FALSE /\ spc' = "r"
    /\ UNCHANGED <<netfd, deadline, nc, token, req, pending, sdeadline, wake, panicked, epoll, world, procs>>

TakeReq(m) ==
    /\ spc = m
    /\ IF req[m] # <<>>
       THEN AddFD(Head(req[m]), m) /\ req' = [req EXCEPT ![m] = <<>>] /\ spc' = spc
       ELSE /\ spc' = IF m = "r" THEN "w" ELSE "loop"
            /\ UNCHANGED <<nc, token, req, pending, sdeadline, panicked, epoll>>
    /\ UNCHANGED <<netfd, deadline, pipe, wake, world, procs>>

-----------------------------------------------------------------------------
Steps(g) ==
    \/ Start(g) \/ SyscallRead(g) \/ SyscallWrite(g) \/ accept(g)
    \/ SendReq(g) \/ Wakeup(g) \/ Receive(g) \/ Close(g) \/ decref(g)

Server ==
    \/ Timeout \/ Drain \/ WakeFD
    \/ \E m \in Modes : TakeReq(m) \/ \E n \in Numbers, f \in F : WaitFD(n, f, m)

Next ==
    \/ \E g \in G : \/ Steps(g)
                    \/ \E f \in F : \E o \in OpsOf(f) : Call(g, f, o)
    \/ ~panicked /\ Server
    \/ \E f \in F : Dial(f) \/ \E m \in Modes : Arrive(f, m)
    \/ Tick

Spec == Init /\ [][Next]_vars

\* Goroutines run, time passes and epoll_wait reports what is ready.  No event
\* can be passed over for ever as the operations and their parts are bounded.
FairSpec ==
    /\ Spec
    /\ \A g \in G : WF_vars(Steps(g))
    /\ WF_vars(Server) /\ WF_vars(Tick)

-----------------------------------------------------------------------------
\* Nobody is forgotten and nobody is woken twice: those who wait for a netFD
\* are as many as the requests the server has yet to see, the waiters it has
\* counted and the wakeups that have not been received.
WaitersCounted ==
    \A k \in Keys :
        Cardinality({g \in G : pc[g] \in {"wakeup", "wait"} /\ Key(g) = k})
          = nc[k] + (IF k \in token THEN 1 ELSE 0) + (IF req[k[2]] = <<k[1]>> THEN 1 ELSE 0)

\* "To avoid races in closing, all fd operations are locked and refcounted": a
\* descriptor is not closed under an operation that waits for it, so that the
\* server finds it open, its epoll entries are exactly the waiters it has
\* counted, and epoll_ctl never meets an entry of an earlier descriptor with
\* the same number.
WatchedWhileOpen ==
    /\ \A g \in G : pc[g] \in {"send", "wakeup", "wait"} => sysfd[fd[g]] # 0
    /\ ~panicked
    /\ interest = events
    /\ \A n \in Numbers, m \in Modes :
          IF m \in events[n]
          THEN pending[n, m] # NoFD /\ sysfd[pending[n, m]] = n /\ nc[pending[n, m], m] > 0
          ELSE pending[n, m] = NoFD

\* Whoever waits is woken: when the netFD is closed, when its deadline passes,
\* and when it becomes ready, unless another operation takes what there is.
Due(g) ==
    pc[g] = "wait" /\ (fd[g] \in shut \/ Key(g) \in ready \/ deadline[Key(g)] # 0)

WaitersWoken == \A g \in G : Due(g) ~> ~Due(g)
=============================================================================
