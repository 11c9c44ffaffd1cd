------------------------------ MODULE ForkExec ------------------------------
(***************************************************************************)
(* Starting commands: exec.Run (exec/exec.go), os.ForkExec (os/exec.go)    *)
(* and forkExec (syscall/exec.go), against the goroutines that create      *)
(* descriptors with os.Pipe, net's socket and netFD.accept.  Creating a    *)
(* descriptor and marking it close-on-exec is done with ForkLock read      *)
(* locked, the fork with ForkLock write locked.  ForkLock is the           *)
(* sync.RWMutex of RWMutex, whose pc and steps are used as they are; `at'  *)
(* is where a goroutine is in the code around the lock.                    *)
(***************************************************************************)
EXTENDS RWMutex, Sequences, Functions

CONSTANTS MaxFd,     \* the kernel hands out the descriptors 0..MaxFd
          RunModes,  \* the <<stdin, stdout, stderr>> exec.Run is called with
          FdLists,   \* the lists of standard descriptors given to os.ForkExec
          Runners    \* goroutines that call Run; the others fork and open sockets

ASSUME ForkAssumption ==
    /\ MaxFd \in Nat /\ MaxFd >= 7
    /\ FdLists \subseteq Seq({-1, 0, 1, 2})
    /\ Runners \subseteq G
    /\ G \cap {"std", "none"} = {}

VARIABLES at,        \* where each goroutine is, outside ForkLock
          op,        \* what it is doing
          mode,      \* the modes given to Run
          fd,        \* the descriptors for the child, as far as they are known
          cmd,       \* the descriptors kept in Cmd, -1 for nil
          p,         \* the descriptors made last
          tab,       \* descriptor -> open file
          clo,       \* the descriptors marked close-on-exec
          child,     \* the process each goroutine has started
          sent       \* status pipes that hold an errno

client == <<at, op, mode, fd, cmd, p>>
kernel == <<tab, clo, child, sent>>
fvars == <<vars, client, kernel>>

Fds == 0..MaxFd
NoFile == <<"none", 0, "">>
NoTab == [n \in Fds |-> NoFile]
Gone(st) == [st |-> st, tab |-> NoTab, clo |-> {}]     \* a process that has nothing open
NoChild == Gone("none")

\* Open files: the standard streams of the program, and what goroutine g
\* opened for stream i (3 is the status pipe, 4 a socket).
Std(i) == <<"std", i, "tty">>
File(g, i, kind) == <<g, i, kind>>

FInit ==
    /\ Init
    /\ at = [g \in G |-> "idle"] /\ op = [g \in G |-> "none"]
    /\ mode = [g \in G |-> <<>>] /\ fd = [g \in G |-> <<>>]
    /\ cmd = [g \in G |-> <<>>] /\ p = [g \in G |-> <<>>]
    /\ tab = [n \in Fds |-> IF n < 3 THEN Std(n) ELSE NoFile]
    /\ clo = {}
    /\ child = [g \in G |-> NoChild]
    /\ sent = {}

(***************************************************************************)
(* The kernel: the lowest free descriptors, close, close on exec           *)
(***************************************************************************)
Free == {n \in Fds : tab[n] = NoFile}

Lowest(S) == CHOOSE n \in S : \A m \in S : n <= m

\* The next k descriptors; fewer than k are an error (EMFILE).
Alloc(k) ==
    IF k = 1 THEN <<Lowest(Free)>>
             ELSE LET n == Lowest(Free) IN <<n, Lowest(Free \ {n})>>

HasFree(k) == Free # {} /\ (k = 2 => Free \ {Lowest(Free)} # {})

CloseFds(S) ==
    /\ tab' = [n \in Fds |-> IF n \in S THEN NoFile ELSE tab[n]]
    /\ clo' = clo \ S

Step(g, from, to) == at[g] = from /\ at' = [at EXCEPT ![g] = to]

\* The return to the caller, with the locals dropped.
Return(g) ==
    /\ at' = [at EXCEPT ![g] = "idle"] /\ op' = [op EXCEPT ![g] = "none"]
    /\ mode' = [mode EXCEPT ![g] = <<>>] /\ fd' = [fd EXCEPT ![g] = <<>>]
    /\ cmd' = [cmd EXCEPT ![g] = <<>>] /\ p' = [p EXCEPT ![g] = <<>>]
    /\ child' = [child EXCEPT ![g] = NoChild]

(***************************************************************************)
(* The child, between fork and exec (forkAndExecInChild).  It works on     *)
(* copies: s holds its descriptor table, fd list, status pipe and nextfd.  *)
(* Descriptors and list positions count from 0, as in the code.            *)
(***************************************************************************)
Dup2(s, from, to) == [s EXCEPT !.tab[to] = s.tab[from], !.clo = @ \ {to}]

\* Faulty: the copy is not marked close-on-exec.
DupUpUnmarked(s, from) ==
    [s EXCEPT !.tab[s.nextfd] = s.tab[from], !.clo = @ \ {s.nextfd}, !.nextfd = @ + 1]

\* dup2 onto nextfd, marked close-on-exec.
DupUp(s, from) ==
    [s EXCEPT !.tab[s.nextfd] = s.tab[from], !.clo = @ \cup {s.nextfd},
              !.nextfd = @ + 1]

\* Before pass 1: the status pipe is moved out of the way.
SavePipe(s) ==
    IF s.pipe < s.nextfd THEN [DupUp(s, s.pipe) EXCEPT !.pipe = s.nextfd] ELSE s

\* Faulty: without pass 1, and with a pass 1 that runs over the pipe.
MoveUpNever(s, i) == s

MoveUpBlind(s, i) ==
    IF s.fd[i + 1] >= 0 /\ s.fd[i + 1] < i
    THEN [DupUp(s, s.fd[i + 1]) EXCEPT !.fd[i + 1] = s.nextfd]
    ELSE s

\* Pass 1 for position i: fd[i] < i is moved above len(fd).
MoveUp(s, i) ==
    IF s.fd[i + 1] >= 0 /\ s.fd[i + 1] < i
    THEN LET d == [DupUp(s, s.fd[i + 1]) EXCEPT !.fd[i + 1] = s.nextfd]
         IN  IF d.nextfd = d.pipe THEN [d EXCEPT !.nextfd = @ + 1] ELSE d
    ELSE s

\* Pass 2 for position i: fd[i] is dup'ed down onto i.
MoveDown(s, i) ==
    CASE s.fd[i + 1] = -1 -> [s EXCEPT !.tab[i] = NoFile, !.clo = @ \ {i}]
      [] s.fd[i + 1] = i  -> [s EXCEPT !.clo = @ \ {i}]
      [] OTHER            -> Dup2(s, s.fd[i + 1], i)

\* What the child has after k positions, those of pass 1 before those of pass
\* 2, as a set with one element.
Stage(list, t, c, pipe) ==
    LET n == Len(list)
        stage[k \in 0..2 * n] ==
            IF k = 0
            THEN {SavePipe([fd |-> list, tab |-> t, clo |-> c, pipe |-> pipe, nextfd |-> n])}
            ELSE {IF k <= n THEN MoveUp(s, k - 1) ELSE MoveDown(s, k - 1 - n) :
                    s \in stage[k - 1]}
    IN  stage

\* What is left of 0, 1, 2 is closed, and exec closes what is marked.
Exec(g) ==
    LET n == Len(fd[g])
    IN  /\ child[g].st = "forked"
        /\ \E s \in Stage(fd[g], child[g].tab, child[g].clo, p[g][2])[2 * n] :
              child' = [child EXCEPT ![g] =
                 [st |-> "running", clo |-> {},
                  tab |-> [m \in Fds |-> IF m \in s.clo \cup n..2 THEN NoFile ELSE s.tab[m]]]]
        /\ UNCHANGED <<vars, client, tab, clo, sent>>

\* childerror: ptrace, chdir, a dup2 or exec fails; the errno is written to
\* whatever the descriptor of the pipe is then.
ChildError(g) ==
    LET stage == Stage(fd[g], child[g].tab, child[g].clo, p[g][2])
    IN  /\ child[g].st = "forked"
        /\ \E k \in DOMAIN stage : \E s \in stage[k] : sent' = sent \cup {s.tab[s.pipe]}
        /\ child' = [child EXCEPT ![g] = Gone("failed")]
        /\ UNCHANGED <<vars, client, tab, clo>>

\* The command exits.
Exit(g) ==
    /\ child[g].st = "running"
    /\ child' = [child EXCEPT ![g] = Gone("exited")]
    /\ UNCHANGED <<vars, client, tab, clo, sent>>

(***************************************************************************)
(* ForkLock                                                                *)
(***************************************************************************)
\* A step inside Lock, RLock, Unlock or RUnlock.
Locking(g) ==
    /\ pc[g] \notin {"reading", "writing"}
    /\ Steps(g) \/ Wakes(g)
    /\ UNCHANGED <<client, kernel>>

ReadLock(g) ==
    /\ Step(g, "open", "create")
    /\ RLock(g)
    /\ UNCHANGED <<key, sema, readerCount, op, mode, fd, cmd, p, kernel>>

ReadUnlock(g) ==
    /\ pc[g] = "reading"
    /\ \/ Step(g, "eagain", "open")            \* accept waits in WaitRead
       \/ Step(g, "failed", "error")
       \/ Step(g, "marked", "opened")
    /\ Steps(g)
    /\ UNCHANGED <<op, mode, fd, cmd, p, kernel>>

WriteLock(g) ==
    /\ pc[g] = "idle"
    /\ Step(g, "forkExec", "pipe")
    /\ WLock(g)
    /\ UNCHANGED <<key, sema, readerCount, op, mode, fd, cmd, p, kernel>>

WriteUnlock(g) ==
    /\ pc[g] = "writing"
    /\ \/ Step(g, "forked", "close")
       \/ Step(g, "cleaned", "error")
    /\ Steps(g)
    /\ UNCHANGED <<op, mode, fd, cmd, p, kernel>>

(***************************************************************************)
(* os.Pipe, socket and accept, between RLock and RUnlock                   *)
(***************************************************************************)
\* The descriptors d, one or two ends of stream i, are opened by g.
Made(g, i, d) ==
    /\ p' = [p EXCEPT ![g] = d]
    /\ tab' = [n \in Fds |->
          IF Len(d) = 1 /\ n = d[1] THEN File(g, i, "socket")
          ELSE IF Len(d) = 2 /\ n = d[1] THEN File(g, i, "r")
          ELSE IF Len(d) = 2 /\ n = d[2] THEN File(g, i, "w")
          ELSE tab[n]]

\* Faulty: the descriptors are made before ForkLock is held.
CreateUnlocked(g) ==
    LET k == IF op[g] = "Run" THEN 2 ELSE 1
    IN  /\ HasFree(k) /\ Step(g, "create", "mark")
        /\ Made(g, IF op[g] = "Run" THEN Len(fd[g]) ELSE 4, Alloc(k))
        /\ UNCHANGED <<vars, op, mode, fd, cmd, clo, child, sent>>

Create(g) ==
    LET k == IF op[g] = "Run" THEN 2 ELSE 1
        i == IF op[g] = "Run" THEN Len(fd[g]) ELSE 4
    IN  /\ pc[g] = "reading"
        /\ \/ HasFree(k) /\ Step(g, "create", "mark") /\ Made(g, i, Alloc(k))
           \/ ~HasFree(k) /\ Step(g, "create", "failed") /\ UNCHANGED <<p, tab>>
           \/ op[g] = "socket" /\ Step(g, "create", "eagain") /\ UNCHANGED <<p, tab>>
        /\ UNCHANGED <<vars, op, mode, fd, cmd, clo, child, sent>>

\* CloseOnExec of each of them.
MarkCloseOnExec(g) ==
    /\ pc[g] = "reading"
    /\ Step(g, "mark", "marked")
    /\ clo' = clo \cup Range(p[g])
    /\ UNCHANGED <<vars, op, mode, fd, cmd, p, tab, child, sent>>

\* A socket is used, and closed some time later.
Socket(g) ==
    /\ pc[g] = "idle"
    /\ Step(g, "idle", "open")
    /\ op' = [op EXCEPT ![g] = "socket"]
    /\ UNCHANGED <<vars, mode, fd, cmd, p, kernel>>

CloseSocket(g) ==
    /\ pc[g] = "idle" /\ at[g] = "opened" /\ op[g] = "socket"
    /\ CloseFds(Range(p[g]))
    /\ Return(g)
    /\ UNCHANGED <<vars, sent>>

(***************************************************************************)
(* exec.Run up to ForkExec                                                 *)
(***************************************************************************)
Run(g, m) ==
    /\ pc[g] = "idle"
    /\ Step(g, "idle", "modeToFiles")
    /\ op' = [op EXCEPT ![g] = "Run"]
    /\ mode' = [mode EXCEPT ![g] = m]
    /\ UNCHANGED <<vars, fd, cmd, p, kernel>>

\* The child's file and the one for Cmd are known for one stream more.
Chosen(g, own, kept) ==
    /\ fd' = [fd EXCEPT ![g] = Append(@, own)]
    /\ cmd' = [cmd EXCEPT ![g] = Append(@, kept)]
    /\ at' = [at EXCEPT ![g] = IF Len(fd[g]) = 2 THEN "forkExec" ELSE "modeToFiles"]

modeToFiles(g) ==
    LET i == Len(fd[g])
        m == mode[g][i + 1]
    IN  /\ at[g] = "modeToFiles"
        /\ \/ /\ m = "DevNull" /\ HasFree(1)     \* opened with O_CLOEXEC
              /\ Chosen(g, Lowest(Free), -1)
              /\ tab' = [tab EXCEPT ![Lowest(Free)] = File(g, i, "null")]
              /\ clo' = clo \cup {Lowest(Free)}
           \/ m = "DevNull" /\ ~HasFree(1)
              /\ Step(g, "modeToFiles", "error") /\ UNCHANGED <<fd, cmd, tab, clo>>
           \/ m = "PassThrough" /\ Chosen(g, i, -1) /\ UNCHANGED <<tab, clo>>
           \/ m = "MergeWithStdout" /\ i = 2
              /\ Chosen(g, fd[g][2], -1) /\ UNCHANGED <<tab, clo>>
           \/ m = "MergeWithStdout" /\ i # 2     \* EINVAL
              /\ Step(g, "modeToFiles", "error") /\ UNCHANGED <<fd, cmd, tab, clo>>
           \/ m = "Pipe"
              /\ Step(g, "modeToFiles", "open") /\ UNCHANGED <<fd, cmd, tab, clo>>
        /\ UNCHANGED <<vars, op, mode, p, child, sent>>

\* os.Pipe has returned r and w: the child gets r for stdin, w otherwise.
Piped(g) ==
    /\ pc[g] = "idle" /\ at[g] = "opened" /\ op[g] = "Run"
    /\ IF fd[g] = <<>> THEN Chosen(g, p[g][1], p[g][2]) ELSE Chosen(g, p[g][2], p[g][1])
    /\ p' = [p EXCEPT ![g] = <<>>]
    /\ UNCHANGED <<vars, op, mode, kernel>>

\* os.ForkExec, called with standard files and nil.
OsForkExec(g, list) ==
    /\ pc[g] = "idle"
    /\ Step(g, "idle", "forkExec")
    /\ op' = [op EXCEPT ![g] = "ForkExec"]
    /\ fd' = [fd EXCEPT ![g] = list]
    /\ UNCHANGED <<vars, mode, cmd, p, kernel>>

(***************************************************************************)
(* forkExec, with ForkLock held for writing                                *)
(***************************************************************************)
StatusPipe(g) ==
    /\ pc[g] = "writing"
    /\ \/ HasFree(2) /\ Step(g, "pipe", "fcntl") /\ Made(g, 3, Alloc(2))
       \/ ~HasFree(2) /\ Step(g, "pipe", "failed") /\ UNCHANGED <<p, tab>>
    /\ UNCHANGED <<vars, op, mode, fd, cmd, clo, child, sent>>

MarkStatusPipe(g) ==
    /\ pc[g] = "writing"
    /\ \/ Step(g, "fcntl", "fork") /\ clo' = clo \cup Range(p[g])
       \/ Step(g, "fcntl", "failed") /\ UNCHANGED clo
    /\ UNCHANGED <<vars, op, mode, fd, cmd, p, tab, child, sent>>

\* The child starts with a copy of the descriptor table.
Fork(g) ==
    /\ pc[g] = "writing"
    /\ Step(g, "fork", "forked")
    /\ child' = [child EXCEPT ![g] = [st |-> "forked", tab |-> tab, clo |-> clo]]
    /\ UNCHANGED <<vars, op, mode, fd, cmd, p, tab, clo, sent>>

ForkFails(g) ==
    /\ pc[g] = "writing"
    /\ Step(g, "fork", "failed")
    /\ UNCHANGED <<vars, op, mode, fd, cmd, p, kernel>>

\* error: the status pipe is closed if there is one.
CloseStatusPipe(g) ==
    /\ pc[g] = "writing"
    /\ Step(g, "failed", "cleaned")
    /\ CloseFds(Range(p[g]))
    /\ p' = [p EXCEPT ![g] = <<>>]
    /\ UNCHANGED <<vars, op, mode, fd, cmd, child, sent>>

(***************************************************************************)
(* forkExec, after ForkLock is released                                    *)
(***************************************************************************)
CloseWriteEnd(g) ==
    /\ pc[g] = "idle"
    /\ Step(g, "close", "read")
    /\ CloseFds({p[g][2]})
    /\ UNCHANGED <<vars, op, mode, fd, cmd, p, child, sent>>

\* The write end of the status pipe is open in some process.
StatusOpen(g) ==
    LET w3 == File(g, 3, "w")
    IN  w3 \in Range(tab) \/ \E x \in G : w3 \in Range(child[x].tab)

\* read and Close(p[0]): an errno, or the end of file once every copy of the
\* write end is closed.
ReadStatus(g) ==
    /\ \/ /\ File(g, 3, "w") \in sent
          /\ Step(g, "read", "wait4")
       \/ /\ File(g, 3, "w") \notin sent /\ ~StatusOpen(g)
          /\ Step(g, "read", "started")
    /\ sent' = sent \ {File(g, 3, "w")}
    /\ CloseFds({p[g][1]})
    /\ p' = [p EXCEPT ![g] = <<>>]
    /\ UNCHANGED <<vars, op, mode, fd, cmd, child>>

\* The failed child is waited for.
Wait4(g) ==
    /\ child[g].st = "failed"
    /\ Step(g, "wait4", "error")
    /\ UNCHANGED <<vars, op, mode, fd, cmd, p, kernel>>

(***************************************************************************)
(* exec.Run after ForkExec, and Cmd.Close                                  *)
(***************************************************************************)
\* The child's files that Run opened: not the standard ones, and the merged
\* one only once.
ChildEnds(g) ==
    {fd[g][i] : i \in {j \in DOMAIN fd[g] : op[g] = "Run" /\ mode[g][j] \in {"DevNull", "Pipe"}}}

CmdEnds(g) == Range(cmd[g]) \ {-1}

Started(g) ==
    /\ Step(g, "started", "running")
    /\ CloseFds(ChildEnds(g))
    /\ UNCHANGED <<vars, op, mode, fd, cmd, p, child, sent>>

\* Faulty: the files for Cmd are forgotten.
ErrorKeepsCmd(g) ==
    /\ pc[g] = "idle" /\ at[g] = "error"
    /\ CloseFds(ChildEnds(g))
    /\ Return(g)
    /\ UNCHANGED <<vars, sent>>

\* Error: everything that was opened is closed.
Error(g) ==
    /\ pc[g] = "idle" /\ at[g] = "error"
    /\ CloseFds(ChildEnds(g) \cup CmdEnds(g))
    /\ Return(g)
    /\ UNCHANGED <<vars, sent>>

\* Cmd.Close: Wait until the command has exited, then close the files.
CmdClose(g) ==
    /\ at[g] = "running" /\ child[g].st = "exited"
    /\ CloseFds(CmdEnds(g))
    /\ Return(g)
    /\ UNCHANGED <<vars, sent>>

-----------------------------------------------------------------------------
Calling(g) ==
    \/ \E m \in RunModes : g \in Runners /\ Run(g, m)
    \/ \E list \in FdLists : g \notin Runners /\ OsForkExec(g, list)
    \/ g \notin Runners /\ Socket(g)

Working(g) ==
    \/ Locking(g) \/ ReadLock(g) \/ ReadUnlock(g) \/ WriteLock(g) \/ WriteUnlock(g)
    \/ Create(g) \/ MarkCloseOnExec(g) \/ CloseSocket(g) \/ modeToFiles(g) \/ Piped(g)
    \/ StatusPipe(g) \/ MarkStatusPipe(g) \/ Fork(g) \/ ForkFails(g) \/ CloseStatusPipe(g)
    \/ CloseWriteEnd(g) \/ ReadStatus(g) \/ Wait4(g) \/ Started(g) \/ Error(g) \/ CmdClose(g)

ChildStep(g) == Exec(g) \/ ChildError(g)

FNext == \E g \in G : Calling(g) \/ Working(g) \/ ChildStep(g) \/ Exit(g)

FSpec == FInit /\ [][FNext]_fvars

\* Goroutines and children that can move do; a command need not ever exit.
FFairSpec ==
    /\ FSpec
    /\ \A g \in G : WF_fvars(Working(g)) /\ WF_fvars(ChildStep(g))

-----------------------------------------------------------------------------
(***************************************************************************)
(* Properties                                                              *)
(***************************************************************************)
\* The file that position i (from 0) of the child's list stands for: what the
\* modes of Run, or the files given to os.ForkExec, ask for.
Asked(g, i) ==
    IF op[g] = "ForkExec"
    THEN IF fd[g][i + 1] = -1 THEN NoFile ELSE Std(fd[g][i + 1])
    ELSE LET k == IF mode[g][i + 1] = "MergeWithStdout" THEN 1 ELSE i
         IN  CASE mode[g][k + 1] = "PassThrough" -> Std(k)
               [] mode[g][k + 1] = "DevNull"     -> File(g, k, "null")
               [] OTHER                          -> File(g, k, IF k = 0 THEN "r" ELSE "w")

Positions(g) == 0..(Len(fd[g]) - 1)

\* If this step forks the child of g, what is open is standard or marked.
CleanFork(g) ==
    child[g].st = "none" /\ child'[g].st = "forked" =>
        \A n \in Fds : tab[n] # NoFile /\ tab[n][1] # "std" => n \in clo

\* When a child is forked every descriptor but the standard ones is marked:
\* no goroutine is between creating a descriptor and CloseOnExec.
ForkClean ==
    [][\A g \in G : CleanFork(g)]_fvars

\* "We want the child in a fork/exec sequence to inherit only the file
\* descriptors we intend": a running command holds nothing but the files of
\* its own list, whatever other goroutines had open when it was forked.
OnlyIntended ==
    \A g \in G : child[g].st = "running" =>
        \A n \in Fds : child[g].tab[n] # NoFile =>
            n \in Positions(g) /\ \E i \in Positions(g) : child[g].tab[n] = Asked(g, i)

\* Nothing in the list must be moved up, or the list names no descriptor
\* that moving up could overwrite.
Movable(list) ==
    \/ \A i \in DOMAIN list : list[i] >= 0 => list[i] >= i - 1
    \/ \A i \in DOMAIN list : list[i] < Len(list)

AsAsked(g) == \A i \in Positions(g) : child[g].tab[i] = Asked(g, i)

\* Each position of a movable list arrives in the child as the file it names.
ChildGetsFiles ==
    \A g \in G : child[g].st = "running" /\ Movable(fd[g]) => AsAsked(g)

\* Run reports success only for a command that was exec'ed, and an error only
\* when none is left behind.
StatusTrue ==
    \A g \in G :
        /\ at[g] \in {"started", "running"} => child[g].st \in {"running", "exited"}
        /\ at[g] = "wait4" => child[g].st = "failed"
        /\ at[g] = "error" => child[g].st \in {"none", "failed"}

\* A call that is over, successful or not, leaves none of its descriptors
\* open, on whichever step it failed.
NothingLeftOpen ==
    \A g \in G : at[g] = "idle" => \A n \in Fds : tab[n][1] # g

\* forkExec comes to an end once it has rw.r: goroutines that keep creating
\* descriptors do not keep it from ForkLock, and the read of the status pipe
\* ends, since no command, which may run for ever, holds its write end.
ForkReturns == \A g \in G : pc[g] = "Lock_w" ~> at[g] \in {"running", "idle"}
=============================================================================
