--------------------------- MODULE ForkFilesProof ---------------------------
(***************************************************************************)
(* Proofs about the descriptors of ForkExec: what a call that starts a     *)
(* command has open, what its child inherits, and what the parent is told. *)
(*                                                                         *)
(* Three parts.  KInv says which descriptors are open for each goroutine,  *)
(* by where its call is, and that it has each of them at hand to close.    *)
(* The child's moves between fork and exec are followed position by        *)
(* position, for the lists of at most three files.  CInv says what state   *)
(* the child is in, by where its parent is, and what the status pipe       *)
(* holds.                                                                  *)
(* The theorems these lemmas lead to are in ForkExecProof.                 *)
(***************************************************************************)
EXTENDS ForkExec, WellFoundedInduction, TLAPS

(***************************************************************************)
(* The descriptors of the parent                                           *)
(***************************************************************************)
\* Where a call is: making descriptors, with its files complete, or about to
\* return an error.
Opening == {"open", "create", "eagain", "mark", "marked", "opened"}
Forking == {"forkExec", "pipe", "fcntl", "fork", "forked", "close", "read", "wait4", "started",
            "running"}
Failing == {"failed", "cleaned", "error"}

\* The ends of stream j's pipe that the child gets and that Cmd keeps.
Given(j) == IF j = 1 THEN "r" ELSE "w"
Kept(j) == IF j = 1 THEN "w" ELSE "r"

\* What Run has for stream j; the child's files are closed once it is running.
Stream(g, j) ==
    \/ /\ mode[g][j] = "DevNull" /\ fd[g][j] \in Fds /\ cmd[g][j] = -1
       /\ at[g] # "running" => tab[fd[g][j]] = File(g, j - 1, "null")
    \/ mode[g][j] = "PassThrough" /\ fd[g][j] = j - 1 /\ cmd[g][j] = -1
    \/ mode[g][j] = "MergeWithStdout" /\ j = 3 /\ fd[g][3] = fd[g][2] /\ cmd[g][3] = -1
    \/ /\ mode[g][j] = "Pipe" /\ fd[g][j] \in Fds /\ cmd[g][j] \in Fds
       /\ at[g] # "running" => tab[fd[g][j]] = File(g, j - 1, Given(j))
       /\ tab[cmd[g][j]] = File(g, j - 1, Kept(j))

\* What a call has so far, by where it is.
Place(g) ==
    \/ op[g] = "none" /\ at[g] = "idle" /\ fd[g] = <<>> /\ cmd[g] = <<>>
    \/ /\ op[g] = "socket" /\ at[g] \in Opening \cup Failing
       /\ fd[g] = <<>> /\ cmd[g] = <<>>
    \/ /\ op[g] = "ForkExec" /\ at[g] \in Forking \cup Failing
       /\ fd[g] \in FdLists /\ cmd[g] = <<>>
    \/ /\ op[g] = "Run" /\ at[g] \in Opening \cup Forking \cup Failing \cup {"modeToFiles"}
       /\ fd[g] \in Seq(Int) /\ cmd[g] \in Seq(Int) /\ Len(cmd[g]) = Len(fd[g])
       /\ Len(fd[g]) <= 3
       /\ at[g] \in Opening \cup {"modeToFiles"} => Len(fd[g]) < 3
       /\ at[g] \in Opening => mode[g][Len(fd[g]) + 1] = "Pipe"
       /\ at[g] \in Forking => Len(fd[g]) = 3
       /\ \A j \in 1..Len(fd[g]) : Stream(g, j)

\* p holds both ends of a pipe for stream i.
PipeEnds(g, i) ==
    /\ p[g] = <<p[g][1], p[g][2]>> /\ p[g][1] \in Fds /\ p[g][2] \in Fds /\ p[g][2] >= 4
    /\ tab[p[g][1]] = File(g, i, "r") /\ tab[p[g][2]] = File(g, i, "w")

\* p holds what socket or os.Pipe made, or the status pipe.
Making == {"mark", "marked", "opened"}
Status == {"fcntl", "fork", "forked", "close"}

\* What p holds, by where the call is.
Ends(g) ==
    /\ at[g] \in Making /\ op[g] = "Run" => PipeEnds(g, Len(fd[g]))
    /\ at[g] \in Making /\ op[g] = "socket" =>
          p[g] = <<p[g][1]>> /\ p[g][1] \in Fds /\ tab[p[g][1]] = File(g, 4, "socket")
    /\ at[g] \in Status => PipeEnds(g, 3)
    /\ at[g] = "failed" => p[g] = <<>> \/ (pc[g] = "writing" /\ PipeEnds(g, 3))
    /\ at[g] = "read" =>
          /\ p[g] = <<p[g][1], p[g][2]>> /\ p[g][1] \in Fds /\ p[g][2] \in Fds /\ p[g][2] >= 4
          /\ tab[p[g][1]] = File(g, 3, "r")
    /\ at[g] \notin Making \cup Status \cup {"failed", "read"} => p[g] = <<>>

\* g will close the descriptor n.
Handle(g, n) ==
    \/ at[g] # "running" /\ n \in ChildEnds(g)
    \/ n \in CmdEnds(g)
    \/ n \in Range(p[g]) /\ (at[g] = "read" => n = p[g][1])

\* Whatever g has open it will close.
Owns(g) == \A n \in Fds : tab[n][1] = g => Handle(g, n)

KTypes ==
    /\ DOMAIN at = G /\ DOMAIN op = G /\ DOMAIN mode = G /\ DOMAIN fd = G /\ DOMAIN cmd = G
    /\ DOMAIN p = G /\ DOMAIN child = G /\ DOMAIN tab = Fds
    /\ \A n \in 0..2 : tab[n] = Std(n)

\* Only 0, 1 and 2 are standard files.
StdLow == \A n \in Fds : tab[n][1] = "std" => n < 3

KInv == KTypes /\ StdLow /\ \A g \in G : Place(g) /\ Ends(g) /\ Owns(g)

-----------------------------------------------------------------------------
LEMMA FileOwner ==
    /\ \A g \in G : g # "none" /\ g # "std"
    /\ \A g, i, kind : File(g, i, kind)[1] = g
    /\ \A i : Std(i)[1] = "std"
    /\ NoFile[1] = "none"
<1>1. \A g \in G : g # "none" /\ g # "std"
  BY ForkAssumption
<1>2. \A g, i, kind : File(g, i, kind)[1] = g
  BY DEF File
<1>3. (\A i : Std(i)[1] = "std") /\ NoFile[1] = "none"
  BY DEF Std, NoFile
<1> QED BY <1>1, <1>2, <1>3

\* The step is one of g: the variables of the others stay, and so do the
\* descriptors of the others.
Frame(g) ==
    /\ KTypes'
    /\ \A x \in G : x # g =>
          /\ pc'[x] = pc[x] /\ at'[x] = at[x] /\ op'[x] = op[x] /\ mode'[x] = mode[x]
          /\ fd'[x] = fd[x] /\ cmd'[x] = cmd[x] /\ p'[x] = p[x]
    /\ \A n \in Fds : tab'[n] # tab[n] =>
          tab[n][1] \in {g, "none"} /\ tab'[n][1] \in {g, "none"}

LEMMA OthersKeep ==
    ASSUME KInv, NEW g \in G, Frame(g), NEW x \in G, x # g
    PROVE  (Place(x) /\ Ends(x) /\ Owns(x))'
<1>1. \A n \in Fds : tab[n][1] = x \/ tab'[n][1] = x => tab'[n] = tab[n]
  BY FileOwner DEF Frame
<1>2. /\ pc'[x] = pc[x] /\ at'[x] = at[x] /\ op'[x] = op[x] /\ mode'[x] = mode[x]
      /\ fd'[x] = fd[x] /\ cmd'[x] = cmd[x] /\ p'[x] = p[x]
  BY Zenon DEF Frame
<1>3. \A n \in Fds : \A i, kind : tab[n] = File(x, i, kind) => tab'[n] = tab[n]
  <2> SUFFICES ASSUME NEW n \in Fds, NEW i, NEW kind, tab[n] = File(x, i, kind)
               PROVE  tab'[n] = tab[n]
    BY Zenon
  <2>1. tab[n][1] = x
    BY DEF File
  <2> QED BY Zenon, <1>1, <2>1
<1>4. Place(x) /\ Ends(x) /\ Owns(x)
  BY Zenon DEF KInv
<1>5. ASSUME NEW j, Stream(x, j) PROVE Stream(x, j)'
  BY ZenonT(60), <1>2, <1>3, <1>5 DEF Stream
<1>6. Place(x)'
  BY Zenon, <1>2, <1>4, <1>5 DEF Place
<1>7. ASSUME NEW i, PipeEnds(x, i) PROVE PipeEnds(x, i)'
  BY Zenon, <1>2, <1>3, <1>7 DEF PipeEnds
<1>8. Ends(x)'
  BY ZenonT(60), <1>2, <1>3, <1>4, <1>7 DEF Ends
<1>9. Owns(x)'
  <2>1. ChildEnds(x)' = ChildEnds(x) /\ CmdEnds(x)' = CmdEnds(x)
    BY Zenon, <1>2 DEF ChildEnds, CmdEnds
  <2>2. \A n : Handle(x, n) => Handle(x, n)'
    BY Zenon, <1>2, <2>1 DEF Handle
  <2> QED BY Zenon, <1>1, <1>4, <2>2 DEF Owns
<1> QED BY <1>6, <1>8, <1>9

LEMMA OwnStep ==
    ASSUME KInv, NEW g \in G, Frame(g), Place(g)', Ends(g)', Owns(g)'
    PROVE  KInv'
<1>1. StdLow'
  BY Zenon, FileOwner DEF KInv, StdLow, Frame
<1> QED BY Zenon, <1>1, OthersKeep DEF KInv, Frame

-----------------------------------------------------------------------------
\* g goes from one place to the other and changes nothing else.
Shift(g, to) ==
    /\ at' = [at EXCEPT ![g] = to]
    /\ \A x \in G : x # g => pc'[x] = pc[x]
    /\ op' = op /\ mode' = mode /\ fd' = fd /\ cmd' = cmd /\ p' = p /\ tab' = tab
    /\ DOMAIN child' = G
    /\ \/ at[g] \in {"open", "create", "eagain"} /\ to \in {"open", "create", "eagain"}
       \/ at[g] = "modeToFiles" /\ to = "open" /\ mode[g][Len(fd[g]) + 1] = "Pipe"
       \/ at[g] \in {"mark", "marked"} /\ to \in {"marked", "opened"}
       \/ at[g] = "forkExec" /\ to = "pipe"
       \/ at[g] \in {"fcntl", "fork", "forked"} /\ to \in {"fork", "forked", "close"}
       \/ at[g] \in {"fcntl", "fork"} /\ to = "failed" /\ pc'[g] = "writing"
       \/ at[g] \in {"create", "pipe"} /\ to = "failed"
       \/ at[g] \in {"modeToFiles", "cleaned", "wait4"} /\ to = "error"
       \/ at[g] = "failed" /\ pc[g] = "reading" /\ to = "error"

LEMMA ShiftKeeps ==
    ASSUME KInv, NEW g \in G, NEW to, Shift(g, to)
    PROVE  KInv'
<1>1. at'[g] = to /\ DOMAIN at' = G /\ \A x \in G : x # g => at'[x] = at[x]
  BY Zenon DEF Shift, KInv, KTypes
<1>2. op' = op /\ mode' = mode /\ fd' = fd /\ cmd' = cmd /\ p' = p /\ tab' = tab /\ DOMAIN child' = G
  BY Zenon DEF Shift
<1>3. Frame(g)
  BY Zenon, <1>1, <1>2 DEF Shift, Frame, KTypes, KInv
<1>4. Place(g) /\ Ends(g) /\ Owns(g)
  BY Zenon DEF KInv
<1>5. at[g] # "running" /\ at[g] # "read" /\ to # "running" /\ to # "read"
  BY Zenon DEF Shift
<1>6. \A j : Stream(g, j) => Stream(g, j)'
  BY Zenon, <1>1, <1>2, <1>5 DEF Stream
<1>7. Owns(g)'
  BY Zenon, <1>1, <1>2, <1>4, <1>5 DEF Owns, Handle, ChildEnds, CmdEnds
<1>8. \A i : PipeEnds(g, i) => PipeEnds(g, i)'
  BY Zenon, <1>2 DEF PipeEnds
<1>9. Place(g)'
  <2>1. CASE op[g] = "none"
    BY <1>4, <2>1 DEF Place, Shift
  <2>2. CASE op[g] = "socket"
    BY <1>1, <1>2, <1>4, <2>2 DEF Place, Shift, Opening, Forking, Failing
  <2>3. CASE op[g] = "ForkExec"
    BY <1>1, <1>2, <1>4, <2>3 DEF Place, Shift, Opening, Forking, Failing
  <2>4. CASE op[g] = "Run"
    <3>1. /\ to \in Opening \cup Forking \cup Failing
          /\ to \in Opening => at[g] \in Opening \cup {"modeToFiles"}
          /\ to \in Opening => at[g] \in Opening \/ mode[g][Len(fd[g]) + 1] = "Pipe"
          /\ to \in Forking => at[g] \in Forking
          /\ to # "modeToFiles"
      BY DEF Shift, Opening, Forking, Failing
    <3>2. /\ fd[g] \in Seq(Int) /\ cmd[g] \in Seq(Int) /\ Len(cmd[g]) = Len(fd[g])
          /\ Len(fd[g]) <= 3
          /\ at[g] \in Opening \cup {"modeToFiles"} => Len(fd[g]) < 3
          /\ at[g] \in Opening => mode[g][Len(fd[g]) + 1] = "Pipe"
          /\ at[g] \in Forking => Len(fd[g]) = 3
          /\ \A j \in 1..Len(fd[g]) : Stream(g, j)
      BY <1>4, <2>4 DEF Place
    <3> QED BY Zenon, <1>1, <1>2, <1>6, <2>4, <3>1, <3>2 DEF Place
  <2> QED BY Zenon, <1>4, <2>1, <2>2, <2>3, <2>4 DEF Place
<1>10. Ends(g)'
  <2>1. CASE at[g] \in {"open", "create", "eagain", "modeToFiles", "forkExec", "pipe", "cleaned", "wait4"}
    <3>1. p[g] = <<>> /\ at'[g] \in {"open", "create", "eagain", "pipe", "failed", "error"}
      BY <1>1, <1>4, <2>1 DEF Ends, Shift, Making, Status
    <3> QED BY <1>2, <3>1 DEF Ends, Making, Status
  <2>2. CASE at[g] \in {"mark", "marked"}
    <3>1. at'[g] \in {"marked", "opened"} /\ at[g] \in Making
      BY <1>1, <2>2 DEF Shift, Making
    <3>2. /\ op[g] = "Run" => PipeEnds(g, Len(fd[g]))
          /\ op[g] = "socket" =>
                p[g] = <<p[g][1]>> /\ p[g][1] \in Fds /\ tab[p[g][1]] = File(g, 4, "socket")
      BY Zenon, <1>4, <3>1 DEF Ends
    <3>3. /\ op'[g] = "Run" => PipeEnds(g, Len(fd[g]))'
          /\ op'[g] = "socket" =>
                p'[g] = <<p'[g][1]>> /\ p'[g][1] \in Fds /\ tab'[p'[g][1]] = File(g, 4, "socket")
      BY Zenon, <1>2, <1>8, <3>2
    <3> QED BY <3>1, <3>3 DEF Ends, Making, Status
  <2>3. CASE at[g] \in {"fcntl", "fork", "forked"}
    <3>1. PipeEnds(g, 3)'
      BY Zenon, <1>4, <1>8, <2>3 DEF Ends, Status
    <3>2. at'[g] \in {"fork", "forked", "close"} \/ (at'[g] = "failed" /\ pc'[g] = "writing")
      BY <1>1, <2>3 DEF Shift
    <3> QED BY <3>1, <3>2 DEF Ends, Making, Status
  <2>4. CASE at[g] = "failed"
    <3>1. p[g] = <<>> /\ at'[g] = "error"
      BY <1>1, <1>4, <2>4 DEF Ends, Shift
    <3> QED BY <1>2, <3>1 DEF Ends, Making, Status
  <2> QED BY <2>1, <2>2, <2>3, <2>4 DEF Shift
<1> QED BY Zenon, OwnStep, <1>3, <1>7, <1>9, <1>10
-----------------------------------------------------------------------------
\* A step inside the lock, or into it, moves nobody else.
LEMMA LockMovesOne ==
    ASSUME DOMAIN pc = G, NEW g \in G, Steps(g) \/ Wakes(g) \/ RLock(g) \/ WLock(g)
    PROVE  \A x \in G : x # g => pc'[x] = pc[x]
<1>1. \E l : pc' = [pc EXCEPT ![g] = l]
  <2>1. ASSUME RLockXadd(g) \/ RUnlock(g) PROVE \E l : pc' = [pc EXCEPT ![g] = l]
    BY <2>1 DEF RLockXadd, RUnlock, Lock, Unlock, Call, Goto
  <2>2. ASSUME RLockUnlockR(g) \/ WLockW(g) \/ WLockUnlockR(g) \/ WUnlock(g) \/ RLock(g) \/ WLock(g)
        PROVE  \E l : pc' = [pc EXCEPT ![g] = l]
    BY <2>2 DEF RLockUnlockR, WLockW, WLockUnlockR, WUnlock, RLock, WLock, Lock, Unlock, Call, Goto
  <2>3. ASSUME XaddLock(g) \/ XaddUnlock(g) \/ Semrelease(g) \/ Semacquire(g)
        PROVE  \E l : pc' = [pc EXCEPT ![g] = l]
    BY Zenon, <2>3 DEF XaddLock, XaddUnlock, Semrelease, Semacquire, Goto
  <2> QED
    BY <2>1, <2>2, <2>3 DEF Steps, Wakes
<1> QED
  BY <1>1

\* The steps that are shifts.
LEMMA LockShifts ==
    ASSUME DOMAIN pc = G, KInv, NEW g \in G,
           ReadLock(g) \/ ReadUnlock(g) \/ WriteLock(g) \/ WriteUnlock(g)
    PROVE  KInv'
<1>1. \A x \in G : x # g => pc'[x] = pc[x]
  BY Zenon, LockMovesOne DEF ReadLock, ReadUnlock, WriteLock, WriteUnlock
<1>2. op' = op /\ mode' = mode /\ fd' = fd /\ cmd' = cmd /\ p' = p /\ tab' = tab /\ DOMAIN child' = G
  BY Zenon DEF ReadLock, ReadUnlock, WriteLock, WriteUnlock, kernel, KInv, KTypes
<1>3. CASE ReadLock(g)
  <2>1. Shift(g, "create")
    BY Zenon, <1>1, <1>2, <1>3 DEF ReadLock, Step, Shift
  <2> QED BY Zenon, <2>1, ShiftKeeps
<1>4. CASE WriteLock(g)
  <2>1. Shift(g, "pipe")
    BY Zenon, <1>1, <1>2, <1>4 DEF WriteLock, Step, Shift
  <2> QED BY Zenon, <2>1, ShiftKeeps
<1>5. CASE ReadUnlock(g)
  <2>1. CASE Step(g, "eagain", "open")
    <3>1. Shift(g, "open")
      BY Zenon, <1>1, <1>2, <2>1 DEF Step, Shift
    <3> QED BY Zenon, <3>1, ShiftKeeps
  <2>2. CASE Step(g, "failed", "error")
    <3>1. Shift(g, "error")
      BY Zenon, <1>1, <1>2, <1>5, <2>2 DEF ReadUnlock, Step, Shift
    <3> QED BY Zenon, <3>1, ShiftKeeps
  <2>3. CASE Step(g, "marked", "opened")
    <3>1. Shift(g, "opened")
      BY Zenon, <1>1, <1>2, <2>3 DEF Step, Shift
    <3> QED BY Zenon, <3>1, ShiftKeeps
  <2> QED BY Zenon, <1>5, <2>1, <2>2, <2>3 DEF ReadUnlock
<1>6. CASE WriteUnlock(g)
  <2>1. CASE Step(g, "forked", "close")
    <3>1. Shift(g, "close")
      BY Zenon, <1>1, <1>2, <2>1 DEF Step, Shift
    <3> QED BY Zenon, <3>1, ShiftKeeps
  <2>2. CASE Step(g, "cleaned", "error")
    <3>1. Shift(g, "error")
      BY Zenon, <1>1, <1>2, <2>2 DEF Step, Shift
    <3> QED BY Zenon, <3>1, ShiftKeeps
  <2> QED BY Zenon, <1>6, <2>1, <2>2 DEF WriteUnlock
<1> QED BY Zenon, <1>3, <1>4, <1>5, <1>6

LEMMA OtherShifts ==
    ASSUME KInv, NEW g \in G,
           MarkCloseOnExec(g) \/ MarkStatusPipe(g) \/ Fork(g) \/ ForkFails(g) \/ Wait4(g)
    PROVE  KInv'
<1>1. pc' = pc /\ op' = op /\ mode' = mode /\ fd' = fd /\ cmd' = cmd /\ p' = p /\ tab' = tab
  BY Zenon DEF MarkCloseOnExec, MarkStatusPipe, Fork, ForkFails, Wait4, vars, kernel
<1>2. DOMAIN child' = G
  BY Zenon DEF MarkCloseOnExec, MarkStatusPipe, Fork, ForkFails, Wait4, kernel, KInv, KTypes
<1>3. \E to : Shift(g, to)
  <2>1. CASE MarkCloseOnExec(g)
    BY Zenon, <1>1, <1>2, <2>1 DEF MarkCloseOnExec, Step, Shift
  <2>2. CASE MarkStatusPipe(g)
    BY Zenon, <1>1, <1>2, <2>2 DEF MarkStatusPipe, Step, Shift
  <2>3. CASE Fork(g)
    BY Zenon, <1>1, <1>2, <2>3 DEF Fork, Step, Shift
  <2>4. CASE ForkFails(g)
    BY Zenon, <1>1, <1>2, <2>4 DEF ForkFails, Step, Shift
  <2>5. CASE Wait4(g)
    BY Zenon, <1>1, <1>2, <2>5 DEF Wait4, Step, Shift
  <2> QED BY Zenon, <2>1, <2>2, <2>3, <2>4, <2>5
<1> QED BY Zenon, <1>3, ShiftKeeps

\* The steps that leave the descriptors and the calls alone: those inside
\* ForkLock, and those of the children.
LEMMA QuietKInv ==
    ASSUME DOMAIN pc = G, KInv, NEW g \in G, Locking(g) \/ ChildStep(g) \/ Exit(g) PROVE KInv'
<1>1. client' = client /\ tab' = tab
  BY Zenon DEF Locking, ChildStep, Exec, ChildError, Exit, kernel
<1>2. at' = at /\ op' = op /\ mode' = mode /\ fd' = fd /\ cmd' = cmd /\ p' = p
  BY Zenon, <1>1 DEF client
<1>3. DOMAIN child' = G
  BY Zenon DEF Locking, ChildStep, Exec, ChildError, Exit, kernel, KInv, KTypes
<1>4. \A x \in G : pc[x] = "writing" => pc'[x] = "writing"
  <2>1. CASE Locking(g)
    <3>1. \A x \in G : x # g => pc'[x] = pc[x]
      BY Zenon, <2>1, LockMovesOne DEF Locking
    <3> QED BY Zenon, <2>1, <3>1 DEF Locking
  <2>2. CASE ChildStep(g) \/ Exit(g)
    BY Zenon, <2>2 DEF ChildStep, Exec, ChildError, Exit, vars
  <2> QED BY <2>1, <2>2
<1>5. KTypes'
  BY Zenon, <1>1, <1>2, <1>3 DEF KInv, KTypes
<1>6. ASSUME NEW x \in G PROVE (Place(x) /\ Ends(x) /\ Owns(x))'
  <2>1. Place(x)'
    <3>1. \A j : Stream(x, j) => Stream(x, j)'
      BY Zenon, <1>1, <1>2 DEF Stream
    <3> QED BY Zenon, <1>2, <3>1 DEF KInv, Place
  <2>2. Ends(x)'
    BY Zenon, <1>1, <1>2, <1>4 DEF KInv, Ends, PipeEnds
  <2>3. Owns(x)'
    BY Zenon, <1>1, <1>2 DEF KInv, Owns, Handle, ChildEnds, CmdEnds
  <2> QED BY <2>1, <2>2, <2>3
<1>7. StdLow'
  BY Zenon, <1>1 DEF KInv, StdLow
<1> QED BY Zenon, <1>5, <1>6, <1>7 DEF KInv

-----------------------------------------------------------------------------
\* A call starts with nothing open.
LEMMA CallKInv ==
    ASSUME KInv, NEW g \in G, Calling(g) PROVE KInv'
<1>1. /\ at[g] = "idle" /\ pc' = pc /\ tab' = tab /\ cmd' = cmd /\ p' = p /\ child' = child
      /\ \/ /\ at' = [at EXCEPT ![g] = "modeToFiles"] /\ op' = [op EXCEPT ![g] = "Run"] /\ fd' = fd
            /\ \E m : mode' = [mode EXCEPT ![g] = m]
         \/ /\ at' = [at EXCEPT ![g] = "forkExec"] /\ op' = [op EXCEPT ![g] = "ForkExec"]
            /\ mode' = mode /\ \E list \in FdLists : fd' = [fd EXCEPT ![g] = list]
         \/ /\ at' = [at EXCEPT ![g] = "open"] /\ op' = [op EXCEPT ![g] = "socket"]
            /\ fd' = fd /\ mode' = mode
  BY Zenon DEF Calling, Run, OsForkExec, Socket, Step, vars, kernel
<1>2. Frame(g)
  BY Zenon, <1>1 DEF Frame, KInv, KTypes
<1>3. op[g] = "none" /\ fd[g] = <<>> /\ cmd[g] = <<>> /\ p[g] = <<>>
  <2>1. op[g] = "none" /\ fd[g] = <<>> /\ cmd[g] = <<>>
    BY <1>1 DEF KInv, Place, Opening, Forking, Failing
  <2>2. p[g] = <<>>
    BY <1>1 DEF KInv, Ends, Making, Status
  <2> QED BY <2>1, <2>2
<1>4. \A n \in Fds : tab[n][1] # g
  <2>1. \A n : ~Handle(g, n)
    BY <1>3 DEF Handle, ChildEnds, CmdEnds, Range
  <2> QED BY Zenon, <2>1 DEF KInv, Owns
<1>5. Owns(g)'
  BY Zenon, <1>1, <1>4 DEF Owns
<1>6. /\ cmd'[g] = <<>> /\ p'[g] = <<>>
      /\ \/ at'[g] = "modeToFiles" /\ op'[g] = "Run" /\ fd'[g] = <<>>
         \/ at'[g] = "forkExec" /\ op'[g] = "ForkExec" /\ fd'[g] \in FdLists
         \/ at'[g] = "open" /\ op'[g] = "socket" /\ fd'[g] = <<>>
  BY Zenon, <1>1, <1>3 DEF KInv, KTypes
<1>7. Ends(g)'
  BY <1>6 DEF Ends, Making, Status
<1>8. Place(g)'
  <2>1. CASE at'[g] = "modeToFiles" /\ op'[g] = "Run" /\ fd'[g] = <<>>
    <3>1. /\ fd'[g] \in Seq(Int) /\ cmd'[g] \in Seq(Int) /\ Len(cmd'[g]) = Len(fd'[g])
          /\ Len(fd'[g]) = 0 /\ Len(fd'[g]) < 3 /\ Len(fd'[g]) <= 3
          /\ \A j \in 1..Len(fd'[g]) : FALSE
      BY <1>6, <2>1
    <3>2. at'[g] \notin Forking /\ at'[g] \notin Opening
      BY <2>1 DEF Forking, Opening
    <3> QED BY Zenon, <2>1, <3>1, <3>2 DEF Place
  <2>2. CASE at'[g] = "forkExec" /\ op'[g] = "ForkExec" /\ fd'[g] \in FdLists
    BY Zenon, <1>6, <2>2 DEF Place, Forking, Failing
  <2>3. CASE at'[g] = "open" /\ op'[g] = "socket" /\ fd'[g] = <<>>
    BY Zenon, <1>6, <2>3 DEF Place, Opening, Failing
  <2> QED BY Zenon, <1>6, <2>1, <2>2, <2>3
<1> QED BY Zenon, OwnStep, <1>2, <1>5, <1>7, <1>8
-----------------------------------------------------------------------------
\* The kernel hands out the lowest free descriptors.
LEMMA Least ==
    ASSUME NEW S \in SUBSET Nat, S # {} PROVE \E n \in S : \A m \in S : n <= m
<1>1. PICK R : R = OpToRel(<, Nat)
  BY Zenon
<1>2. IsWellFoundedOn(R, Nat)
  BY Zenon, <1>1, NatLessThanWellFounded
<1>3. PICK n \in S : \A m \in S : ~(<<m, n>> \in R)
  BY Zenon, <1>2, WFMin
<1>4. ASSUME NEW m \in S PROVE n <= m
  <2>1. m \in Nat /\ n \in Nat /\ ~(<<m, n>> \in R)
    BY <1>3
  <2>2. m < n => <<m, n>> \in R
    BY <1>1, <2>1 DEF OpToRel
  <2> QED BY <2>1, <2>2
<1> QED BY Zenon, <1>4

LEMMA LowestIs ==
    ASSUME NEW S \in SUBSET Fds, S # {}
    PROVE  Lowest(S) \in S /\ \A m \in S : Lowest(S) <= m
<1>1. S \in SUBSET Nat
  BY ForkAssumption DEF Fds
<1>2. \E n \in S : \A m \in S : n <= m
  BY Zenon, <1>1, Least
<1> QED BY Zenon, <1>2 DEF Lowest

LEMMA FreeIs ==
    ASSUME KTypes
    PROVE  /\ Free \subseteq Fds
           /\ \A n \in Free : tab[n] = NoFile /\ n \in Int /\ n >= 3
<1>1. Free \subseteq Fds /\ \A n \in Free : tab[n] = NoFile
  BY DEF Free
<1>2. \A n \in Fds : n \in Int /\ (n >= 3 \/ n \in 0..2)
  BY ForkAssumption DEF Fds
<1>3. \A n \in 0..2 : tab[n] # NoFile
  <2> SUFFICES ASSUME NEW n \in 0..2 PROVE tab[n] # NoFile
    BY Zenon
  <2>1. tab[n] = Std(n)
    BY Zenon DEF KTypes
  <2>2. tab[n][1] = "std" /\ NoFile[1] = "none"
    BY <2>1 DEF Std, NoFile
  <2> QED BY Zenon, <2>2
<1> QED BY Zenon, <1>1, <1>2, <1>3

LEMMA AllocOne ==
    ASSUME KTypes, HasFree(1)
    PROVE  \E a \in Fds : Alloc(1) = <<a>> /\ Lowest(Free) = a /\ tab[a] = NoFile
<1>1. Free # {} /\ Free \in SUBSET Fds
  BY FreeIs DEF HasFree
<1>2. Lowest(Free) \in Free
  BY Zenon, <1>1, LowestIs
<1>3. Alloc(1) = <<Lowest(Free)>>
  BY DEF Alloc
<1> QED BY Zenon, <1>2, <1>3, FreeIs

LEMMA AllocTwo ==
    ASSUME KTypes, HasFree(2)
    PROVE  \E a, b \in Fds : /\ Alloc(2) = <<a, b>> /\ a # b /\ tab[a] = NoFile /\ tab[b] = NoFile
                             /\ b >= 4
<1>1. PICK a : a = Lowest(Free)
  OBVIOUS
<1>2. PICK b : b = Lowest(Free \ {a})
  OBVIOUS
<1>3. Free # {} /\ Free \ {a} # {} /\ Free \in SUBSET Fds /\ Free \ {a} \in SUBSET Fds
  BY <1>1, FreeIs DEF HasFree
<1>4. a \in Free /\ \A m \in Free : a <= m
  BY Zenon, <1>1, <1>3, LowestIs
<1>5. b \in Free \ {a}
  BY Zenon, <1>2, <1>3, LowestIs
<1>6. a <= b /\ a # b
  BY Zenon, <1>4, <1>5
<1>7. /\ a \in Fds /\ b \in Fds /\ tab[a] = NoFile /\ tab[b] = NoFile
      /\ a \in Int /\ b \in Int /\ a >= 3
  BY Zenon, <1>4, <1>5, FreeIs
<1>8. b >= 4
  BY <1>6, <1>7
<1>9. Alloc(2) = <<a, b>>
  BY <1>1, <1>2 DEF Alloc
<1> QED BY Zenon, <1>6, <1>7, <1>8, <1>9
-----------------------------------------------------------------------------
\* What g has for its streams stays, if none of its descriptors change.
LEMMA StreamStays ==
    ASSUME NEW g \in G, NEW j, Stream(g, j),
           \A n \in Fds : tab[n][1] = g => tab'[n] = tab[n],
           mode'[g][j] = mode[g][j], cmd'[g][j] = cmd[g][j], fd'[g][j] = fd[g][j],
           j = 3 => fd'[g][2] = fd[g][2],
           at[g] # "running", at'[g] # "running"
    PROVE  Stream(g, j)'
<1>1. \A n \in Fds : \A i, kind : tab[n] = File(g, i, kind) => tab'[n] = tab[n]
  <2> SUFFICES ASSUME NEW n \in Fds, NEW i, NEW kind, tab[n] = File(g, i, kind)
               PROVE  tab'[n] = tab[n]
    BY Zenon
  <2>1. tab[n][1] = g
    BY DEF File
  <2> QED BY Zenon, <2>1
<1>2. CASE mode[g][j] = "DevNull"
  BY Zenon, <1>1, <1>2 DEF Stream
<1>3. CASE mode[g][j] = "PassThrough"
  BY Zenon, <1>3 DEF Stream
<1>4. CASE mode[g][j] = "MergeWithStdout"
  BY Zenon, <1>4 DEF Stream
<1>5. CASE mode[g][j] = "Pipe"
  BY ZenonT(60), <1>1, <1>5 DEF Stream
<1> QED BY Zenon, <1>2, <1>3, <1>4, <1>5 DEF Stream

\* The descriptors d that g makes for stream i, on its way to `to'.
NewEnds(g, i, d, a, b, from, to) ==
    \/ d = <<a>> /\ b = a /\ op[g] = "socket" /\ from = "create" /\ to = "mark" /\ i = 4
    \/ /\ d = <<a, b>> /\ a # b /\ b >= 4
       /\ \/ op[g] = "Run" /\ from = "create" /\ to = "mark" /\ i = Len(fd[g])
          \/ from = "pipe" /\ to = "fcntl" /\ i = 3

\* New descriptors of g were nobody's; they are in p.
LEMMA MadeKInv ==
    ASSUME KInv, NEW g \in G, NEW i, NEW d, Made(g, i, d), NEW from, NEW to, Step(g, from, to),
           pc' = pc, op' = op, mode' = mode, fd' = fd, cmd' = cmd, child' = child,
           NEW a \in Fds, NEW b \in Fds, tab[a] = NoFile, tab[b] = NoFile,
           NewEnds(g, i, d, a, b, from, to)
    PROVE  KInv'
<1>0. \/ d = <<a>> /\ b = a /\ op[g] = "socket" /\ from = "create" /\ to = "mark" /\ i = 4
      \/ /\ d = <<a, b>> /\ a # b /\ b >= 4
         /\ \/ op[g] = "Run" /\ from = "create" /\ to = "mark" /\ i = Len(fd[g])
            \/ from = "pipe" /\ to = "fcntl" /\ i = 3
  BY Zenon DEF NewEnds
<1>1. /\ DOMAIN at' = G /\ at[g] = from /\ at'[g] = to /\ \A x \in G : x # g => at'[x] = at[x]
  BY Zenon DEF Step, KInv, KTypes
<1>2. /\ DOMAIN p' = G /\ p'[g] = d /\ (\A x \in G : x # g => p'[x] = p[x])
      /\ DOMAIN tab' = Fds /\ \A n \in Fds : n # a /\ n # b => tab'[n] = tab[n]
  BY <1>0 DEF Made, KInv, KTypes
<1>3. /\ d = <<a>> => tab'[a] = File(g, 4, "socket") /\ a = b
      /\ d = <<a, b>> /\ a # b => tab'[a] = File(g, i, "r") /\ tab'[b] = File(g, i, "w")
  BY <1>0 DEF Made
<1>4. d = <<a>> \/ (d = <<a, b>> /\ a # b)
  BY <1>0
<1>5. tab'[a][1] = g /\ tab'[b][1] = g /\ tab[a][1] = "none" /\ tab[b][1] = "none"
  <2>1. NoFile[1] = "none"
    BY Zenon DEF NoFile
  <2>2. CASE d = <<a>>
    BY <1>3, <2>1, <2>2 DEF File
  <2>3. CASE d = <<a, b>> /\ a # b
    BY <1>3, <2>1, <2>3 DEF File
  <2> QED BY <1>4, <2>2, <2>3
<1>6. \A n \in Fds : tab[n][1] = g => tab'[n] = tab[n]
  BY Zenon, <1>2, <1>5, FileOwner
<1>7. p[g] = <<>> /\ at[g] # "running" /\ at'[g] # "running" /\ at'[g] # "read" /\ at[g] # "read"
  BY <1>0, <1>1 DEF KInv, Ends, Making, Status
<1>8. Frame(g)
  <2>1. \A n \in 0..2 : tab'[n] = Std(n)
    <3>1. \A n \in 0..2 : n \in Fds /\ tab[n] = Std(n) /\ n # a /\ n # b
      <4>1. \A n \in 0..2 : tab[n][1] = "std"
        BY DEF KInv, KTypes, Std
      <4>2. \A n \in 0..2 : n \in Fds
        BY ForkAssumption DEF Fds
      <4> QED BY Zenon, <1>5, <4>1, <4>2 DEF KInv, KTypes
    <3> QED BY Zenon, <1>2, <3>1
  <2>2. KTypes'
    BY Zenon, <1>1, <1>2, <2>1 DEF KInv, KTypes
  <2> QED BY Zenon, <1>1, <1>2, <1>5, <2>2 DEF Frame
<1>9. Range(d) = {a, b}
  BY <1>4, <1>3 DEF Range
<1>10. Owns(g)'
  <2>1. ChildEnds(g)' = ChildEnds(g) /\ CmdEnds(g)' = CmdEnds(g)
    BY Zenon DEF ChildEnds, CmdEnds
  <2>2. Range(<<>>) = {}
    BY DEF Range
  <2> SUFFICES ASSUME NEW n \in Fds, tab'[n][1] = g PROVE Handle(g, n)'
    BY Zenon DEF Owns
  <2>3. CASE n = a \/ n = b
    BY Zenon, <1>2, <1>7, <1>9, <2>3 DEF Handle
  <2>4. CASE n # a /\ n # b
    <3>1. Handle(g, n)
      BY Zenon, <1>2, <2>4 DEF KInv, Owns
    <3> QED BY Zenon, <1>7, <2>1, <2>2, <3>1 DEF Handle
  <2> QED BY Zenon, <2>3, <2>4
<1>11. Ends(g)'
  <2>1. CASE d = <<a>>
    <3>1. at'[g] = "mark" /\ op'[g] = "socket" /\ p'[g] = <<a>> /\ p'[g][1] = a
      BY <1>0, <1>1, <1>2, <2>1
    <3>2. p'[g] = <<p'[g][1]>> /\ p'[g][1] \in Fds /\ tab'[p'[g][1]] = File(g, 4, "socket")
      BY Zenon, <1>3, <2>1, <3>1
    <3> QED BY <3>1, <3>2 DEF Ends, Making, Status
  <2>2. CASE d = <<a, b>> /\ a # b
    <3>1. p'[g] = <<a, b>> /\ p'[g][1] = a /\ p'[g][2] = b /\ b >= 4
      BY <1>0, <1>2, <2>2
    <3>2. PipeEnds(g, i)'
      BY Zenon, <1>3, <2>2, <3>1 DEF PipeEnds
    <3>3. \/ at'[g] = "mark" /\ op'[g] = "Run" /\ i = Len(fd'[g])
          \/ at'[g] = "fcntl" /\ i = 3
      BY <1>0, <1>1, <2>2
    <3>4. CASE at'[g] = "mark" /\ op'[g] = "Run" /\ i = Len(fd'[g])
      BY <3>2, <3>4 DEF Ends, Making, Status
    <3>5. CASE at'[g] = "fcntl" /\ i = 3
      BY <3>2, <3>5 DEF Ends, Making, Status
    <3> QED BY <3>3, <3>4, <3>5
  <2> QED BY <1>4, <2>1, <2>2
<1>12. Place(g)'
  <2>1. Place(g) /\ ((from = "create" /\ to = "mark") \/ (from = "pipe" /\ to = "fcntl"))
    BY Zenon, <1>0 DEF KInv
  <2>2. /\ to \in Opening <=> at[g] \in Opening
        /\ to \in Forking <=> at[g] \in Forking
        /\ to \notin Failing \cup {"modeToFiles", "idle"}
        /\ at[g] \notin Failing \cup {"modeToFiles", "idle"}
    BY <1>1, <2>1 DEF Opening, Forking, Failing
  <2>3. \A j : Stream(g, j) => Stream(g, j)'
    BY Zenon, <1>6, <1>7, StreamStays
  <2>4. CASE op[g] = "Run"
    BY Zenon, <1>1, <2>1, <2>2, <2>3, <2>4 DEF Place
  <2>5. CASE op[g] # "Run"
    BY Zenon, <1>1, <2>1, <2>2, <2>5 DEF Place
  <2> QED BY Zenon, <2>4, <2>5
<1> QED BY Zenon, OwnStep, <1>8, <1>10, <1>11, <1>12

LEMMA CreateKInv ==
    ASSUME KInv, NEW g \in G, Create(g) PROVE KInv'
<1>1. /\ pc' = pc /\ op' = op /\ mode' = mode /\ fd' = fd /\ cmd' = cmd /\ child' = child
      /\ pc[g] = "reading"
  BY Zenon DEF Create, vars
<1>2. op[g] \in {"Run", "socket"} \/ ~(at[g] = "create")
  BY DEF KInv, Place, Forking, Failing
<1>3. CASE (Step(g, "create", "failed") \/ Step(g, "create", "eagain")) /\ UNCHANGED <<p, tab>>
  <2>1. Shift(g, "failed") \/ Shift(g, "eagain")
    BY Zenon, <1>1, <1>3 DEF Step, Shift, KInv, KTypes
  <2> QED BY Zenon, <2>1, ShiftKeeps
<1>4. CASE /\ op[g] = "Run" /\ HasFree(2) /\ Step(g, "create", "mark")
           /\ Made(g, Len(fd[g]), Alloc(2))
  <2>1. PICK a, b \in Fds : /\ Alloc(2) = <<a, b>> /\ a # b /\ tab[a] = NoFile /\ tab[b] = NoFile
                            /\ b >= 4
    BY Zenon, <1>4, AllocTwo DEF KInv
  <2>2. Made(g, Len(fd[g]), <<a, b>>) /\ NewEnds(g, Len(fd[g]), <<a, b>>, a, b, "create", "mark")
    BY Zenon, <1>4, <2>1 DEF NewEnds
  <2> QED BY Zenon, <1>1, <1>4, <2>1, <2>2, MadeKInv
<1>5. CASE /\ op[g] = "socket" /\ HasFree(1) /\ Step(g, "create", "mark") /\ Made(g, 4, Alloc(1))
  <2>1. PICK a \in Fds : Alloc(1) = <<a>> /\ tab[a] = NoFile
    BY Zenon, <1>5, AllocOne DEF KInv
  <2>2. Made(g, 4, <<a>>) /\ NewEnds(g, 4, <<a>>, a, a, "create", "mark")
    BY Zenon, <1>5, <2>1 DEF NewEnds
  <2> QED BY Zenon, <1>1, <1>5, <2>1, <2>2, MadeKInv
<1>6. at[g] = "create"
  BY Zenon DEF Create, Step
<1>7. op[g] = "Run" \/ (op[g] = "socket" /\ op[g] # "Run")
  BY <1>2, <1>6
<1> QED BY Zenon, <1>3, <1>4, <1>5, <1>7 DEF Create

LEMMA StatusPipeKInv ==
    ASSUME KInv, NEW g \in G, StatusPipe(g) PROVE KInv'
<1>1. pc' = pc /\ op' = op /\ mode' = mode /\ fd' = fd /\ cmd' = cmd /\ child' = child
  BY Zenon DEF StatusPipe, vars
<1>2. CASE Step(g, "pipe", "failed") /\ UNCHANGED <<p, tab>>
  <2>1. Shift(g, "failed")
    BY Zenon, <1>1, <1>2 DEF Step, Shift, KInv, KTypes
  <2> QED BY Zenon, <2>1, ShiftKeeps
<1>3. CASE HasFree(2) /\ Step(g, "pipe", "fcntl") /\ Made(g, 3, Alloc(2))
  <2>1. PICK a, b \in Fds : /\ Alloc(2) = <<a, b>> /\ a # b /\ tab[a] = NoFile /\ tab[b] = NoFile
                            /\ b >= 4
    BY Zenon, <1>3, AllocTwo DEF KInv
  <2>2. Made(g, 3, <<a, b>>) /\ NewEnds(g, 3, <<a, b>>, a, b, "pipe", "fcntl")
    BY Zenon, <1>3, <2>1 DEF NewEnds
  <2> QED BY Zenon, <1>1, <1>3, <2>1, <2>2, MadeKInv
<1> QED BY Zenon, <1>2, <1>3 DEF StatusPipe

LEMMA RunHas ==
    ASSUME KInv, NEW g \in G, op[g] = "Run"
    PROVE  /\ fd[g] \in Seq(Int) /\ cmd[g] \in Seq(Int) /\ Len(cmd[g]) = Len(fd[g])
           /\ Len(fd[g]) <= 3
           /\ at[g] \in Opening \cup {"modeToFiles"} => Len(fd[g]) < 3
           /\ at[g] \in Opening => mode[g][Len(fd[g]) + 1] = "Pipe"
           /\ at[g] \in Forking => Len(fd[g]) = 3
           /\ \A j \in 1..Len(fd[g]) : Stream(g, j)
           /\ DOMAIN fd[g] = 1..Len(fd[g]) /\ DOMAIN cmd[g] = 1..Len(fd[g])
<1>1. Place(g)
  BY Zenon DEF KInv
<1>2. fd[g] \in Seq(Int) /\ cmd[g] \in Seq(Int) /\ Len(cmd[g]) = Len(fd[g])
  BY Zenon, <1>1 DEF Place
<1>3. DOMAIN fd[g] = 1..Len(fd[g]) /\ DOMAIN cmd[g] = 1..Len(fd[g])
  BY <1>2
<1> QED BY Zenon, <1>1, <1>2, <1>3 DEF Place

-----------------------------------------------------------------------------
\* The step gives stream n (from 0) the files own and kept.
Gains(g, own, kept, n) ==
    /\ op[g] = "Run" /\ at[g] \in {"modeToFiles", "opened"} /\ n = Len(fd[g])
    /\ op' = op /\ mode' = mode /\ p'[g] = <<>> /\ Stream(g, n + 1)'
    /\ \A m \in Fds : tab[m][1] = g => tab'[m] = tab[m]
    /\ \A m \in Fds : tab'[m][1] = g =>
          \/ m \in ChildEnds(g) \/ m \in CmdEnds(g) \/ m = kept
          \/ m = own /\ mode[g][n + 1] \in {"DevNull", "Pipe"}

\* One stream more has its files.
LEMMA ChosenKInv ==
    ASSUME KInv, NEW g \in G, NEW own \in Int, NEW kept \in Int, Chosen(g, own, kept),
           Frame(g), NEW n, Gains(g, own, kept, n)
    PROVE  KInv'
<1>1. /\ op[g] = "Run" /\ at[g] \in {"modeToFiles", "opened"} /\ n = Len(fd[g])
      /\ op' = op /\ mode' = mode /\ p'[g] = <<>> /\ Stream(g, n + 1)'
      /\ \A m \in Fds : tab[m][1] = g => tab'[m] = tab[m]
      /\ \A m \in Fds : tab'[m][1] = g =>
            \/ m \in ChildEnds(g) \/ m \in CmdEnds(g) \/ m = kept
            \/ m = own /\ mode[g][n + 1] \in {"DevNull", "Pipe"}
  BY Zenon DEF Gains
<1> USE <1>1
<1>2. PICK f, c : f = fd[g] /\ c = cmd[g]
  OBVIOUS
<1>3. /\ f \in Seq(Int) /\ c \in Seq(Int) /\ Len(c) = n /\ Len(f) = n /\ n \in 0..2
      /\ \A j \in 1..n : Stream(g, j)
  <2>1. Len(fd[g]) \in Nat /\ Len(fd[g]) < 3
    <3>1. at[g] \in Opening \cup {"modeToFiles"}
      BY DEF Opening
    <3> QED BY <3>1, RunHas
  <2>2. n \in Nat /\ n < 3
    BY Zenon, <2>1
  <2>3. n \in 0..2
    BY ONLY <2>2
  <2> QED BY Zenon, <1>2, <2>3, RunHas
<1>4. PICK ff, cc : ff = Append(f, own) /\ cc = Append(c, kept)
  BY Zenon
<1>5. /\ ff \in Seq(Int) /\ cc \in Seq(Int) /\ Len(ff) = n + 1 /\ Len(cc) = n + 1
      /\ ff[n + 1] = own /\ cc[n + 1] = kept
      /\ \A j \in 1..n : ff[j] = f[j] /\ cc[j] = c[j]
      /\ DOMAIN f = 1..n /\ DOMAIN c = 1..n /\ DOMAIN ff = 1..(n + 1) /\ DOMAIN cc = 1..(n + 1)
  BY <1>3, <1>4
<1>6. /\ fd'[g] = ff /\ cmd'[g] = cc
      /\ at'[g] = IF n = 2 THEN "forkExec" ELSE "modeToFiles"
  BY Zenon, <1>2, <1>4 DEF Chosen, KInv, KTypes
<1>7. at[g] # "running" /\ at'[g] # "running"
  BY <1>6
<1>8. ASSUME NEW j \in 1..n PROVE Stream(g, j)'
  <2>1. /\ Stream(g, j) /\ fd'[g][j] = fd[g][j] /\ cmd'[g][j] = cmd[g][j]
        /\ j = 3 => fd'[g][2] = fd[g][2]
    BY <1>2, <1>3, <1>5, <1>6
  <2> QED BY Zenon, <1>7, <2>1, StreamStays
<1>9. \A j \in 1..(n + 1) : Stream(g, j)'
  <2>1. \A j \in 1..(n + 1) : j \in 1..n \/ j = n + 1
    BY <1>3
  <2> QED BY Zenon, <1>8, <2>1
<1>10. Place(g)'
  <2>1. /\ n + 1 <= 3 /\ at'[g] \in Forking \cup {"modeToFiles"} /\ at'[g] \notin Opening
        /\ at'[g] = "modeToFiles" => n + 1 < 3
        /\ at'[g] \in Forking => n + 1 = 3
    <3>1. n \in {0, 1, 2}
      BY ONLY <1>3
    <3>2. CASE n = 2
      BY ONLY <1>6, <3>2 DEF Forking, Opening
    <3>3. CASE n \in {0, 1}
      BY ONLY <1>6, <3>3 DEF Forking, Opening
    <3> QED BY Zenon, <3>1, <3>2, <3>3
  <2> QED BY Zenon, <1>5, <1>6, <1>9, <2>1 DEF Place
<1>11. Ends(g)'
  BY <1>6 DEF Ends, Making, Status
<1>12. Owns(g)'
  <2> SUFFICES ASSUME NEW m \in Fds, tab'[m][1] = g PROVE Handle(g, m)'
    BY Zenon DEF Owns
  <2>1. m # -1
    BY ForkAssumption DEF Fds
  <2>2. \A j \in 1..n : j \in 1..(n + 1)
    BY <1>3
  <2>3. n + 1 \in 1..(n + 1)
    BY <1>3
  <2>4. CASE m \in ChildEnds(g)
    <3>0. PICK j \in DOMAIN fd[g] : mode[g][j] \in {"DevNull", "Pipe"} /\ m = fd[g][j]
      BY <2>4 DEF ChildEnds
    <3>1. j \in 1..n /\ mode[g][j] \in {"DevNull", "Pipe"} /\ m = f[j]
      BY Zenon, <1>2, <1>5, <3>0
    <3>2. m \in ChildEnds(g)'
      BY Zenon, <1>5, <1>6, <2>2, <3>1 DEF ChildEnds
    <3> QED BY Zenon, <1>7, <3>2 DEF Handle
  <2>5. CASE m \in CmdEnds(g)
    <3>0. PICK j \in DOMAIN cmd[g] : m = cmd[g][j]
      BY <2>5 DEF CmdEnds, Range
    <3>1. j \in 1..n /\ m = c[j]
      BY Zenon, <1>2, <1>5, <3>0
    <3>2. m \in CmdEnds(g)'
      BY Zenon, <1>5, <1>6, <2>1, <2>2, <3>1 DEF CmdEnds, Range
    <3> QED BY Zenon, <3>2 DEF Handle
  <2>6. CASE m = kept
    <3>1. m \in CmdEnds(g)'
      BY Zenon, <1>5, <1>6, <2>1, <2>3, <2>6 DEF CmdEnds, Range
    <3> QED BY Zenon, <3>1 DEF Handle
  <2>7. CASE m = own /\ mode[g][n + 1] \in {"DevNull", "Pipe"}
    <3>1. m \in ChildEnds(g)'
      BY SMTT(30), <1>5, <1>6, <2>3, <2>7 DEF ChildEnds
    <3> QED BY Zenon, <1>7, <3>1 DEF Handle
  <2> QED BY Zenon, <2>4, <2>5, <2>6, <2>7
<1> QED BY Zenon, OwnStep, <1>10, <1>11, <1>12

\* Run has the files of n streams.
HasStreams(g, n) ==
    /\ n \in 0..2 /\ Len(fd[g]) = n /\ Len(cmd[g]) = n
    /\ fd[g] \in Seq(Int) /\ cmd[g] \in Seq(Int)

\* The step has appended own and kept.
Appended(g, own, kept, n) ==
    /\ fd'[g][n + 1] = own /\ cmd'[g][n + 1] = kept /\ at'[g] # "running"
    /\ n = 2 => fd'[g][2] = fd[g][2]

LEMMA ChosenHas ==
    ASSUME KInv, NEW g \in G, NEW own \in Int, NEW kept \in Int, Chosen(g, own, kept),
           NEW n, HasStreams(g, n)
    PROVE  Appended(g, own, kept, n)
<1>1. /\ fd'[g] = Append(fd[g], own) /\ cmd'[g] = Append(cmd[g], kept)
      /\ at'[g] \in {"forkExec", "modeToFiles"}
  BY Zenon DEF Chosen, KInv, KTypes
<1>2. /\ n \in 0..2 /\ Len(fd[g]) = n /\ Len(cmd[g]) = n
      /\ fd[g] \in Seq(Int) /\ cmd[g] \in Seq(Int)
  BY Zenon DEF HasStreams
<1> QED BY <1>1, <1>2 DEF Appended

LEMMA ChosenFrame ==
    ASSUME KInv, NEW g \in G, NEW own, NEW kept, Chosen(g, own, kept),
           pc' = pc, op' = op, mode' = mode, child' = child,
           DOMAIN p' = G, \A x \in G : x # g => p'[x] = p[x],
           DOMAIN tab' = Fds,
           \A n \in Fds : tab'[n] # tab[n] => tab[n][1] = "none" /\ tab'[n][1] = g
    PROVE  Frame(g)
<1>1. /\ DOMAIN fd' = G /\ DOMAIN cmd' = G /\ DOMAIN at' = G
      /\ \A x \in G : x # g => fd'[x] = fd[x] /\ cmd'[x] = cmd[x] /\ at'[x] = at[x]
  BY Zenon DEF Chosen, KInv, KTypes
<1>2. \A n \in 0..2 : tab'[n] = Std(n)
  <2>1. \A n \in 0..2 : tab[n][1] = "std"
    BY DEF KInv, KTypes, Std
  <2>2. \A n \in 0..2 : n \in Fds
    BY ForkAssumption DEF Fds
  <2> QED BY Zenon, <2>1, <2>2 DEF KInv, KTypes
<1>3. KTypes'
  BY Zenon, <1>1, <1>2 DEF KInv, KTypes
<1> QED BY Zenon, <1>1, <1>3 DEF Frame

LEMMA modeToFilesKInv ==
    ASSUME KInv, NEW g \in G, modeToFiles(g) PROVE KInv'
<1>1. PICK n : n = Len(fd[g])
  BY Zenon
<1>2. PICK m : m = mode[g][n + 1]
  OBVIOUS
<1>3. /\ at[g] = "modeToFiles" /\ pc' = pc /\ op' = op /\ mode' = mode /\ p' = p /\ child' = child
  BY Zenon DEF modeToFiles, vars
<1>4. \/ /\ m = "DevNull" /\ HasFree(1) /\ Chosen(g, Lowest(Free), -1)
         /\ tab' = [tab EXCEPT ![Lowest(Free)] = File(g, n, "null")]
      \/ m = "PassThrough" /\ Chosen(g, n, -1) /\ tab' = tab
      \/ m = "MergeWithStdout" /\ n = 2 /\ Chosen(g, fd[g][2], -1) /\ tab' = tab
      \/ Step(g, "modeToFiles", "error") /\ fd' = fd /\ cmd' = cmd /\ tab' = tab
      \/ m = "Pipe" /\ Step(g, "modeToFiles", "open") /\ fd' = fd /\ cmd' = cmd /\ tab' = tab
  BY Zenon, <1>1, <1>2 DEF modeToFiles
<1>5. op[g] = "Run" /\ p[g] = <<>> /\ p'[g] = <<>>
  <2>1. op[g] = "Run"
    BY <1>3 DEF KInv, Place, Opening, Forking, Failing
  <2>2. p[g] = <<>>
    BY <1>3 DEF KInv, Ends, Making, Status
  <2> QED BY <1>3, <2>1, <2>2
<1>6. /\ n \in 0..2 /\ fd[g] \in Seq(Int) /\ cmd[g] \in Seq(Int) /\ Len(cmd[g]) = n /\ Len(fd[g]) = n
      /\ HasStreams(g, n)
  <2>1. Len(fd[g]) \in Nat /\ Len(fd[g]) < 3
    <3>1. at[g] \in Opening \cup {"modeToFiles"}
      BY Zenon, <1>3
    <3> QED BY <1>5, <3>1, RunHas
  <2>2. n \in Nat /\ n < 3
    BY Zenon, <1>1, <2>1
  <2>3. n \in 0..2
    BY ONLY <2>2
  <2> QED BY Zenon, <1>1, <1>5, <2>3, RunHas DEF HasStreams
<1>13. HasStreams(g, n)
  BY Zenon, <1>6
<1>7. \A k \in Fds : tab[k][1] = g => k \in ChildEnds(g) \/ k \in CmdEnds(g)
  <2>1. Range(<<>>) = {}
    BY DEF Range
  <2> QED BY Zenon, <1>5, <2>1 DEF KInv, Owns, Handle
<1>8. CASE /\ m = "DevNull" /\ HasFree(1) /\ Chosen(g, Lowest(Free), -1)
           /\ tab' = [tab EXCEPT ![Lowest(Free)] = File(g, n, "null")]
  <2>1. PICK a \in Fds : Lowest(Free) = a /\ tab[a] = NoFile
    BY Zenon, <1>8, AllocOne DEF KInv
  <2>2. /\ Chosen(g, a, -1) /\ DOMAIN tab' = Fds /\ tab'[a] = File(g, n, "null")
        /\ \A k \in Fds : k # a => tab'[k] = tab[k]
    BY Zenon, <1>8, <2>1 DEF KInv, KTypes
  <2>3. tab[a][1] = "none" /\ tab'[a][1] = g
    <3>1. File(g, n, "null")[1] = g /\ NoFile[1] = "none"
      BY DEF File, NoFile
    <3> QED BY Zenon, <2>1, <2>2, <3>1
  <2>4. Frame(g)
    <3>1. \A k \in Fds : tab'[k] # tab[k] => tab[k][1] = "none" /\ tab'[k][1] = g
      BY Zenon, <2>2, <2>3
    <3> QED BY Zenon, <1>3, <2>2, <3>1, ChosenFrame DEF KInv, KTypes
  <2>6. a \in Int /\ -1 \in Int
    BY ForkAssumption DEF Fds
  <2>5. Stream(g, n + 1)'
    <3>1. fd'[g][n + 1] = a /\ cmd'[g][n + 1] = -1 /\ at'[g] # "running" /\ mode'[g][n + 1] = "DevNull"
      <4>1. fd'[g][n + 1] = a /\ cmd'[g][n + 1] = -1 /\ at'[g] # "running"
        <5>1. Appended(g, a, -1, n)
          BY Zenon, <1>13, <2>2, <2>6, ChosenHas
        <5> QED BY Zenon, <5>1 DEF Appended
      <4> QED BY Zenon, <1>2, <1>3, <1>8, <4>1
    <3>2. (n + 1) - 1 = n
      BY <1>6
    <3> QED BY Zenon, <2>2, <3>1, <3>2 DEF Stream
  <2>7. \A k \in Fds : tab[k][1] = g => tab'[k] = tab[k]
    BY Zenon, <2>2, <2>3, FileOwner
  <2>8. \A k \in Fds : tab'[k][1] = g =>
           \/ k \in ChildEnds(g) \/ k \in CmdEnds(g) \/ k = -1
           \/ k = a /\ mode[g][n + 1] \in {"DevNull", "Pipe"}
    BY Zenon, <1>2, <1>7, <1>8, <2>2
  <2>9. Gains(g, a, -1, n)
    BY Zenon, <1>1, <1>3, <1>5, <2>5, <2>7, <2>8 DEF Gains
  <2> QED BY Zenon, <2>2, <2>4, <2>6, <2>9, ChosenKInv
<1>9. CASE \E own \in Int :
              /\ Chosen(g, own, -1) /\ tab' = tab
              /\ \/ m = "PassThrough" /\ own = n
                 \/ m = "MergeWithStdout" /\ n = 2 /\ own = fd[g][2]
  <2>1. PICK own \in Int :
              /\ Chosen(g, own, -1) /\ tab' = tab
              /\ \/ m = "PassThrough" /\ own = n
                 \/ m = "MergeWithStdout" /\ n = 2 /\ own = fd[g][2]
    BY Zenon, <1>9
  <2>2. Frame(g)
    BY Zenon, <1>3, <2>1, ChosenFrame DEF KInv, KTypes
  <2>5. -1 \in Int
    OBVIOUS
  <2>7. Appended(g, own, -1, n)
    BY Zenon, <1>13, <2>1, <2>5, ChosenHas
  <2>3. /\ fd'[g][n + 1] = own /\ cmd'[g][n + 1] = -1 /\ at'[g] # "running" /\ mode'[g][n + 1] = m
    <3>1. fd'[g][n + 1] = own /\ cmd'[g][n + 1] = -1 /\ at'[g] # "running"
      BY Zenon, <2>7 DEF Appended
    <3> QED BY Zenon, <1>2, <1>3, <3>1
  <2>4. Stream(g, n + 1)'
    <3>1. CASE m = "PassThrough" /\ own = n
      <4>1. (n + 1) - 1 = n
        BY <1>6
      <4> QED BY Zenon, <2>3, <3>1, <4>1 DEF Stream
    <3>2. CASE m = "MergeWithStdout" /\ n = 2 /\ own = fd[g][2]
      <4>1. n + 1 = 3
        BY <3>2
      <4>2. fd'[g][2] = fd[g][2]
        BY Zenon, <2>7, <3>2 DEF Appended
      <4> QED BY Zenon, <2>3, <3>2, <4>1, <4>2 DEF Stream
    <3> QED BY Zenon, <2>1, <3>1, <3>2
  <2>6. Gains(g, own, -1, n)
    BY Zenon, <1>1, <1>3, <1>5, <1>7, <2>1, <2>4 DEF Gains
  <2> QED BY Zenon, <2>1, <2>2, <2>5, <2>6, ChosenKInv
<1>10. CASE Step(g, "modeToFiles", "error") /\ fd' = fd /\ cmd' = cmd /\ tab' = tab
  <2>1. Shift(g, "error")
    BY Zenon, <1>3, <1>10 DEF Step, Shift, KInv, KTypes
  <2> QED BY Zenon, <2>1, ShiftKeeps
<1>11. CASE m = "Pipe" /\ Step(g, "modeToFiles", "open") /\ fd' = fd /\ cmd' = cmd /\ tab' = tab
  <2>1. Shift(g, "open")
    BY Zenon, <1>1, <1>2, <1>3, <1>11 DEF Step, Shift, KInv, KTypes
  <2> QED BY Zenon, <2>1, ShiftKeeps
<1>12. CASE \/ m = "PassThrough" /\ Chosen(g, n, -1) /\ tab' = tab
            \/ m = "MergeWithStdout" /\ n = 2 /\ Chosen(g, fd[g][2], -1) /\ tab' = tab
  <2>1. n \in Int /\ (n = 2 => fd[g][2] \in Int)
    BY <1>6
  <2> QED BY Zenon, <1>9, <1>12, <2>1
<1> QED BY Zenon, <1>4, <1>8, <1>10, <1>11, <1>12

LEMMA PipedKInv ==
    ASSUME KInv, NEW g \in G, Piped(g) PROVE KInv'
<1>1. PICK n : n = Len(fd[g])
  BY Zenon
<1>2. /\ at[g] = "opened" /\ op[g] = "Run" /\ pc' = pc /\ op' = op /\ mode' = mode
      /\ tab' = tab /\ child' = child /\ p' = [p EXCEPT ![g] = <<>>] /\ at[g] \in Opening
      /\ at[g] \in Making
  BY Zenon DEF Piped, vars, kernel, Opening, Making
<1>3. /\ n \in 0..2 /\ fd[g] \in Seq(Int) /\ cmd[g] \in Seq(Int) /\ Len(cmd[g]) = n /\ Len(fd[g]) = n
      /\ HasStreams(g, n)
  <2>1. Len(fd[g]) \in Nat /\ Len(fd[g]) < 3
    BY <1>2, RunHas
  <2>2. n \in Nat /\ n < 3
    BY Zenon, <1>1, <2>1
  <2>3. n \in 0..2
    BY ONLY <2>2
  <2> QED BY Zenon, <1>1, <1>2, <2>3, RunHas DEF HasStreams
<1>4. mode[g][n + 1] = "Pipe"
  BY Zenon, <1>1, <1>2, RunHas
<1>5. PICK a, b : a = p[g][1] /\ b = p[g][2]
  OBVIOUS
<1>6. /\ p[g] = <<a, b>> /\ a \in Fds /\ b \in Fds
      /\ tab[a] = File(g, n, "r") /\ tab[b] = File(g, n, "w")
  BY Zenon, <1>1, <1>2, <1>5 DEF KInv, Ends, PipeEnds
<1>7. /\ p'[g] = <<>> /\ DOMAIN p' = G /\ \A x \in G : x # g => p'[x] = p[x]
  BY Zenon, <1>2 DEF KInv, KTypes
<1>8. (n + 1) - 1 = n /\ n + 1 \in Nat /\ (n = 0 <=> n + 1 = 1) /\ (n = 0 <=> fd[g] = <<>>)
  BY <1>1, <1>3
<1>9. PICK own \in Fds, kept \in Fds :
         /\ Chosen(g, own, kept) /\ {own, kept} = {a, b}
         /\ tab[own] = File(g, n, Given(n + 1)) /\ tab[kept] = File(g, n, Kept(n + 1))
  <2>1. CASE n = 0
    <3>1. Chosen(g, a, b) /\ Given(n + 1) = "r" /\ Kept(n + 1) = "w"
      BY Zenon, <1>5, <1>8, <2>1 DEF Piped, Given, Kept
    <3> QED BY Zenon, <1>6, <3>1
  <2>2. CASE n # 0
    <3>1. Chosen(g, b, a) /\ Given(n + 1) = "w" /\ Kept(n + 1) = "r"
      BY Zenon, <1>5, <1>8, <2>2 DEF Piped, Given, Kept
    <3>2. {a, b} = {b, a}
      OBVIOUS
    <3> QED BY Zenon, <1>6, <3>1, <3>2
  <2> QED BY <2>1, <2>2
<1>10. own \in Int /\ kept \in Int
  BY ForkAssumption DEF Fds
<1>11. Frame(g)
  BY Zenon, <1>2, <1>7, <1>9, ChosenFrame DEF KInv, KTypes
<1>12. Stream(g, n + 1)'
  <2>1. fd'[g][n + 1] = own /\ cmd'[g][n + 1] = kept /\ mode'[g][n + 1] = "Pipe"
    <3>1. HasStreams(g, n)
      BY Zenon, <1>3
    <3>2. fd'[g][n + 1] = own /\ cmd'[g][n + 1] = kept
      <4>1. Appended(g, own, kept, n)
        BY Zenon, <1>9, <1>10, <3>1, ChosenHas
      <4> QED BY Zenon, <4>1 DEF Appended
    <3> QED BY Zenon, <1>2, <1>4, <3>2
  <2> QED BY Zenon, <1>2, <1>8, <1>9, <2>1 DEF Stream
<1>13. \A k \in Fds : tab'[k][1] = g =>
          \/ k \in ChildEnds(g) \/ k \in CmdEnds(g) \/ k = kept
          \/ k = own /\ mode[g][n + 1] \in {"DevNull", "Pipe"}
  <2>1. Range(p[g]) = {a, b}
    BY <1>6 DEF Range
  <2>2. \A k \in Fds : tab[k][1] = g => k \in ChildEnds(g) \/ k \in CmdEnds(g) \/ k \in {own, kept}
    BY Zenon, <1>9, <2>1 DEF KInv, Owns, Handle
  <2> QED BY Zenon, <1>2, <1>4, <2>2
<1>14. Gains(g, own, kept, n)
  BY Zenon, <1>1, <1>2, <1>7, <1>12, <1>13 DEF Gains
<1> QED BY Zenon, <1>9, <1>10, <1>11, <1>14, ChosenKInv
-----------------------------------------------------------------------------
\* What g holds it opened itself: each descriptor that it will close.
LEMMA ChildEndsAre ==
    ASSUME KInv, NEW g \in G, NEW n \in ChildEnds(g)
    PROVE  /\ n \in Fds
           /\ at[g] # "running" =>
                \E j \in 1..3 : tab[n] = File(g, j - 1, "null") \/ tab[n] = File(g, j - 1, Given(j))
<1>1. PICK j \in DOMAIN fd[g] : op[g] = "Run" /\ mode[g][j] \in {"DevNull", "Pipe"} /\ n = fd[g][j]
  BY DEF ChildEnds
<1>2. j \in 1..Len(fd[g]) /\ Stream(g, j)
  BY Zenon, <1>1, RunHas
<1>3. j \in 1..3
  BY <1>1, <1>2, RunHas
<1>4. mode[g][j] # "PassThrough" /\ mode[g][j] # "MergeWithStdout"
  BY <1>1
<1> QED BY Zenon, <1>1, <1>2, <1>3, <1>4 DEF Stream

LEMMA CmdEndsAre ==
    ASSUME KInv, NEW g \in G, NEW n \in CmdEnds(g)
    PROVE  n \in Fds /\ \E j \in 1..3 : tab[n] = File(g, j - 1, Kept(j))
<1>1. PICK j \in DOMAIN cmd[g] : n = cmd[g][j] /\ n # -1
  BY DEF CmdEnds, Range
<1>2. op[g] = "Run"
  <2>1. cmd[g] # <<>>
    BY <1>1
  <2> QED BY Zenon, <2>1 DEF KInv, Place
<1>3. j \in 1..Len(fd[g]) /\ Stream(g, j)
  BY Zenon, <1>1, <1>2, RunHas
<1>4. j \in 1..3
  BY <1>2, <1>3, RunHas
<1>5. j = 3 => cmd[g][j] = cmd[g][3]
  OBVIOUS
<1> QED BY Zenon, <1>1, <1>3, <1>4, <1>5 DEF Stream

LEMMA PEndsAre ==
    ASSUME KInv, NEW g \in G, NEW n \in Range(p[g]), at[g] = "read" => n = p[g][1]
    PROVE  /\ n \in Fds
           /\ at[g] \notin Making => tab[n] = File(g, 3, "r") \/ tab[n] = File(g, 3, "w")
           /\ tab[n][1] = g
<1>1. Ends(g)
  BY Zenon DEF KInv
<1>2. p[g] # <<>>
  BY DEF Range
<1>3. ASSUME NEW i, PipeEnds(g, i)
      PROVE  n \in Fds /\ (tab[n] = File(g, i, "r") \/ tab[n] = File(g, i, "w")) /\ tab[n][1] = g
  <2>1. n = p[g][1] \/ n = p[g][2]
    BY <1>3 DEF PipeEnds, Range
  <2>2. n \in Fds /\ (tab[n] = File(g, i, "r") \/ tab[n] = File(g, i, "w"))
    BY Zenon, <1>3, <2>1 DEF PipeEnds
  <2>3. tab[n][1] = g
    BY <2>2 DEF File
  <2> QED BY Zenon, <2>2, <2>3
<1>4. CASE at[g] \in Status \cup {"failed"}
  <2>1. PipeEnds(g, 3)
    BY Zenon, <1>1, <1>2, <1>4 DEF Ends
  <2> QED BY Zenon, <1>3, <2>1
<1>5. CASE at[g] = "read"
  <2>1. n \in Fds /\ tab[n] = File(g, 3, "r")
    BY Zenon, <1>1, <1>5 DEF Ends
  <2>2. tab[n][1] = g
    BY <2>1 DEF File
  <2> QED BY Zenon, <2>1, <2>2
<1>6. CASE at[g] \in Making
  <2>1. CASE op[g] = "Run"
    <3>1. PipeEnds(g, Len(fd[g]))
      BY Zenon, <1>1, <1>6, <2>1 DEF Ends
    <3> QED BY Zenon, <1>3, <1>6, <3>1
  <2>2. CASE op[g] = "socket"
    <3>1. p[g] = <<p[g][1]>> /\ p[g][1] \in Fds /\ tab[p[g][1]] = File(g, 4, "socket")
      BY Zenon, <1>1, <1>6, <2>2 DEF Ends
    <3>2. n = p[g][1]
      BY <3>1 DEF Range
    <3>3. tab[n][1] = g
      BY <3>1, <3>2 DEF File
    <3> QED BY Zenon, <1>6, <3>1, <3>2, <3>3
  <2>3. op[g] \in {"Run", "socket"}
    BY <1>6 DEF KInv, Place, Making, Forking, Failing
  <2> QED BY <2>1, <2>2, <2>3
<1> QED BY Zenon, <1>1, <1>2, <1>4, <1>5, <1>6 DEF Ends

LEMMA HandleMine ==
    ASSUME KInv, NEW g \in G, NEW n, Handle(g, n)
    PROVE  n \in Fds /\ tab[n][1] = g
<1>1. CASE at[g] # "running" /\ n \in ChildEnds(g)
  <2>1. n \in Fds /\ \E j, kind : tab[n] = File(g, j, kind)
    BY Zenon, <1>1, ChildEndsAre
  <2> QED BY <2>1 DEF File
<1>2. CASE n \in CmdEnds(g)
  <2>1. n \in Fds /\ \E j, kind : tab[n] = File(g, j, kind)
    BY Zenon, <1>2, CmdEndsAre
  <2> QED BY <2>1 DEF File
<1>3. CASE n \in Range(p[g]) /\ (at[g] = "read" => n = p[g][1])
  BY Zenon, <1>3, PEndsAre
<1> QED BY Zenon, <1>1, <1>2, <1>3 DEF Handle

\* g closes descriptors of its own.
LEMMA CloseTab ==
    ASSUME KInv, NEW g \in G, NEW S, CloseFds(S), \A n \in S : n \in Fds /\ tab[n][1] = g
    PROVE  /\ DOMAIN tab' = Fds
           /\ \A n \in Fds : n \notin S => tab'[n] = tab[n]
           /\ \A n \in S : tab'[n] = NoFile
           /\ \A n \in 0..2 : tab'[n] = Std(n)
           /\ \A n \in Fds : tab'[n] # tab[n] => tab[n][1] \in {g, "none"} /\ tab'[n][1] \in {g, "none"}
           /\ \A n \in Fds : tab'[n][1] = g => n \notin S /\ tab[n][1] = g
<1>1. /\ DOMAIN tab' = Fds
      /\ \A n \in Fds : n \notin S => tab'[n] = tab[n]
      /\ \A n \in S : tab'[n] = NoFile
  BY DEF CloseFds
<1>2. \A n \in 0..2 : tab'[n] = Std(n)
  <2>1. \A n \in 0..2 : tab[n][1] = "std"
    BY DEF KInv, KTypes, Std
  <2>2. \A n \in 0..2 : n \in Fds
    BY ForkAssumption DEF Fds
  <2>3. \A n \in 0..2 : n \notin S
    BY Zenon, <2>1, FileOwner
  <2> QED BY Zenon, <1>1, <2>2, <2>3 DEF KInv, KTypes
<1>3. NoFile[1] = "none"
  BY DEF NoFile
<1>4. g # "none"
  BY Zenon, FileOwner
<1>5. \A n \in Fds : tab'[n] # tab[n] => tab[n][1] \in {g, "none"} /\ tab'[n][1] \in {g, "none"}
  BY Zenon, <1>1, <1>3
<1>6. \A n \in Fds : tab'[n][1] = g => n \notin S /\ tab[n][1] = g
  BY Zenon, <1>1, <1>3, <1>4
<1> QED BY Zenon, <1>1, <1>2, <1>5, <1>6

\* A call that returns has closed whatever it had.
LEMMA ReturnKInv ==
    ASSUME KInv, NEW g \in G, NEW S, CloseFds(S), Return(g), pc' = pc,
           \A n : n \in S <=> Handle(g, n)
    PROVE  KInv'
<1>1. \A n \in S : n \in Fds /\ tab[n][1] = g
  BY Zenon, HandleMine
<1>2. /\ DOMAIN tab' = Fds /\ \A n \in 0..2 : tab'[n] = Std(n)
      /\ \A n \in Fds : tab'[n] # tab[n] => tab[n][1] \in {g, "none"} /\ tab'[n][1] \in {g, "none"}
      /\ \A n \in Fds : tab'[n][1] = g => n \notin S /\ tab[n][1] = g
  BY Zenon, <1>1, CloseTab
<1>3. /\ DOMAIN at' = G /\ at'[g] = "idle" /\ (\A x \in G : x # g => at'[x] = at[x])
      /\ DOMAIN op' = G /\ op'[g] = "none" /\ (\A x \in G : x # g => op'[x] = op[x])
      /\ DOMAIN mode' = G /\ (\A x \in G : x # g => mode'[x] = mode[x])
      /\ DOMAIN fd' = G /\ fd'[g] = <<>> /\ (\A x \in G : x # g => fd'[x] = fd[x])
      /\ DOMAIN cmd' = G /\ cmd'[g] = <<>> /\ (\A x \in G : x # g => cmd'[x] = cmd[x])
      /\ DOMAIN p' = G /\ p'[g] = <<>> /\ (\A x \in G : x # g => p'[x] = p[x])
      /\ DOMAIN child' = G
  BY Zenon DEF Return, KInv, KTypes
<1>4. Frame(g)
  BY Zenon, <1>2, <1>3 DEF Frame, KTypes
<1>5. Owns(g)'
  BY Zenon, <1>2 DEF KInv, Owns
<1>6. Place(g)'
  BY Zenon, <1>3 DEF Place
<1>7. Ends(g)'
  BY <1>3 DEF Ends, Making, Status
<1> QED BY Zenon, OwnStep, <1>4, <1>5, <1>6, <1>7

LEMMA ReturnsKInv ==
    ASSUME KInv, NEW g \in G, CloseSocket(g) \/ Error(g) \/ CmdClose(g) PROVE KInv'
<1>0. Range(<<>>) = {}
  BY DEF Range
<1>1. CASE CloseSocket(g)
  <2>1. at[g] = "opened" /\ op[g] = "socket" /\ CloseFds(Range(p[g])) /\ Return(g) /\ pc' = pc
    BY Zenon, <1>1 DEF CloseSocket, vars
  <2>2. fd[g] = <<>> /\ cmd[g] = <<>>
    BY <2>1 DEF KInv, Place
  <2>3. ChildEnds(g) = {} /\ CmdEnds(g) = {}
    BY <2>2 DEF ChildEnds, CmdEnds, Range
  <2>4. \A n : n \in Range(p[g]) <=> Handle(g, n)
    BY Zenon, <2>1, <2>3 DEF Handle
  <2> QED BY Zenon, <2>1, <2>4, ReturnKInv
<1>2. CASE Error(g)
  <2>1. at[g] = "error" /\ CloseFds(ChildEnds(g) \cup CmdEnds(g)) /\ Return(g) /\ pc' = pc
    BY ZenonT(60), <1>2 DEF Error, vars
  <2>2. p[g] = <<>>
    BY <2>1 DEF KInv, Ends, Making, Status
  <2>3. \A n : n \in ChildEnds(g) \cup CmdEnds(g) <=> Handle(g, n)
    BY Zenon, <1>0, <2>1, <2>2 DEF Handle
  <2> QED BY Zenon, <2>1, <2>3, ReturnKInv
<1>3. CASE CmdClose(g)
  <2>1. at[g] = "running" /\ CloseFds(CmdEnds(g)) /\ Return(g) /\ pc' = pc
    BY ZenonT(60), <1>3 DEF CmdClose, vars
  <2>2. p[g] = <<>>
    BY <2>1 DEF KInv, Ends, Making, Status
  <2>3. \A n : n \in CmdEnds(g) <=> Handle(g, n)
    BY Zenon, <1>0, <2>1, <2>2 DEF Handle
  <2> QED BY Zenon, <2>1, <2>3, ReturnKInv
<1> QED BY Zenon, <1>1, <1>2, <1>3

-----------------------------------------------------------------------------
\* g closes ends S of its status pipe.
Finishes(g, S, to) ==
    /\ at' = [at EXCEPT ![g] = to]
    /\ pc' = pc /\ op' = op /\ mode' = mode /\ fd' = fd /\ cmd' = cmd /\ child' = child
    /\ \/ /\ at[g] = "failed" /\ to = "cleaned" /\ S = Range(p[g])
          /\ p' = [p EXCEPT ![g] = <<>>]
       \/ at[g] = "close" /\ to = "read" /\ S = {p[g][2]} /\ p' = p
       \/ /\ at[g] = "read" /\ to \in {"wait4", "started"} /\ S = {p[g][1]}
          /\ p' = [p EXCEPT ![g] = <<>>]

LEMMA FinishesKInv ==
    ASSUME KInv, NEW g \in G, NEW S, CloseFds(S), NEW to, Finishes(g, S, to)
    PROVE  KInv'
<1>1. /\ DOMAIN at' = G /\ at'[g] = to /\ (\A x \in G : x # g => at'[x] = at[x])
      /\ pc' = pc /\ op' = op /\ mode' = mode /\ fd' = fd /\ cmd' = cmd /\ child' = child
      /\ DOMAIN p' = G /\ \A x \in G : x # g => p'[x] = p[x]
  BY Zenon DEF Finishes, KInv, KTypes
<1>2. \/ at[g] = "failed" /\ to = "cleaned" /\ S = Range(p[g]) /\ p'[g] = <<>>
      \/ at[g] = "close" /\ to = "read" /\ S = {p[g][2]} /\ p'[g] = p[g]
      \/ at[g] = "read" /\ to \in {"wait4", "started"} /\ S = {p[g][1]} /\ p'[g] = <<>>
  BY Zenon DEF Finishes, KInv, KTypes
<1>3. /\ at[g] # "running" /\ to # "running" /\ at[g] \notin Making /\ at[g] \notin Opening
      /\ to \notin Making /\ to \notin Opening /\ at[g] # "modeToFiles" /\ to # "modeToFiles"
      /\ to \in Failing <=> at[g] \in Failing
      /\ to \in Forking <=> at[g] \in Forking
      /\ at[g] # "idle"
  BY <1>2 DEF Making, Opening, Failing, Forking
<1>4. /\ at[g] = "close" => PipeEnds(g, 3)
      /\ at[g] \in {"close", "read"} => p[g] = <<p[g][1], p[g][2]>>
  <2>1. at[g] = "close" => PipeEnds(g, 3)
    BY Zenon DEF KInv, Ends, Status
  <2> QED BY Zenon, <2>1 DEF KInv, Ends, PipeEnds
<1>5. at[g] \in {"close", "read"} => Range(p[g]) = {p[g][1], p[g][2]}
  BY <1>4 DEF Range
<1>6. \A n \in S : n \in Fds /\ (tab[n] = File(g, 3, "r") \/ tab[n] = File(g, 3, "w"))
  <2>1. \A n \in S : n \in Range(p[g]) /\ (at[g] = "read" => n = p[g][1])
    BY Zenon, <1>2, <1>5
  <2> QED BY Zenon, <1>3, <2>1, PEndsAre
<1>7. \A n \in S : n \in Fds /\ tab[n][1] = g
  BY <1>6 DEF File
<1>8. /\ DOMAIN tab' = Fds /\ \A n \in 0..2 : tab'[n] = Std(n)
      /\ \A n \in Fds : n \notin S => tab'[n] = tab[n]
      /\ \A n \in Fds : tab'[n] # tab[n] => tab[n][1] \in {g, "none"} /\ tab'[n][1] \in {g, "none"}
      /\ \A n \in Fds : tab'[n][1] = g => n \notin S /\ tab[n][1] = g
  BY Zenon, <1>7, CloseTab
<1>9. Frame(g)
  BY Zenon, <1>1, <1>8 DEF Frame, KTypes, KInv
<1>10. ASSUME NEW j \in 1..3, Stream(g, j) PROVE Stream(g, j)'
  <2>1. j - 1 # 3
    OBVIOUS
  <2>2. \A n \in Fds : \A kind : tab[n] = File(g, j - 1, kind) => tab'[n] = tab[n]
    <3> SUFFICES ASSUME NEW n \in Fds, NEW kind, tab[n] = File(g, j - 1, kind)
                 PROVE  tab'[n] = tab[n]
      BY Zenon
    <3>1. tab[n] # File(g, 3, "r") /\ tab[n] # File(g, 3, "w")
      BY <2>1 DEF File
    <3> QED BY Zenon, <1>6, <1>8, <3>1
  <2>3. at'[g] # "running" /\ at[g] # "running"
    BY Zenon, <1>1, <1>3
  <2> QED BY Zenon, <1>1, <1>10, <2>2, <2>3 DEF Stream
<1>11. Place(g)'
  <2>1. Place(g)
    BY Zenon DEF KInv
  <2>2. CASE op[g] = "Run"
    <3>1. \A j \in 1..Len(fd[g]) : j \in 1..3 /\ Stream(g, j)
      BY <2>2, RunHas
    <3>2. \A j \in 1..Len(fd[g]) : Stream(g, j)'
      BY Zenon, <1>10, <3>1
    <3> QED BY Zenon, <1>1, <1>3, <2>1, <2>2, <3>2 DEF Place
  <2>3. CASE op[g] # "Run"
    BY Zenon, <1>1, <1>3, <2>1, <2>3 DEF Place
  <2> QED BY Zenon, <2>2, <2>3
<1>12. Ends(g)'
  <2>1. CASE to # "read"
    BY SMTT(30), <1>1, <1>2, <2>1 DEF Ends, Making, Status
  <2>2. CASE to = "read"
    <3>1. at[g] = "close" /\ S = {p[g][2]} /\ p'[g] = p[g] /\ PipeEnds(g, 3)
      BY <1>2, <1>4, <2>2
    <3>2. /\ p[g] = <<p[g][1], p[g][2]>> /\ p[g][1] \in Fds /\ p[g][2] \in Fds /\ p[g][2] >= 4
          /\ tab[p[g][1]] = File(g, 3, "r") /\ tab[p[g][2]] = File(g, 3, "w")
      BY Zenon, <3>1 DEF PipeEnds
    <3>3. p[g][1] \notin S
      <4>1. File(g, 3, "r") # File(g, 3, "w")
        BY DEF File
      <4> QED BY Zenon, <3>1, <3>2, <4>1
    <3>4. tab'[p[g][1]] = File(g, 3, "r")
      BY Zenon, <1>8, <3>2, <3>3
    <3> QED BY SMTT(30), <1>1, <2>2, <3>1, <3>2, <3>4 DEF Ends, Making, Status
  <2> QED BY <2>1, <2>2
<1>13. Owns(g)'
  <2> SUFFICES ASSUME NEW n \in Fds, tab'[n][1] = g PROVE Handle(g, n)'
    BY Zenon DEF Owns
  <2>1. n \notin S /\ Handle(g, n)
    BY Zenon, <1>8 DEF KInv, Owns
  <2>2. ChildEnds(g)' = ChildEnds(g) /\ CmdEnds(g)' = CmdEnds(g) /\ at'[g] # "running"
    <3>1. fd' = fd /\ mode' = mode /\ op' = op /\ cmd' = cmd
      BY Zenon, <1>1
    <3>2. ChildEnds(g)' = ChildEnds(g) /\ CmdEnds(g)' = CmdEnds(g)
      BY Zenon, <3>1 DEF ChildEnds, CmdEnds
    <3> QED BY Zenon, <1>1, <1>3, <3>2
  <2>3. CASE n \in Range(p[g]) /\ (at[g] = "read" => n = p[g][1])
    <3>1. at[g] = "close" /\ S = {p[g][2]} /\ p'[g] = p[g] /\ n = p[g][1]
      BY Zenon, <1>2, <1>5, <2>1, <2>3
    <3>2. n \in Range(p[g])' /\ n = p'[g][1]
      BY Zenon, <2>3, <3>1
    <3> QED BY Zenon, <3>2 DEF Handle
  <2>4. CASE n \in ChildEnds(g) \/ n \in CmdEnds(g)
    BY Zenon, <2>2, <2>4 DEF Handle
  <2> QED BY Zenon, <2>1, <2>3, <2>4 DEF Handle
<1> QED BY Zenon, OwnStep, <1>9, <1>11, <1>12, <1>13

LEMMA FinishKInv ==
    ASSUME KInv, NEW g \in G, CloseStatusPipe(g) \/ CloseWriteEnd(g) \/ ReadStatus(g) PROVE KInv'
<1>1. \E S, to : CloseFds(S) /\ Finishes(g, S, to)
  <2>1. CASE CloseStatusPipe(g)
    BY Zenon, <2>1 DEF CloseStatusPipe, Step, vars, Finishes
  <2>2. CASE CloseWriteEnd(g)
    BY Zenon, <2>2 DEF CloseWriteEnd, Step, vars, Finishes
  <2>3. CASE ReadStatus(g)
    <3>1. /\ CloseFds({p[g][1]}) /\ p' = [p EXCEPT ![g] = <<>>]
          /\ pc' = pc /\ op' = op /\ mode' = mode /\ fd' = fd /\ cmd' = cmd /\ child' = child
          /\ \E to \in {"wait4", "started"} : at[g] = "read" /\ at' = [at EXCEPT ![g] = to]
      BY Zenon, <2>3 DEF ReadStatus, Step, vars
    <3> QED BY Zenon, <3>1 DEF Finishes
  <2> QED BY Zenon, <2>1, <2>2, <2>3
<1> QED BY Zenon, <1>1, FinishesKInv

\* The child's files are closed in the parent; those of Cmd are others.
LEMMA StartedKInv ==
    ASSUME KInv, NEW g \in G, Started(g) PROVE KInv'
<1>1. /\ DOMAIN at' = G /\ at[g] = "started" /\ at'[g] = "running"
      /\ (\A x \in G : x # g => at'[x] = at[x]) /\ CloseFds(ChildEnds(g))
      /\ pc' = pc /\ op' = op /\ mode' = mode /\ fd' = fd /\ cmd' = cmd /\ p' = p /\ child' = child
  BY Zenon DEF Started, Step, vars, KInv, KTypes
<1>2. at[g] # "running" /\ at[g] # "read" /\ p[g] = <<>>
  BY <1>1 DEF KInv, Ends, Making, Status
<1>3. \A n \in ChildEnds(g) : n \in Fds /\ tab[n][1] = g
  BY Zenon, <1>2, HandleMine DEF Handle
<1>4. /\ DOMAIN tab' = Fds /\ \A n \in 0..2 : tab'[n] = Std(n)
      /\ \A n \in Fds : n \notin ChildEnds(g) => tab'[n] = tab[n]
      /\ \A n \in Fds : tab'[n] # tab[n] => tab[n][1] \in {g, "none"} /\ tab'[n][1] \in {g, "none"}
      /\ \A n \in Fds : tab'[n][1] = g => n \notin ChildEnds(g) /\ tab[n][1] = g
  BY Zenon, <1>1, <1>3, CloseTab
<1>5. Frame(g)
  BY Zenon, <1>1, <1>4 DEF Frame, KTypes, KInv
<1>6. \A n \in Fds : \A j \in 1..3 : tab[n] = File(g, j - 1, Kept(j)) => n \notin ChildEnds(g)
  <2> SUFFICES ASSUME NEW n \in ChildEnds(g), NEW j \in 1..3, tab[n] = File(g, j - 1, Kept(j))
               PROVE  FALSE
    BY Zenon
  <2>1. PICK i \in 1..3 : tab[n] = File(g, i - 1, "null") \/ tab[n] = File(g, i - 1, Given(i))
    BY Zenon, <1>2, ChildEndsAre
  <2>2. i - 1 = j - 1 /\ (Kept(j) = "null" \/ Kept(j) = Given(i))
    BY <2>1 DEF File
  <2>3. i = j
    BY <2>2
  <2> QED BY <2>2, <2>3 DEF Kept, Given
<1>7. ASSUME NEW j \in 1..3, Stream(g, j) PROVE Stream(g, j)'
  <2>1. \A n \in Fds : tab[n] = File(g, j - 1, Kept(j)) => tab'[n] = tab[n]
    BY Zenon, <1>4, <1>6
  <2> QED BY Zenon, <1>1, <1>7, <2>1 DEF Stream
<1>8. Place(g)'
  <2>1. Place(g)
    BY Zenon DEF KInv
  <2>2. /\ at[g] \in Forking /\ at'[g] \in Forking /\ at'[g] \notin Opening /\ at[g] \notin Opening
        /\ at[g] # "modeToFiles" /\ at'[g] # "modeToFiles" /\ at[g] # "idle"
        /\ at[g] \notin Failing
    BY <1>1 DEF Forking, Opening, Failing
  <2>3. CASE op[g] = "Run"
    <3>1. \A j \in 1..Len(fd[g]) : j \in 1..3 /\ Stream(g, j)
      BY <2>3, RunHas
    <3>2. \A j \in 1..Len(fd[g]) : Stream(g, j)'
      BY Zenon, <1>7, <3>1
    <3> QED BY Zenon, <1>1, <2>1, <2>2, <2>3, <3>2 DEF Place
  <2>4. CASE op[g] # "Run"
    BY Zenon, <1>1, <2>1, <2>2, <2>4 DEF Place
  <2> QED BY Zenon, <2>3, <2>4
<1>9. Ends(g)'
  BY <1>1, <1>2 DEF Ends, Making, Status
<1>10. Owns(g)'
  <2> SUFFICES ASSUME NEW n \in Fds, tab'[n][1] = g PROVE Handle(g, n)'
    BY Zenon DEF Owns
  <2>1. n \notin ChildEnds(g) /\ Handle(g, n)
    BY Zenon, <1>4 DEF KInv, Owns
  <2>2. Range(<<>>) = {}
    BY DEF Range
  <2>3. n \in CmdEnds(g)
    BY Zenon, <1>2, <2>1, <2>2 DEF Handle
  <2>4. CmdEnds(g)' = CmdEnds(g)
    BY Zenon, <1>1 DEF CmdEnds
  <2> QED BY Zenon, <2>3, <2>4 DEF Handle
<1> QED BY Zenon, OwnStep, <1>5, <1>8, <1>9, <1>10

LEMMA KUnchanged ==
    ASSUME KInv, UNCHANGED fvars PROVE KInv'
<1>1. /\ pc' = pc /\ at' = at /\ op' = op /\ mode' = mode /\ fd' = fd /\ cmd' = cmd /\ p' = p
      /\ tab' = tab /\ child' = child
  BY Zenon DEF fvars, vars, client, kernel
<1>2. KTypes'
  BY Zenon, <1>1 DEF KInv, KTypes
<1>3. ASSUME NEW x \in G PROVE (Place(x) /\ Ends(x) /\ Owns(x))'
  <2>1. \A j : Stream(x, j) => Stream(x, j)'
    BY Zenon, <1>1 DEF Stream
  <2>2. Place(x)'
    BY Zenon, <1>1, <2>1 DEF KInv, Place
  <2>3. Ends(x)'
    BY Zenon, <1>1 DEF KInv, Ends, PipeEnds
  <2>4. Owns(x)'
    BY Zenon, <1>1 DEF KInv, Owns, Handle, ChildEnds, CmdEnds
  <2> QED BY <2>2, <2>3, <2>4
<1>4. StdLow'
  BY Zenon, <1>1 DEF KInv, StdLow
<1> QED BY Zenon, <1>2, <1>3, <1>4 DEF KInv

-----------------------------------------------------------------------------
LEMMA KInitInv == FInit => KInv
<1> SUFFICES ASSUME FInit PROVE KInv
  OBVIOUS
<1>1. KTypes
  <2>1. \A n \in 0..2 : n \in Fds /\ n < 3
    BY ForkAssumption DEF Fds
  <2>2. \A n \in 0..2 : tab[n] = Std(n)
    BY Zenon, <2>1 DEF FInit
  <2> QED BY Zenon, <2>2 DEF FInit, KTypes
<1>2. \A n \in Fds : tab[n] = Std(n) \/ tab[n] = NoFile
  BY DEF FInit
<1>3. ASSUME NEW g \in G PROVE Place(g) /\ Ends(g) /\ Owns(g)
  <2>1. op[g] = "none" /\ at[g] = "idle" /\ fd[g] = <<>> /\ cmd[g] = <<>> /\ p[g] = <<>>
    BY Zenon DEF FInit
  <2>2. Ends(g)
    BY <2>1 DEF Ends, Making, Status
  <2>3. \A n \in Fds : tab[n][1] = "std" \/ tab[n][1] = "none"
    <3>1. ASSUME NEW n \in Fds PROVE tab[n][1] = "std" \/ tab[n][1] = "none"
      <4>1. Std(n)[1] = "std" /\ NoFile[1] = "none"
        BY DEF Std, NoFile
      <4> QED BY Zenon, <1>2, <4>1
    <3> QED BY Zenon, <3>1
  <2>4. \A n \in Fds : tab[n][1] # g
    BY Zenon, <2>3, FileOwner
  <2> QED BY Zenon, <2>1, <2>2, <2>4 DEF Place, Owns
<1>4. StdLow
  <2> SUFFICES ASSUME NEW n \in Fds, ~(n < 3) PROVE tab[n][1] # "std"
    BY Zenon DEF StdLow
  <2>1. tab[n] = NoFile
    BY Zenon DEF FInit
  <2>2. NoFile[1] = "none"
    BY DEF NoFile
  <2> QED BY Zenon, <2>1, <2>2
<1> QED BY Zenon, <1>1, <1>3, <1>4 DEF KInv

LEMMA KNext ==
    ASSUME DOMAIN pc = G, KInv, [FNext]_fvars PROVE KInv'
<1>1. CASE UNCHANGED fvars
  BY Zenon, <1>1, KUnchanged
<1>2. CASE FNext
  <2>1. PICK g \in G : Calling(g) \/ Working(g) \/ ChildStep(g) \/ Exit(g)
    BY Zenon, <1>2 DEF FNext
  <2>2. CASE Calling(g)
    BY Zenon, <2>2, CallKInv
  <2>3. CASE Locking(g) \/ ChildStep(g) \/ Exit(g)
    BY Zenon, <2>3, QuietKInv
  <2>4. CASE ReadLock(g) \/ ReadUnlock(g) \/ WriteLock(g) \/ WriteUnlock(g)
    BY Zenon, <2>4, LockShifts
  <2>5. CASE MarkCloseOnExec(g) \/ MarkStatusPipe(g) \/ Fork(g) \/ ForkFails(g) \/ Wait4(g)
    BY Zenon, <2>5, OtherShifts
  <2>6. CASE Create(g)
    BY Zenon, <2>6, CreateKInv
  <2>7. CASE StatusPipe(g)
    BY Zenon, <2>7, StatusPipeKInv
  <2>8. CASE modeToFiles(g)
    BY Zenon, <2>8, modeToFilesKInv
  <2>9. CASE Piped(g)
    BY Zenon, <2>9, PipedKInv
  <2>10. CASE CloseSocket(g) \/ Error(g) \/ CmdClose(g)
    BY Zenon, <2>10, ReturnsKInv
  <2>11. CASE CloseStatusPipe(g) \/ CloseWriteEnd(g) \/ ReadStatus(g)
    BY Zenon, <2>11, FinishKInv
  <2>12. CASE Started(g)
    BY Zenon, <2>12, StartedKInv
  <2> QED
    BY Zenon, <2>1, <2>2, <2>3, <2>4, <2>5, <2>6, <2>7, <2>8, <2>9, <2>10, <2>11, <2>12 DEF Working
<1> QED BY Zenon, <1>1, <1>2

\* At rest a call has nothing to close, hence nothing open.
LEMMA KClosed == KInv => NothingLeftOpen
<1> SUFFICES ASSUME KInv, NEW g \in G, at[g] = "idle", NEW n \in Fds PROVE tab[n][1] # g
  BY Zenon DEF NothingLeftOpen
<1>1. fd[g] = <<>> /\ cmd[g] = <<>>
  BY DEF KInv, Place, Opening, Forking, Failing
<1>2. p[g] = <<>>
  BY DEF KInv, Ends, Making, Status
<1>3. ~Handle(g, n)
  BY <1>1, <1>2 DEF Handle, ChildEnds, CmdEnds, Range
<1> QED BY Zenon, <1>3 DEF KInv, Owns

-----------------------------------------------------------------------------
(***************************************************************************)
(* The child between fork and exec                                         *)
(***************************************************************************)
\* What the child works on.
Fields == {"fd", "tab", "clo", "pipe", "nextfd"}

LEMMA DupUpIs ==
    ASSUME NEW s, DOMAIN s = Fields, NEW from
    PROVE  LET d == DupUp(s, from)
           IN  /\ DOMAIN d = Fields
               /\ d.fd = s.fd /\ d.pipe = s.pipe
               /\ d.tab = [s.tab EXCEPT ![s.nextfd] = s.tab[from]]
               /\ d.clo = s.clo \cup {s.nextfd} /\ d.nextfd = s.nextfd + 1
BY Zenon DEF DupUp, Fields

LEMMA MoveUpIs ==
    ASSUME NEW s, DOMAIN s = Fields, NEW k \in Int, s.fd[k] >= 0 /\ s.fd[k] < k - 1
    PROVE  LET d == MoveUp(s, k - 1)
           IN  /\ DOMAIN d = Fields /\ d.pipe = s.pipe
               /\ d.fd = [s.fd EXCEPT ![k] = s.nextfd]
               /\ d.tab = [s.tab EXCEPT ![s.nextfd] = s.tab[s.fd[k]]]
               /\ d.clo = s.clo \cup {s.nextfd}
               /\ d.nextfd = IF s.nextfd + 1 = s.pipe THEN s.nextfd + 1 + 1 ELSE s.nextfd + 1
<1>0. (k - 1) + 1 = k
  OBVIOUS
<1>1. PICK u : u = DupUp(s, s.fd[k])
  OBVIOUS
<1>2. PICK d : d = [u EXCEPT !.fd[k] = s.nextfd]
  BY Zenon
<1>3. DOMAIN u = Fields
  BY Zenon, <1>1, DupUpIs
<1>4. /\ DOMAIN d = Fields /\ d.pipe = s.pipe
      /\ d.fd = [s.fd EXCEPT ![k] = s.nextfd]
      /\ d.tab = [s.tab EXCEPT ![s.nextfd] = s.tab[s.fd[k]]]
      /\ d.clo = s.clo \cup {s.nextfd} /\ d.nextfd = s.nextfd + 1
  <2>1. DOMAIN d = Fields /\ d.fd = [u.fd EXCEPT ![k] = s.nextfd]
    BY Zenon, <1>2, <1>3 DEF Fields
  <2>2. d.pipe = u.pipe /\ d.tab = u.tab /\ d.clo = u.clo /\ d.nextfd = u.nextfd
    BY <1>2, <1>3 DEF Fields
  <2> QED BY ZenonT(60), <1>1, <2>1, <2>2, DupUpIs
<1>5. PICK e : e = [d EXCEPT !.nextfd = d.nextfd + 1]
  BY Zenon
<1>6. /\ DOMAIN e = Fields /\ e.nextfd = d.nextfd + 1
      /\ e.pipe = d.pipe /\ e.tab = d.tab /\ e.clo = d.clo /\ e.fd = d.fd
  BY <1>4, <1>5 DEF Fields
<1>7. MoveUp(s, k - 1) = IF d.nextfd = d.pipe THEN e ELSE d
  BY Zenon, <1>0, <1>1, <1>2, <1>5 DEF MoveUp
<1>8. CASE d.nextfd = d.pipe
  <2>1. MoveUp(s, k - 1) = e /\ s.nextfd + 1 = s.pipe
    BY Zenon, <1>4, <1>7, <1>8
  <2> QED BY Zenon, <2>1, <1>4, <1>6
<1>9. CASE d.nextfd # d.pipe
  <2>1. MoveUp(s, k - 1) = d /\ s.nextfd + 1 # s.pipe
    BY Zenon, <1>4, <1>7, <1>9
  <2> QED BY Zenon, <2>1, <1>4
<1> QED BY <1>8, <1>9

LEMMA MoveDownIs ==
    ASSUME NEW s, DOMAIN s = Fields, NEW k \in Int, k >= 1
    PROVE  LET d == MoveDown(s, k - 1)
           IN  /\ DOMAIN d = Fields /\ d.pipe = s.pipe /\ d.fd = s.fd /\ d.clo = s.clo \ {k - 1}
               /\ s.fd[k] = -1 => d.tab = [s.tab EXCEPT ![k - 1] = NoFile]
               /\ s.fd[k] = k - 1 => d.tab = s.tab
               /\ s.fd[k] # -1 /\ s.fd[k] # k - 1 => d.tab = [s.tab EXCEPT ![k - 1] = s.tab[s.fd[k]]]
<1>0. (k - 1) + 1 = k /\ k - 1 # -1
  OBVIOUS
<1>1. CASE s.fd[k] = -1
  <2>1. s.fd[k] # k - 1
    BY <1>0, <1>1
  <2>2. MoveDown(s, k - 1) = [s EXCEPT !.tab[k - 1] = NoFile, !.clo = @ \ {k - 1}]
    BY <1>0, <1>1, <2>1 DEF MoveDown
  <2> QED BY Zenon, <1>1, <2>1, <2>2 DEF Fields
<1>2. CASE s.fd[k] = k - 1
  <2>1. s.fd[k] # -1
    BY <1>0, <1>2
  <2>2. MoveDown(s, k - 1) = [s EXCEPT !.clo = @ \ {k - 1}]
    BY <1>0, <1>2, <2>1 DEF MoveDown
  <2> QED BY Zenon, <1>2, <2>1, <2>2 DEF Fields
<1>3. CASE s.fd[k] # -1 /\ s.fd[k] # k - 1
  <2>2. MoveDown(s, k - 1) = [s EXCEPT !.tab[k - 1] = s.tab[s.fd[k]], !.clo = @ \ {k - 1}]
    BY Zenon, <1>0, <1>3 DEF MoveDown, Dup2
  <2> QED BY Zenon, <1>3, <2>2 DEF Fields
<1> QED BY Zenon, <1>1, <1>2, <1>3

\* Stage is the function that starts with SavePipe of First and goes on with
\* one Pass per position; a list of at most three files has six of them.
First(list, t, c, pipe) ==
    [fd |-> list, tab |-> t, clo |-> c, pipe |-> pipe, nextfd |-> Len(list)]

Pass(n, k, S) == {IF k <= n THEN MoveUp(s, k - 1) ELSE MoveDown(s, k - 1 - n) : s \in S}

Recursion(n, v0, h) == h = [k \in 0..2 * n |-> IF k = 0 THEN v0 ELSE Pass(n, k, h[k - 1])]

LEMMA RecursionExists ==
    ASSUME NEW n \in 0..3, NEW v0 PROVE \E h : Recursion(n, v0, h)
<1>1. PICK v1 : v1 = Pass(n, 1, v0)
  OBVIOUS
<1>2. PICK v2 : v2 = Pass(n, 2, v1)
  OBVIOUS
<1>3. PICK v3 : v3 = Pass(n, 3, v2)
  OBVIOUS
<1>4. PICK v4 : v4 = Pass(n, 4, v3)
  OBVIOUS
<1>5. PICK v5 : v5 = Pass(n, 5, v4)
  OBVIOUS
<1>6. PICK v6 : v6 = Pass(n, 6, v5)
  OBVIOUS
<1> DEFINE f == [k \in 0..2 * n |->
        CASE k = 0 -> v0 [] k = 1 -> v1 [] k = 2 -> v2 [] k = 3 -> v3 [] k = 4 -> v4
          [] k = 5 -> v5 [] OTHER -> v6]
<1>7. ASSUME NEW k \in 0..2 * n PROVE f[k] = IF k = 0 THEN v0 ELSE Pass(n, k, f[k - 1])
  <2>1. k \in {0, 1, 2, 3, 4, 5, 6} /\ (k # 0 => k - 1 \in 0..2 * n)
    OBVIOUS
  <2>2. CASE k = 0
    BY <2>2
  <2>3. CASE k # 0
    <3>1. /\ f[k] = CASE k = 1 -> v1 [] k = 2 -> v2 [] k = 3 -> v3 [] k = 4 -> v4
                      [] k = 5 -> v5 [] OTHER -> v6
          /\ f[k - 1] = CASE k = 1 -> v0 [] k = 2 -> v1 [] k = 3 -> v2 [] k = 4 -> v3
                          [] k = 5 -> v4 [] OTHER -> v5
      BY <2>1, <2>3
    <3> HIDE DEF f
    <3> QED BY <1>1, <1>2, <1>3, <1>4, <1>5, <1>6, <2>1, <2>3, <3>1
  <2> QED BY <2>2, <2>3
<1>8. Recursion(n, v0, f)
  BY SMTT(30), <1>7 DEF Recursion
<1> QED BY <1>8

LEMMA StageIs ==
    ASSUME NEW list, NEW t, NEW c, NEW pipe, Len(list) \in 0..3
    PROVE  Recursion(Len(list), {SavePipe(First(list, t, c, pipe))}, Stage(list, t, c, pipe))
<1>1. Stage(list, t, c, pipe) = CHOOSE h : Recursion(Len(list), {SavePipe(First(list, t, c, pipe))}, h)
  BY Zenon DEF Stage, Recursion, Pass, First
<1> QED BY Zenon, <1>1, RecursionExists

\* The state in which a child is forked: a short list, the write end of the
\* status pipe above it, and whatever is not standard marked.
Start(list, t, c, pipe) ==
    /\ Len(list) \in 0..3 /\ list \in [1..Len(list) -> Fds \cup {-1}]
    /\ DOMAIN t = Fds
    /\ pipe \in Fds /\ pipe >= 4
    /\ \A m \in Fds : m >= 3 /\ t[m] # NoFile => m \in c

\* The file that is to be at position j comes from the list, and from that
\* position of it if nothing was overwritten.
Gets(list, t, j, file) ==
    /\ \E i \in 1..Len(list) : list[i] # -1 /\ file = t[list[i]]
    /\ Movable(list) => file = t[list[j]]

\* At every position: the pipe is where it was, and what is not standard is
\* marked.
Sound(list, t, pipe, s) ==
    /\ DOMAIN s = Fields /\ s.pipe = pipe /\ s.tab[pipe] = t[pipe]
    /\ s.fd \in [1..Len(list) -> Fds \cup {-1}]
    /\ DOMAIN s.tab = Fds
    /\ \A m \in Fds : m >= 3 /\ s.tab[m] # NoFile => m \in s.clo
    /\ \A j \in 1..Len(list) : s.fd[j] = -1 <=> list[j] = -1

\* After k positions of pass 1.
Upper(list, t, pipe, k, s) ==
    LET n == Len(list)
    IN  /\ s.nextfd \in Int /\ s.nextfd >= n /\ s.nextfd # pipe
        /\ s.nextfd <= n + k \/ (pipe < s.nextfd /\ s.nextfd <= n + k + 1)
        /\ \A j \in 1..n : s.fd[j] # -1 => Gets(list, t, j, s.tab[s.fd[j]])
        /\ \A j \in 1..k : s.fd[j] # -1 => s.fd[j] >= j - 1
        /\ Movable(list) =>
              \/ \A j \in 1..n : s.fd[j] >= 0 => s.fd[j] >= j - 1
              \/ \A j \in 1..n : s.fd[j] < s.nextfd

\* After k positions of pass 2.
Lower(list, t, k, s) ==
    LET n == Len(list)
    IN  /\ \A j \in (k + 1)..n : s.fd[j] # -1 =>
              s.fd[j] >= j - 1 /\ Gets(list, t, j, s.tab[s.fd[j]])
        /\ \A j \in 1..k :
              /\ j - 1 \notin s.clo
              /\ IF list[j] = -1 THEN s.tab[j - 1] = NoFile ELSE Gets(list, t, j, s.tab[j - 1])

LEMMA UpperStarts ==
    ASSUME NEW list, NEW t, NEW c, NEW pipe, Start(list, t, c, pipe)
    PROVE  LET s == SavePipe(First(list, t, c, pipe))
           IN  Sound(list, t, pipe, s) /\ Upper(list, t, pipe, 0, s)
<1>1. PICK s : s = First(list, t, c, pipe)
  OBVIOUS
<1>2. /\ DOMAIN s = Fields /\ s.fd = list /\ s.tab = t /\ s.clo = c /\ s.pipe = pipe
      /\ s.nextfd = Len(list)
  BY <1>1 DEF First, Fields
<1>3. MaxFd \in Nat /\ Fds = 0..MaxFd
  BY ForkAssumption DEF Fds
<1>4. SavePipe(s) = s
  BY <1>2, <1>3 DEF SavePipe, Start
<1>5. Sound(list, t, pipe, s)
  BY <1>2 DEF Start, Sound
<1>6. Upper(list, t, pipe, 0, s)
  <2>1. \A j \in 1..Len(list) : s.fd[j] # -1 => Gets(list, t, j, s.tab[s.fd[j]])
    BY Zenon, <1>2 DEF Gets
  <2>2. Movable(list) =>
              \/ \A j \in 1..Len(list) : s.fd[j] >= 0 => s.fd[j] >= j - 1
              \/ \A j \in 1..Len(list) : s.fd[j] < s.nextfd
    BY <1>2, <1>3 DEF Start, Movable
  <2>3. s.nextfd \in Int /\ s.nextfd >= Len(list) /\ s.nextfd # pipe /\ s.nextfd <= Len(list) + 0
    <3>1. PICK n \in 0..3 : n = Len(list)
      BY DEF Start
    <3>2. s.nextfd = n /\ Len(list) = n
      BY Zenon, <1>2, <3>1
    <3>3. pipe \in 0..MaxFd /\ pipe >= 4
      BY Zenon, <1>3 DEF Start
    <3> QED BY ONLY <1>3, <3>1, <3>2, <3>3
  <2> QED BY <2>1, <2>2, <2>3 DEF Upper
<1> QED BY Zenon, <1>1, <1>4, <1>5, <1>6

LEMMA UpperStep ==
    ASSUME NEW list, NEW t, NEW c, NEW pipe, Start(list, t, c, pipe),
           NEW k \in 1..Len(list), NEW s, Sound(list, t, pipe, s), Upper(list, t, pipe, k - 1, s)
    PROVE  Sound(list, t, pipe, MoveUp(s, k - 1)) /\ Upper(list, t, pipe, k, MoveUp(s, k - 1))
<1>0. PICK n \in 0..3 : n = Len(list)
  BY DEF Start
<1>1. /\ MaxFd \in Nat /\ MaxFd >= 7 /\ Fds = 0..MaxFd
      /\ k \in Int /\ k >= 1 /\ k <= n /\ pipe \in Int /\ pipe >= 4 /\ (k - 1) + 1 = k
  BY <1>0, ForkAssumption DEF Fds, Start
<1>2. PICK f, a, x : f = s.fd /\ a = s.tab /\ x = s.nextfd
  OBVIOUS
<1>3. /\ f \in [1..n -> Fds \cup {-1}] /\ DOMAIN a = Fds /\ a[pipe] = t[pipe]
      /\ \A m \in Fds : m >= 3 /\ a[m] # NoFile => m \in s.clo
      /\ \A j \in 1..n : f[j] = -1 <=> list[j] = -1
      /\ DOMAIN s = Fields /\ s.pipe = pipe
  BY Zenon, <1>0, <1>2 DEF Sound
<1>4. /\ x \in Int /\ x >= n /\ x # pipe
      /\ x <= n + (k - 1) \/ (pipe < x /\ x <= n + (k - 1) + 1)
      /\ \A j \in 1..n : f[j] # -1 => Gets(list, t, j, a[f[j]])
      /\ \A j \in 1..(k - 1) : f[j] # -1 => f[j] >= j - 1
      /\ Movable(list) => \/ \A j \in 1..n : f[j] >= 0 => f[j] >= j - 1
                          \/ \A j \in 1..n : f[j] < x
  BY Zenon, <1>0, <1>2 DEF Upper
<1> k \in 1..n /\ \A j \in 1..n : f[j] \in Int /\ f[j] >= -1
  BY <1>1, <1>3
<1>5. CASE f[k] >= 0 /\ f[k] < k - 1
  <2>1. PICK d : d = MoveUp(s, k - 1)
    OBVIOUS
  <2>2. /\ DOMAIN d = Fields /\ d.pipe = pipe
        /\ d.fd = [f EXCEPT ![k] = x]
        /\ d.tab = [a EXCEPT ![x] = a[f[k]]]
        /\ d.clo = s.clo \cup {x}
        /\ d.nextfd = IF x + 1 = pipe THEN x + 1 + 1 ELSE x + 1
    BY Zenon, MoveUpIs, <1>1, <1>2, <1>3, <1>5, <2>1
  <2>3. x \in Fds /\ k \in 1..n
    BY <1>1, <1>4
  <2>4. /\ d.fd \in [1..n -> Fds \cup {-1}] /\ DOMAIN d.tab = Fds
        /\ d.fd[k] = x /\ \A j \in 1..n : j # k => d.fd[j] = f[j]
    BY Zenon, <1>3, <2>2, <2>3
  <2>5. d.tab[x] = a[f[k]] /\ \A m \in Fds : m # x => d.tab[m] = a[m]
    BY Zenon, <1>3, <2>2, <2>3
  <2>6. Sound(list, t, pipe, d)
    <3>1. d.tab[pipe] = t[pipe]
      BY <1>3, <1>4, <2>5 DEF Start
    <3>2. \A m \in Fds : m >= 3 /\ d.tab[m] # NoFile => m \in d.clo
      BY SMTT(30), <1>3, <2>2, <2>5
    <3>3. \A j \in 1..n : d.fd[j] = -1 <=> list[j] = -1
      BY SMTT(30), <1>1, <1>3, <1>4, <1>5, <2>3, <2>4
    <3> QED BY Zenon, <1>0, <2>2, <2>4, <3>1, <3>2, <3>3 DEF Sound
  <2>7. Gets(list, t, k, d.tab[d.fd[k]])
    BY SMTT(30), <1>1, <1>4, <1>5, <2>3, <2>4, <2>5
  <2>8. ASSUME NEW j \in 1..n, j # k, f[j] # -1 PROVE Gets(list, t, j, d.tab[f[j]])
    <3>1. CASE f[j] # x
      BY <1>3, <1>4, <2>5, <2>8, <3>1
    <3>2. CASE f[j] = x
      <4>1. ~Movable(list)
        BY SMTT(30), <1>1, <1>4, <1>5, <2>3, <2>8, <3>2
      <4>2. Gets(list, t, k, d.tab[x])
        BY <2>4, <2>7
      <4> QED BY Zenon, <3>2, <4>1, <4>2 DEF Gets
    <3> QED BY SMTT(30), <3>1, <3>2
  <2>9. \A j \in 1..n : d.fd[j] # -1 => Gets(list, t, j, d.tab[d.fd[j]])
    BY Zenon, <2>4, <2>7, <2>8
  <2>10. /\ d.nextfd \in Int /\ d.nextfd >= n /\ d.nextfd # pipe /\ x < d.nextfd
         /\ d.nextfd <= n + k \/ (pipe < d.nextfd /\ d.nextfd <= n + k + 1)
    <3>1. PICK y : y = d.nextfd
      OBVIOUS
    <3>2. y = IF x + 1 = pipe THEN x + 1 + 1 ELSE x + 1
      BY Zenon, <2>2, <3>1
    <3>3. /\ x \in Int /\ x >= n /\ x # pipe
          /\ x <= n + (k - 1) \/ (pipe < x /\ x <= n + (k - 1) + 1)
      BY Zenon, <1>4
    <3>4. y \in Int /\ y >= n /\ y # pipe /\ x < y /\ (y <= n + k \/ (pipe < y /\ y <= n + k + 1))
      BY SMTT(30), <1>1, <3>2, <3>3
    <3> QED BY Zenon, <3>1, <3>4
  <2>11. \A j \in 1..k : d.fd[j] # -1 => d.fd[j] >= j - 1
    BY SMTT(30), <1>1, <1>4, <2>4
  <2>14. ~(f[k] >= k - 1)
    BY <1>1, <1>5
  <2>12. Movable(list) => \A j \in 1..n : d.fd[j] < d.nextfd
    <3> SUFFICES ASSUME Movable(list), NEW j \in 1..n PROVE d.fd[j] < d.nextfd
      BY Zenon
    <3>1. \A i \in 1..n : f[i] < x
      BY Zenon, <1>4, <1>5, <2>14
    <3>2. d.fd[j] \in Int /\ d.fd[j] <= x
      BY SMTT(30), <1>4, <2>4, <3>1
    <3> QED BY <1>4, <2>10, <3>2
  <2>13. Upper(list, t, pipe, k, d)
    BY Zenon, <1>0, <2>9, <2>10, <2>11, <2>12 DEF Upper
  <2> QED BY <2>1, <2>6, <2>13
<1>6. CASE ~(f[k] >= 0 /\ f[k] < k - 1)
  <2>1. MoveUp(s, k - 1) = s
    BY SMTT(30), <1>1, <1>2, <1>6 DEF MoveUp
  <2>2. \A j \in 1..k : f[j] # -1 => f[j] >= j - 1
    BY <1>1, <1>3, <1>4, <1>6
  <2>3. x <= n + k \/ (pipe < x /\ x <= n + k + 1)
    BY <1>1, <1>4
  <2>4. Upper(list, t, pipe, k, s)
    BY ZenonT(60), <1>0, <1>2, <1>4, <2>2, <2>3 DEF Upper
  <2> QED BY <2>1, <2>4
<1> QED BY Zenon, <1>5, <1>6

LEMMA LowerStarts ==
    ASSUME NEW list, NEW t, NEW pipe, NEW s, Upper(list, t, pipe, Len(list), s)
    PROVE  Lower(list, t, 0, s)
BY DEF Upper, Lower

LEMMA LowerStep ==
    ASSUME NEW list, NEW t, NEW c, NEW pipe, Start(list, t, c, pipe),
           NEW k \in 1..Len(list), NEW s, Sound(list, t, pipe, s), Lower(list, t, k - 1, s)
    PROVE  Sound(list, t, pipe, MoveDown(s, k - 1)) /\ Lower(list, t, k, MoveDown(s, k - 1))
<1>0. PICK n \in 0..3 : n = Len(list)
  BY DEF Start
<1>1. /\ MaxFd \in Nat /\ MaxFd >= 7 /\ Fds = 0..MaxFd
      /\ k \in Int /\ k >= 1 /\ k <= n /\ pipe \in Int /\ pipe >= 4 /\ (k - 1) + 1 = k
      /\ k - 1 \in Int /\ k - 1 >= 0 /\ k - 1 \in Fds /\ k - 1 # pipe /\ k - 1 < 3
  BY <1>0, ForkAssumption DEF Fds, Start
<1>2. PICK f, a, d : f = s.fd /\ a = s.tab /\ d = MoveDown(s, k - 1)
  OBVIOUS
<1>3. /\ f \in [1..n -> Fds \cup {-1}] /\ DOMAIN a = Fds /\ a[pipe] = t[pipe]
      /\ \A m \in Fds : m >= 3 /\ a[m] # NoFile => m \in s.clo
      /\ \A j \in 1..n : f[j] = -1 <=> list[j] = -1
      /\ DOMAIN s = Fields /\ s.pipe = pipe
  BY Zenon, <1>0, <1>2 DEF Sound
<1>4. /\ \A j \in k..n : f[j] # -1 => f[j] >= j - 1 /\ Gets(list, t, j, a[f[j]])
      /\ \A j \in 1..(k - 1) :
            /\ j - 1 \notin s.clo
            /\ IF list[j] = -1 THEN a[j - 1] = NoFile ELSE Gets(list, t, j, a[j - 1])
  BY Zenon, <1>0, <1>1, <1>2 DEF Lower
<1>5. DOMAIN d = Fields /\ d.pipe = pipe /\ d.fd = f /\ d.clo = s.clo \ {k - 1}
  BY Zenon, MoveDownIs, <1>1, <1>2, <1>3
<1>6. /\ DOMAIN d.tab = Fds /\ \A m \in Fds : m # k - 1 => d.tab[m] = a[m]
      /\ f[k] = -1 => d.tab[k - 1] = NoFile
      /\ f[k] # -1 => d.tab[k - 1] = a[f[k]]
  <2>1. /\ f[k] = -1 => d.tab = [a EXCEPT ![k - 1] = NoFile]
        /\ f[k] = k - 1 => d.tab = a
        /\ f[k] # -1 /\ f[k] # k - 1 => d.tab = [a EXCEPT ![k - 1] = a[f[k]]]
    BY Zenon, MoveDownIs, <1>1, <1>2, <1>3
  <2>2. CASE f[k] = -1
    BY Zenon, <1>1, <1>3, <2>1, <2>2
  <2>3. CASE f[k] = k - 1
    BY <1>1, <1>3, <2>1, <2>3
  <2>4. CASE f[k] # -1 /\ f[k] # k - 1
    BY Zenon, <1>1, <1>3, <2>1, <2>4
  <2> QED BY <2>2, <2>3, <2>4
<1>7. Sound(list, t, pipe, d)
  <2>1. d.tab[pipe] = t[pipe]
    BY <1>1, <1>3, <1>6 DEF Start
  <2>2. \A m \in Fds : m >= 3 /\ d.tab[m] # NoFile => m \in d.clo
    BY <1>1, <1>3, <1>5, <1>6
  <2> QED BY Zenon, <1>0, <1>3, <1>5, <1>6, <2>1, <2>2 DEF Sound
<1>8. ASSUME NEW j \in (k + 1)..n, f[j] # -1 PROVE f[j] >= j - 1 /\ Gets(list, t, j, d.tab[f[j]])
  <2>1. j \in k..n /\ j \in 1..n
    BY SMTT(30), <1>1
  <2>2. f[j] >= j - 1 /\ Gets(list, t, j, a[f[j]]) /\ f[j] \in Fds
    BY <1>3, <1>4, <1>8, <2>1
  <2>3. f[j] # k - 1
    BY <1>1, <2>2
  <2> QED BY Zenon, <1>6, <2>2, <2>3
<1>9. ASSUME NEW j \in 1..k
      PROVE  /\ j - 1 \notin d.clo
             /\ IF list[j] = -1 THEN d.tab[j - 1] = NoFile ELSE Gets(list, t, j, d.tab[j - 1])
  <2>1. CASE j = k
    <3>1. k \in k..n /\ k \in 1..n
      BY <1>1
    <3> QED BY Zenon, <1>3, <1>4, <1>5, <1>6, <2>1, <3>1
  <2>2. CASE j # k
    <3>1. j \in 1..(k - 1) /\ j - 1 # k - 1 /\ j - 1 \in Fds
      BY <1>1, <2>2
    <3> QED BY Zenon, <1>4, <1>5, <1>6, <3>1
  <2> QED BY Zenon, <2>1, <2>2
<1>10. Lower(list, t, k, d)
  BY Zenon, <1>0, <1>5, <1>8, <1>9 DEF Lower
<1> QED BY Zenon, <1>2, <1>7, <1>10

\* After k positions of the two passes.
Stages(list, t, pipe, k, s) ==
    /\ Sound(list, t, pipe, s)
    /\ k <= Len(list) => Upper(list, t, pipe, k, s)
    /\ k >= Len(list) => Lower(list, t, k - Len(list), s)

LEMMA StageStep ==
    ASSUME NEW list, NEW t, NEW c, NEW pipe, Start(list, t, c, pipe),
           NEW k \in 1..2 * Len(list), NEW S, \A s \in S : Stages(list, t, pipe, k - 1, s)
    PROVE  \A s \in Pass(Len(list), k, S) : Stages(list, t, pipe, k, s)
<1>0. PICK n \in 0..3 : n = Len(list)
  BY DEF Start
<1>1. k \in Int /\ 1 <= k /\ k <= 2 * n
  BY <1>0
<1> SUFFICES ASSUME NEW s \in S
             PROVE  Stages(list, t, pipe, k, IF k <= n THEN MoveUp(s, k - 1) ELSE MoveDown(s, k - 1 - n))
  BY Zenon, <1>0 DEF Pass
<1>2. Stages(list, t, pipe, k - 1, s)
  OBVIOUS
<1>3. CASE k <= n
  <2>1. k \in 1..Len(list) /\ k - 1 <= Len(list)
    BY <1>0, <1>1, <1>3
  <2>2. Sound(list, t, pipe, MoveUp(s, k - 1)) /\ Upper(list, t, pipe, k, MoveUp(s, k - 1))
    BY Zenon, <1>2, <2>1, UpperStep DEF Stages
  <2>3. k >= n => k = n /\ k - n = 0
    BY <1>1, <1>3
  <2> QED BY Zenon, <1>0, <1>3, <2>2, <2>3, LowerStarts DEF Stages
<1>4. CASE ~(k <= n)
  <2>1. k - n \in 1..Len(list) /\ k - 1 >= Len(list) /\ k - 1 - n = (k - n) - 1
    BY <1>0, <1>1, <1>4
  <2>2. LET d == MoveDown(s, k - 1 - n) IN Sound(list, t, pipe, d) /\ Lower(list, t, k - n, d)
    BY Zenon, <1>0, <1>2, <2>1, LowerStep DEF Stages
  <2> QED BY Zenon, <1>0, <1>4, <2>2 DEF Stages
<1> QED BY Zenon, <1>3, <1>4

LEMMA StageHolds ==
    ASSUME NEW list, NEW t, NEW c, NEW pipe, Start(list, t, c, pipe)
    PROVE  LET S == Stage(list, t, c, pipe)
           IN  /\ DOMAIN S = 0..2 * Len(list)
               /\ \A k \in DOMAIN S : \A s \in S[k] : Stages(list, t, pipe, k, s)
<1>0. PICK n \in 0..3 : n = Len(list)
  BY DEF Start
<1>1. PICK S : S = Stage(list, t, c, pipe)
  OBVIOUS
<1>2. /\ DOMAIN S = 0..2 * n
      /\ S[0] = {SavePipe(First(list, t, c, pipe))}
      /\ \A k \in 1..2 * n : S[k] = Pass(n, k, S[k - 1])
  <2>1. PICK v0 : v0 = {SavePipe(First(list, t, c, pipe))}
    BY Zenon
  <2>2. Recursion(Len(list), v0, S)
    BY Zenon, <1>0, <1>1, <2>1, StageIs
  <2>3. Recursion(n, v0, S)
    BY Zenon, <1>0, <2>2
  <2>4. 0 \in 0..2 * n /\ \A k \in 1..2 * n : k \in 0..2 * n /\ k # 0
    OBVIOUS
  <2>5. DOMAIN S = 0..2 * n /\ \A k \in 0..2 * n : S[k] = IF k = 0 THEN v0 ELSE Pass(n, k, S[k - 1])
    BY Zenon, <2>3 DEF Recursion
  <2> QED BY Zenon, <2>1, <2>4, <2>5
<1> DEFINE Holds(k) == \A s \in S[k] : Stages(list, t, pipe, k, s)
<1>3. Holds(0)
  <2>1. LET s == SavePipe(First(list, t, c, pipe))
        IN  Sound(list, t, pipe, s) /\ Upper(list, t, pipe, 0, s)
    BY Zenon, UpperStarts
  <2>2. 0 >= n => n = 0 /\ 0 - n = 0
    OBVIOUS
  <2>3. PICK s : s = SavePipe(First(list, t, c, pipe))
    OBVIOUS
  <2>4. 0 >= n => Lower(list, t, 0 - n, s)
    BY Zenon, <1>0, <2>1, <2>2, <2>3, LowerStarts
  <2>5. Stages(list, t, pipe, 0, s)
    BY Zenon, <1>0, <2>1, <2>3, <2>4 DEF Stages
  <2> QED BY Zenon, <1>2, <2>3, <2>5
<1>4. ASSUME NEW k \in 1..2 * n, Holds(k - 1) PROVE Holds(k)
  BY Zenon, <1>0, <1>2, <1>4, StageStep
<1> HIDE DEF Holds
<1>5. \A k \in 0..2 * n : Holds(k)
  <2>1. 1 <= 2 * n => Holds(1)
    BY <1>3, <1>4
  <2>2. 2 <= 2 * n => Holds(2)
    BY <2>1, <1>4
  <2>3. 3 <= 2 * n => Holds(3)
    BY <2>2, <1>4
  <2>4. 4 <= 2 * n => Holds(4)
    BY <2>3, <1>4
  <2>5. 5 <= 2 * n => Holds(5)
    BY <2>4, <1>4
  <2>6. 6 <= 2 * n => Holds(6)
    BY <2>5, <1>4
  <2>7. ASSUME NEW k \in 0..2 * n PROVE k \in {0, 1, 2, 3, 4, 5, 6}
    OBVIOUS
  <2> QED BY SMTT(30), <1>3, <2>1, <2>2, <2>3, <2>4, <2>5, <2>6, <2>7
<1> QED BY Zenon, <1>0, <1>1, <1>2, <1>5 DEF Holds

\* The descriptor table of the command.
AfterExec(list, s) ==
    [m \in Fds |-> IF m \in s.clo \cup Len(list)..2 THEN NoFile ELSE s.tab[m]]

\* It has files of the list only, and each at its position if none had to be
\* overwritten.
Inherits(list, t, e) ==
    /\ \A m \in Fds : e[m] # NoFile =>
          /\ m \in 0..(Len(list) - 1)
          /\ \E i \in 1..Len(list) : list[i] # -1 /\ e[m] = t[list[i]]
    /\ Movable(list) =>
          \A j \in 1..Len(list) : e[j - 1] = IF list[j] = -1 THEN NoFile ELSE t[list[j]]

LEMMA ExecLeaves ==
    ASSUME NEW list, NEW t, NEW c, NEW pipe, Start(list, t, c, pipe),
           NEW s \in Stage(list, t, c, pipe)[2 * Len(list)]
    PROVE  Inherits(list, t, AfterExec(list, s))
<1> DEFINE e == AfterExec(list, s)
<1>7. e = [m \in Fds |-> IF m \in s.clo \cup Len(list)..2 THEN NoFile ELSE s.tab[m]]
  BY Zenon DEF AfterExec
<1> HIDE DEF e
<1>0. PICK n \in 0..3 : n = Len(list)
  BY DEF Start
<1>1. MaxFd \in Nat /\ MaxFd >= 7 /\ Fds = 0..MaxFd
  BY ForkAssumption DEF Fds
<1>2. Stages(list, t, pipe, 2 * n, s)
  <2>1. 2 * n \in 0..2 * n
    OBVIOUS
  <2> QED BY Zenon, <1>0, <2>1, StageHolds
<1>3. Sound(list, t, pipe, s) /\ Lower(list, t, n, s)
  <2>1. 2 * n >= n /\ 2 * n - n = n
    OBVIOUS
  <2> QED BY Zenon, <1>0, <1>2, <2>1 DEF Stages
<1>4. ASSUME NEW j \in 1..n
      PROVE  /\ j - 1 \in Fds /\ e[j - 1] = s.tab[j - 1]
             /\ IF list[j] = -1 THEN e[j - 1] = NoFile ELSE Gets(list, t, j, e[j - 1])
  <2>1. /\ j - 1 \notin s.clo
        /\ IF list[j] = -1 THEN s.tab[j - 1] = NoFile ELSE Gets(list, t, j, s.tab[j - 1])
    BY Zenon, <1>3 DEF Lower
  <2>2. j - 1 \in Fds /\ j - 1 \notin n..2
    BY <1>1
  <2>3. e[j - 1] = s.tab[j - 1]
    BY Zenon, <1>0, <1>7, <2>1, <2>2
  <2> QED BY Zenon, <2>1, <2>2, <2>3
<1>5. ASSUME NEW m \in Fds, e[m] # NoFile
      PROVE  m \in 0..(n - 1) /\ \E i \in 1..n : list[i] # -1 /\ e[m] = t[list[i]]
  <2>1. m \notin s.clo /\ m \notin n..2 /\ e[m] = s.tab[m]
    BY Zenon, <1>0, <1>5, <1>7
  <2>2. m \in Int /\ m >= 0
    BY <1>1
  <2>3. ~(m >= 3)
    BY Zenon, <1>3, <1>5, <2>1 DEF Sound
  <2>4. m \in 0..(n - 1) /\ m + 1 \in 1..n /\ (m + 1) - 1 = m
    BY <2>1, <2>2, <2>3
  <2>5. Gets(list, t, m + 1, e[m])
    BY Zenon, <1>4, <1>5, <2>4
  <2> QED BY Zenon, <1>0, <2>4, <2>5 DEF Gets
<1>6. Movable(list) => \A j \in 1..n : e[j - 1] = IF list[j] = -1 THEN NoFile ELSE t[list[j]]
  BY Zenon, <1>4 DEF Gets
<1>8. Inherits(list, t, e)
  BY Zenon, <1>0, <1>5, <1>6 DEF Inherits
<1> QED BY Zenon, <1>8 DEF e

\* A child that fails says so on the pipe it was given.
Tells(s, file) == s.tab[s.pipe] = file

LEMMA ErrorTold ==
    ASSUME NEW list, NEW t, NEW c, NEW pipe, Start(list, t, c, pipe),
           NEW k \in DOMAIN Stage(list, t, c, pipe), NEW s \in Stage(list, t, c, pipe)[k]
    PROVE  Tells(s, t[pipe])
<1>1. Stages(list, t, pipe, k, s)
  BY Zenon, StageHolds
<1> QED BY Zenon, <1>1 DEF Stages, Sound, Tells

-----------------------------------------------------------------------------
(***************************************************************************)
(* What becomes of the child                                               *)
(***************************************************************************)
\* At most three files are passed, as exec.Run and the callers of os.ForkExec
\* do.  With four or more, the status pipe can be the descriptor len(fd), which
\* SavePipe leaves where it is and pass 1 then overwrites.
ShortLists == \A list \in FdLists : Len(list) <= 3

\* The child was forked and has not called exec.
Between(g) ==
    LET c == child[g]
    IN  /\ Start(fd[g], c.tab, c.clo, p[g][2])
        /\ c.tab[p[g][2]] = File(g, 3, "w")
        /\ \A j \in 1..Len(fd[g]) :
              Asked(g, j - 1) = IF fd[g][j] = -1 THEN NoFile ELSE c.tab[fd[g][j]]

\* Fork has returned and the status pipe has not been read.
Launched == {"forked", "close", "read"}

\* What the child of g is, by where g is.
Child(g) ==
    /\ child[g].st \in {"none", "forked", "running", "exited", "failed"}
    /\ at[g] \in {"started", "running"} => child[g].st \in {"running", "exited"}
    /\ at[g] = "wait4" => child[g].st = "failed"
    /\ at[g] = "error" => child[g].st \in {"none", "failed"}
    /\ at[g] \in Launched => child[g].st # "none"
    /\ at[g] \notin Launched \cup {"started", "running", "wait4", "error"} => child[g].st = "none"
    /\ at[g] \in Launched /\ child[g].st = "failed" => File(g, 3, "w") \in sent
    /\ File(g, 3, "w") \in sent => at[g] \in Launched /\ child[g].st = "failed"
    /\ child[g].st = "forked" => Between(g)
    /\ child[g].st = "running" =>
          /\ \A n \in Fds : child[g].tab[n] # NoFile =>
                n \in Positions(g) /\ \E i \in Positions(g) : child[g].tab[n] = Asked(g, i)
          /\ Movable(fd[g]) => AsAsked(g)

CInv == \A g \in G : Child(g)

-----------------------------------------------------------------------------
\* The child of g has written an errno.
Told(g) == File(g, 3, "w") \in sent
Settled == {"started", "running"}

\* Nothing that says what the child of x is has changed.
Same(x) ==
    /\ child'[x] = child[x] /\ fd'[x] = fd[x] /\ op'[x] = op[x] /\ mode'[x] = mode[x]
    /\ child[x].st = "forked" => p'[x] = p[x]
    /\ Told(x)' <=> Told(x)
    /\ \/ at'[x] = at[x]
       \/ at[x] \in Launched /\ at'[x] \in Launched
       \/ at[x] \in Settled /\ at'[x] \in Settled

LEMMA SameChild ==
    ASSUME NEW x \in G, Child(x), Same(x) PROVE Child(x)'
<1>1. /\ child'[x] = child[x] /\ fd'[x] = fd[x] /\ op'[x] = op[x] /\ mode'[x] = mode[x]
      /\ child[x].st = "forked" => p'[x] = p[x]
      /\ File(x, 3, "w") \in sent' <=> File(x, 3, "w") \in sent
  BY Zenon DEF Same, Told
<1>2. /\ at'[x] \in Launched <=> at[x] \in Launched
      /\ at'[x] \in {"started", "running"} <=> at[x] \in {"started", "running"}
      /\ at'[x] = "wait4" <=> at[x] = "wait4"
      /\ at'[x] = "error" <=> at[x] = "error"
  BY DEF Same, Launched, Settled
<1>3. at'[x] \notin Launched \cup {"started", "running", "wait4", "error"} <=>
      at[x] \notin Launched \cup {"started", "running", "wait4", "error"}
  BY <1>2
<1>4. \A i : Asked(x, i)' = Asked(x, i)
  BY Zenon, <1>1 DEF Asked
<1>5. Positions(x)' = Positions(x) /\ (AsAsked(x) => AsAsked(x)')
  <2>1. Positions(x)' = Positions(x)
    BY Zenon, <1>1 DEF Positions
  <2> QED BY Zenon, <1>1, <1>4, <2>1 DEF AsAsked
<1>6. child[x].st = "forked" /\ Between(x) => Between(x)'
  <2> SUFFICES ASSUME child[x].st = "forked", Between(x) PROVE Between(x)'
    BY Zenon
  <2>1. p'[x] = p[x] /\ fd'[x] = fd[x] /\ child'[x] = child[x]
    BY Zenon, <1>1
  <2> QED BY Zenon, <1>4, <2>1 DEF Between
<1>7. child[x].st = "forked" => Between(x)'
  BY Zenon, <1>6 DEF Child
<1>8. child[x].st = "running" =>
          /\ \A n \in Fds : child[x].tab[n] # NoFile =>
                n \in Positions(x)' /\ \E i \in Positions(x)' : child[x].tab[n] = Asked(x, i)'
          /\ Movable(fd[x]) => AsAsked(x)'
  BY Zenon, <1>4, <1>5 DEF Child
<1> QED BY Zenon, <1>1, <1>2, <1>3, <1>7, <1>8 DEF Child

\* There is no child, and none is expected.
LEMMA NoneChild ==
    ASSUME NEW g \in G, child'[g].st = "none", ~Told(g)',
           at'[g] \notin Launched \cup Settled \cup {"wait4"}
    PROVE  Child(g)'
<1>1. /\ at'[g] \notin Launched /\ at'[g] \notin {"started", "running"} /\ at'[g] # "wait4"
      /\ File(g, 3, "w") \notin sent'
  BY Zenon DEF Settled, Told
<1> QED BY Zenon, <1>1 DEF Child

\* A step that is one of g.
COwn(g) ==
    \A x \in G : x # g =>
        /\ child'[x] = child[x] /\ at'[x] = at[x] /\ fd'[x] = fd[x] /\ op'[x] = op[x]
        /\ mode'[x] = mode[x] /\ p'[x] = p[x] /\ (Told(x)' <=> Told(x))

LEMMA COwnStep ==
    ASSUME CInv, NEW g \in G, COwn(g), Child(g)' PROVE CInv'
<1>1. ASSUME NEW x \in G, x # g PROVE Child(x)'
  <2>1. Same(x) /\ Child(x)
    BY Zenon, <1>1 DEF COwn, Same, CInv
  <2> QED BY Zenon, <2>1, SameChild
<1> QED BY Zenon, <1>1 DEF CInv

\* Before it forks a call has no child.
LEMMA NotYet ==
    ASSUME CInv, NEW g \in G,
           at[g] \notin Launched \cup Settled \cup {"wait4", "error"}
    PROVE  child[g].st = "none" /\ ~Told(g)
<1>1. at[g] \notin Launched /\ at[g] \notin Launched \cup {"started", "running", "wait4", "error"}
  BY DEF Settled
<1> QED BY Zenon, <1>1 DEF CInv, Child, Told

\* A step of g before it forks, or of a call that does not.
Before(g) ==
    /\ at[g] \in Opening \cup {"idle", "modeToFiles", "forkExec", "pipe", "fcntl", "fork",
                               "failed", "cleaned"}
    /\ at'[g] \in Opening \cup {"modeToFiles", "forkExec", "pipe", "fcntl", "fork"} \cup Failing
    /\ child' = child /\ sent' = sent /\ COwn(g)

LEMMA BeforeCInv ==
    ASSUME CInv, NEW g \in G, Before(g) PROVE CInv'
<1>1. /\ at[g] \notin Launched \cup Settled \cup {"wait4", "error"}
      /\ at'[g] \notin Launched \cup Settled \cup {"wait4"}
  BY DEF Before, Opening, Failing, Launched, Settled
<1>2. child'[g].st = "none" /\ ~Told(g)'
  BY Zenon, <1>1, NotYet DEF Before, Told
<1>3. Child(g)'
  BY Zenon, <1>1, <1>2, NoneChild
<1> QED BY Zenon, <1>3, COwnStep DEF Before

LEMMA BeforeActs ==
    ASSUME KInv, CInv, NEW g \in G,
           \/ Calling(g) \/ ReadLock(g) \/ ReadUnlock(g) \/ WriteLock(g) \/ Create(g)
           \/ MarkCloseOnExec(g) \/ modeToFiles(g) \/ Piped(g) \/ StatusPipe(g)
           \/ MarkStatusPipe(g) \/ ForkFails(g) \/ CloseStatusPipe(g)
    PROVE  CInv'
<1> SUFFICES Before(g)
  BY Zenon, BeforeCInv
<1>0. /\ DOMAIN at = G /\ DOMAIN op = G /\ DOMAIN mode = G /\ DOMAIN fd = G /\ DOMAIN cmd = G
      /\ DOMAIN p = G
  BY Zenon DEF KInv, KTypes
<1>1. child' = child /\ sent' = sent
  BY Zenon DEF Calling, Run, OsForkExec, Socket, ReadLock, ReadUnlock, WriteLock, Create,
               MarkCloseOnExec, modeToFiles, Piped, StatusPipe, MarkStatusPipe, ForkFails,
               CloseStatusPipe, kernel
<1>2. \A x \in G : x # g => fd'[x] = fd[x] /\ op'[x] = op[x] /\ mode'[x] = mode[x] /\ p'[x] = p[x]
  <2>1. CASE Calling(g)
    BY Zenon, <1>0, <2>1 DEF Calling, Run, OsForkExec, Socket
  <2>2. CASE modeToFiles(g) \/ Piped(g)
    BY Zenon, <1>0, <2>2 DEF modeToFiles, Piped, Chosen
  <2>3. CASE Create(g) \/ StatusPipe(g) \/ CloseStatusPipe(g)
    BY Zenon, <1>0, <2>3 DEF Create, StatusPipe, CloseStatusPipe, Made
  <2>4. CASE \/ ReadLock(g) \/ ReadUnlock(g) \/ WriteLock(g)
             \/ MarkCloseOnExec(g) \/ MarkStatusPipe(g) \/ ForkFails(g)
    BY Zenon, <2>4 DEF ReadLock, ReadUnlock, WriteLock, MarkCloseOnExec, MarkStatusPipe, ForkFails
  <2> QED BY Zenon, <2>1, <2>2, <2>3, <2>4
<1>3. \E to : /\ at' = [at EXCEPT ![g] = to]
              /\ to \in Opening \cup {"modeToFiles", "forkExec", "pipe", "fcntl", "fork"} \cup Failing
              /\ at[g] \in Opening \cup {"idle", "modeToFiles", "forkExec", "pipe", "fcntl", "fork",
                                         "failed", "cleaned"}
  <2>1. CASE Calling(g)
    BY Zenon, <2>1 DEF Calling, Run, OsForkExec, Socket, Step, Opening
  <2>2. CASE modeToFiles(g)
    BY Zenon, <2>2 DEF modeToFiles, Chosen, Step, Opening, Failing
  <2>3. CASE Piped(g)
    BY Zenon, <2>3 DEF Piped, Chosen, Opening
  <2>4. CASE Create(g) \/ MarkCloseOnExec(g)
    BY Zenon, <2>4 DEF Create, MarkCloseOnExec, Step, Opening, Failing
  <2>5. CASE ReadLock(g) \/ ReadUnlock(g)
    BY Zenon, <2>5 DEF ReadLock, ReadUnlock, Step, Opening, Failing
  <2>6. CASE WriteLock(g) \/ StatusPipe(g) \/ MarkStatusPipe(g) \/ ForkFails(g) \/ CloseStatusPipe(g)
    BY Zenon, <2>6 DEF WriteLock, StatusPipe, MarkStatusPipe, ForkFails, CloseStatusPipe, Step, Failing
  <2> QED BY Zenon, <2>1, <2>2, <2>3, <2>4, <2>5, <2>6
<1>4. COwn(g)
  BY Zenon, <1>0, <1>1, <1>2, <1>3 DEF COwn, Told
<1> QED BY Zenon, <1>0, <1>1, <1>3, <1>4 DEF Before

\* The steps that say nothing new about a child.
LEMMA LaterCInv ==
    ASSUME KInv, CInv, NEW g \in G,
           Locking(g) \/ WriteUnlock(g) \/ CloseWriteEnd(g) \/ Started(g) \/ Wait4(g)
    PROVE  CInv'
<1>1. /\ child' = child /\ sent' = sent /\ fd' = fd /\ op' = op /\ mode' = mode /\ p' = p
  BY Zenon DEF Locking, WriteUnlock, CloseWriteEnd, Started, Wait4, client, kernel
<1>2. \/ at' = at
      \/ at[g] \in Launched /\ \E to \in Launched : at' = [at EXCEPT ![g] = to]
      \/ at[g] \in Settled /\ \E to \in Settled : at' = [at EXCEPT ![g] = to]
      \/ at[g] = "wait4" /\ child[g].st = "failed" /\ at' = [at EXCEPT ![g] = "error"]
      \/ at[g] = "cleaned" /\ at' = [at EXCEPT ![g] = "error"]
  BY Zenon DEF Locking, WriteUnlock, CloseWriteEnd, Started, Wait4, client, Step, Launched, Settled
<1>3. \A x \in G : x # g => at'[x] = at[x]
  BY Zenon, <1>2 DEF KInv, KTypes
<1>4. COwn(g)
  BY Zenon, <1>1, <1>3 DEF COwn, Told
<1>5. \/ Same(g)
      \/ at[g] = "wait4" /\ child[g].st = "failed" /\ at'[g] = "error"
      \/ at[g] = "cleaned" /\ at'[g] = "error"
  <2>1. \/ at'[g] = at[g]
        \/ at[g] \in Launched /\ at'[g] \in Launched
        \/ at[g] \in Settled /\ at'[g] \in Settled
        \/ at[g] = "wait4" /\ child[g].st = "failed" /\ at'[g] = "error"
        \/ at[g] = "cleaned" /\ at'[g] = "error"
    BY Zenon, <1>2 DEF KInv, KTypes
  <2> QED BY Zenon, <1>1, <2>1 DEF Same, Told
<1>6. CASE Same(g)
  <2>1. Child(g)'
    BY Zenon, <1>6, SameChild DEF CInv
  <2> QED BY Zenon, <1>4, <2>1, COwnStep
<1>7. CASE at[g] = "wait4" /\ child[g].st = "failed" /\ at'[g] = "error"
  <2>1. at[g] \notin Launched /\ at'[g] \notin Launched
    BY <1>7 DEF Launched
  <2>2. File(g, 3, "w") \notin sent'
    BY Zenon, <1>1, <2>1 DEF CInv, Child
  <2>3. Child(g)'
    BY Zenon, <1>1, <1>7, <2>1, <2>2 DEF Child
  <2> QED BY Zenon, <1>4, <2>3, COwnStep
<1>8. CASE at[g] = "cleaned" /\ at'[g] = "error"
  <2>1. Before(g)
    BY Zenon, <1>1, <1>4, <1>8 DEF Before, Failing
  <2> QED BY Zenon, <2>1, BeforeCInv
<1> QED BY Zenon, <1>5, <1>6, <1>7, <1>8

LEMMA ReturnCInv ==
    ASSUME KInv, CInv, NEW g \in G, CloseSocket(g) \/ Error(g) \/ CmdClose(g) PROVE CInv'
<1>1. /\ Return(g) /\ sent' = sent /\ at[g] \in {"opened", "error", "running"}
  BY Zenon DEF CloseSocket, Error, CmdClose
<1>2. /\ at'[g] = "idle" /\ child'[g] = NoChild
      /\ \A x \in G : x # g =>
            /\ child'[x] = child[x] /\ at'[x] = at[x] /\ fd'[x] = fd[x] /\ op'[x] = op[x]
            /\ mode'[x] = mode[x] /\ p'[x] = p[x]
  BY Zenon, <1>1 DEF Return, KInv, KTypes
<1>3. COwn(g)
  BY Zenon, <1>1, <1>2 DEF COwn, Told
<1>4. at[g] \notin Launched /\ at'[g] \notin Launched \cup Settled \cup {"wait4"}
  BY SMTT(30), <1>1, <1>2 DEF Launched, Settled
<1>5. child'[g].st = "none"
  BY <1>2 DEF NoChild, Gone
<1>6. ~Told(g)'
  BY Zenon, <1>1, <1>4 DEF CInv, Child, Told
<1>7. Child(g)'
  BY Zenon, <1>4, <1>5, <1>6, NoneChild
<1> QED BY Zenon, <1>3, <1>7, COwnStep

LEMMA ExitCInv ==
    ASSUME KInv, CInv, NEW g \in G, Exit(g) PROVE CInv'
<1>1. /\ at' = at /\ sent' = sent /\ fd' = fd /\ op' = op /\ mode' = mode /\ p' = p
      /\ child[g].st = "running" /\ child' = [child EXCEPT ![g] = Gone("exited")]
  BY Zenon DEF Exit, client
<1>2. child'[g] = Gone("exited") /\ \A x \in G : x # g => child'[x] = child[x]
  BY ZenonT(60), <1>1 DEF KInv, KTypes
<1>3. child'[g].st = "exited"
  BY <1>2 DEF Gone
<1>4. COwn(g)
  BY Zenon, <1>1, <1>2 DEF COwn, Told
<1>5. Child(g)
  BY Zenon DEF CInv
<1>6. /\ at[g] \in Launched \cup {"started", "running", "wait4", "error"}
      /\ at[g] # "wait4" /\ at[g] # "error" /\ File(g, 3, "w") \notin sent
  BY Zenon, <1>1, <1>5 DEF Child
<1>7. Child(g)'
  BY Zenon, <1>1, <1>3, <1>6 DEF Child
<1> QED BY Zenon, <1>4, <1>7, COwnStep

\* An errno, or the end of file: which of the two tells what became of the child.
LEMMA ReadStatusCInv ==
    ASSUME KInv, CInv, NEW g \in G, ReadStatus(g) PROVE CInv'
<1>1. /\ at[g] = "read" /\ sent' = sent \ {File(g, 3, "w")} /\ p' = [p EXCEPT ![g] = <<>>]
      /\ child' = child /\ fd' = fd /\ op' = op /\ mode' = mode
      /\ \/ File(g, 3, "w") \in sent /\ at' = [at EXCEPT ![g] = "wait4"]
         \/ /\ File(g, 3, "w") \notin sent /\ ~StatusOpen(g)
            /\ at' = [at EXCEPT ![g] = "started"]
  BY Zenon DEF ReadStatus, Step
<1>2. /\ \/ File(g, 3, "w") \in sent /\ at'[g] = "wait4"
         \/ File(g, 3, "w") \notin sent /\ ~StatusOpen(g) /\ at'[g] = "started"
      /\ \A x \in G : x # g => at'[x] = at[x] /\ p'[x] = p[x]
  BY Zenon, <1>1 DEF KInv, KTypes
<1>3. COwn(g)
  <2>1. \A x \in G : x # g => File(x, 3, "w") # File(g, 3, "w")
    BY DEF File
  <2>2. \A x \in G : x # g => (Told(x)' <=> Told(x))
    BY Zenon, <1>1, <2>1 DEF Told
  <2> QED BY Zenon, <1>1, <1>2, <2>2 DEF COwn
<1>4. Child(g) /\ at[g] \in Launched /\ at'[g] \notin Launched
  BY <1>1, <1>2 DEF CInv, Launched
<1>5. File(g, 3, "w") \notin sent'
  BY Zenon, <1>1
<1>6. CASE File(g, 3, "w") \in sent /\ at'[g] = "wait4"
  <2>1. child'[g].st = "failed"
    BY Zenon, <1>1, <1>4, <1>6 DEF Child
  <2>2. Child(g)'
    BY Zenon, <1>4, <1>5, <1>6, <2>1 DEF Child
  <2> QED BY Zenon, <1>3, <2>2, COwnStep
<1>7. CASE File(g, 3, "w") \notin sent /\ ~StatusOpen(g) /\ at'[g] = "started"
  <2>1. child[g].st # "forked"
    <3> SUFFICES ASSUME child[g].st = "forked" PROVE FALSE
      BY Zenon
    <3>1. Between(g)
      BY Zenon, <1>4 DEF Child
    <3>2. /\ DOMAIN child[g].tab = Fds /\ p[g][2] \in Fds
          /\ child[g].tab[p[g][2]] = File(g, 3, "w")
      BY Zenon, <3>1 DEF Between, Start
    <3>3. File(g, 3, "w") \in Range(child[g].tab)
      BY Zenon, <3>2 DEF Range
    <3> QED BY Zenon, <1>7, <3>3 DEF StatusOpen
  <2>2. child[g].st \in {"running", "exited"}
    BY Zenon, <1>4, <1>7, <2>1 DEF Child
  <2>3. \A i : Asked(g, i)' = Asked(g, i)
    BY Zenon, <1>1 DEF Asked
  <2>4. Positions(g)' = Positions(g)
    BY Zenon, <1>1 DEF Positions
  <2>5. AsAsked(g) => AsAsked(g)'
    BY Zenon, <1>1, <2>3, <2>4 DEF AsAsked
  <2>6. child[g].st = "running" =>
            /\ \A n \in Fds : child[g].tab[n] # NoFile =>
                  n \in Positions(g)' /\ \E i \in Positions(g)' : child[g].tab[n] = Asked(g, i)'
            /\ Movable(fd[g]) => AsAsked(g)'
    BY ZenonT(60), <1>4, <2>3, <2>4, <2>5 DEF Child
  <2>7. at'[g] # "wait4" /\ at'[g] # "error" /\ child[g].st # "failed"
    BY <1>7, <2>2
  <2>8. Child(g)'
    BY ZenonT(60), <1>1, <1>4, <1>5, <1>7, <2>1, <2>2, <2>6, <2>7 DEF Child
  <2> QED BY Zenon, <1>3, <2>8, COwnStep
<1> QED BY Zenon, <1>2, <1>6, <1>7

LEMMA ChildErrorCInv ==
    ASSUME KInv, CInv, NEW g \in G, ChildError(g) PROVE CInv'
<1>1. PICK c, list, pipe : c = child[g] /\ list = fd[g] /\ pipe = p[g][2]
  OBVIOUS
<1>2. /\ c.st = "forked" /\ child' = [child EXCEPT ![g] = Gone("failed")]
      /\ at' = at /\ fd' = fd /\ op' = op /\ mode' = mode /\ p' = p
      /\ \E k \in DOMAIN Stage(list, c.tab, c.clo, pipe) : \E s \in Stage(list, c.tab, c.clo, pipe)[k] :
            sent' = sent \cup {s.tab[s.pipe]}
  BY Zenon, <1>1 DEF ChildError, client
<1>3. Child(g)
  BY Zenon DEF CInv
<1>4. Start(list, c.tab, c.clo, pipe) /\ c.tab[pipe] = File(g, 3, "w")
  BY Zenon, <1>1, <1>2, <1>3 DEF Child, Between
<1>5. sent' = sent \cup {File(g, 3, "w")}
  <2>1. PICK k \in DOMAIN Stage(list, c.tab, c.clo, pipe) :
           \E s \in Stage(list, c.tab, c.clo, pipe)[k] : sent' = sent \cup {s.tab[s.pipe]}
    BY Zenon, <1>2
  <2>2. PICK s \in Stage(list, c.tab, c.clo, pipe)[k] : sent' = sent \cup {s.tab[s.pipe]}
    BY Zenon, <2>1
  <2>4. Tells(s, c.tab[pipe])
    BY Zenon, <1>4, ErrorTold
  <2>3. s.tab[s.pipe] = c.tab[pipe]
    BY Zenon, <2>4 DEF Tells
  <2> QED BY Zenon, <1>4, <2>2, <2>3
<1>6. child'[g] = Gone("failed") /\ \A x \in G : x # g => child'[x] = child[x]
  BY Zenon, <1>2 DEF KInv, KTypes
<1>7. COwn(g)
  <2>1. \A x \in G : x # g => File(x, 3, "w") # File(g, 3, "w")
    BY DEF File
  <2>2. \A x \in G : x # g => (Told(x)' <=> Told(x))
    BY ZenonT(60), <1>5, <2>1 DEF Told
  <2> QED BY Zenon, <1>2, <1>6, <2>2 DEF COwn
<1>8. child'[g].st = "failed"
  BY <1>6 DEF Gone
<1>9. at[g] \in Launched
  BY Zenon, <1>1, <1>2, <1>3 DEF Child
<1>10. at[g] # "started" /\ at[g] # "running" /\ at[g] # "wait4" /\ at[g] # "error"
  BY <1>9 DEF Launched
<1>11. Child(g)'
  BY Zenon, <1>2, <1>5, <1>8, <1>9, <1>10 DEF Child
<1> QED BY Zenon, <1>7, <1>11, COwnStep

LEMMA ExecCInv ==
    ASSUME KInv, CInv, NEW g \in G, Exec(g) PROVE CInv'
<1>1. PICK c, list, pipe : c = child[g] /\ list = fd[g] /\ pipe = p[g][2]
  OBVIOUS
<1>2. PICK s \in Stage(list, c.tab, c.clo, pipe)[2 * Len(list)] :
         child' = [child EXCEPT ![g] =
                      [st |-> "running", clo |-> {}, tab |-> AfterExec(list, s)]]
  <2>1. PICK s \in Stage(fd[g], child[g].tab, child[g].clo, p[g][2])[2 * Len(fd[g])] :
           child' = [child EXCEPT ![g] =
                        [st |-> "running", clo |-> {}, tab |-> AfterExec(fd[g], s)]]
    BY Zenon DEF Exec, AfterExec
  <2> QED BY Zenon, <1>1, <2>1
<1>3. PICK e : e = AfterExec(list, s)
  OBVIOUS
<1>4. /\ c.st = "forked" /\ sent' = sent
      /\ at' = at /\ fd' = fd /\ op' = op /\ mode' = mode /\ p' = p
  BY Zenon, <1>1 DEF Exec, client
<1>5. /\ child'[g] = [st |-> "running", clo |-> {}, tab |-> e]
      /\ \A x \in G : x # g => child'[x] = child[x]
  BY Zenon, <1>2, <1>3 DEF KInv, KTypes
<1>6. child'[g].st = "running" /\ child'[g].tab = e
  BY <1>5
<1>7. Child(g)
  BY Zenon DEF CInv
<1>8. /\ Start(list, c.tab, c.clo, pipe)
      /\ \A j \in 1..Len(list) : Asked(g, j - 1) = IF list[j] = -1 THEN NoFile ELSE c.tab[list[j]]
  BY Zenon, <1>1, <1>4, <1>7 DEF Child, Between
<1>9. /\ \A m \in Fds : e[m] # NoFile =>
            /\ m \in 0..(Len(list) - 1)
            /\ \E i \in 1..Len(list) : list[i] # -1 /\ e[m] = c.tab[list[i]]
      /\ Movable(list) =>
            \A j \in 1..Len(list) : e[j - 1] = IF list[j] = -1 THEN NoFile ELSE c.tab[list[j]]
  <2>1. Inherits(list, c.tab, e)
    BY Zenon, <1>3, <1>8, ExecLeaves
  <2> QED BY Zenon, <2>1 DEF Inherits
<1>10. PICK n \in 0..3 : n = Len(list)
  BY Zenon, <1>8 DEF Start
<1>11. /\ \A j \in 1..Len(list) : j - 1 \in 0..(Len(list) - 1)
       /\ \A i \in 0..(Len(list) - 1) : i + 1 \in 1..Len(list) /\ (i + 1) - 1 = i
  <2>1. /\ \A j \in 1..n : j - 1 \in 0..(n - 1)
        /\ \A i \in 0..(n - 1) : i + 1 \in 1..n /\ (i + 1) - 1 = i
    BY ONLY n \in 0..3
  <2> QED BY Zenon, <1>10, <2>1
<1>12. Positions(g) = 0..(Len(list) - 1) /\ Positions(g)' = 0..(Len(list) - 1)
  BY Zenon, <1>1, <1>4 DEF Positions
<1>13. \A i : Asked(g, i)' = Asked(g, i)
  BY Zenon, <1>4 DEF Asked
<1>14. \A m \in Fds : e[m] # NoFile =>
          m \in Positions(g)' /\ \E i \in Positions(g)' : e[m] = Asked(g, i)'
  <2> SUFFICES ASSUME NEW m \in Fds, e[m] # NoFile
               PROVE  m \in Positions(g)' /\ \E i \in Positions(g)' : e[m] = Asked(g, i)'
    BY Zenon
  <2>1. PICK i \in 1..Len(list) : list[i] # -1 /\ e[m] = c.tab[list[i]]
    BY Zenon, <1>9
  <2>2. e[m] = Asked(g, i - 1)
    BY Zenon, <1>8, <2>1
  <2> QED BY Zenon, <1>9, <1>11, <1>12, <1>13, <2>2
<1>15. Movable(list) => AsAsked(g)'
  <2> SUFFICES ASSUME Movable(list), NEW i \in 0..(Len(list) - 1) PROVE e[i] = Asked(g, i)
    BY Zenon, <1>6, <1>12, <1>13 DEF AsAsked
  <2>1. PICK j \in 1..Len(list) : j - 1 = i
    BY Zenon, <1>11
  <2>2. e[j - 1] = Asked(g, j - 1)
    BY Zenon, <1>8, <1>9
  <2> QED BY Zenon, <2>1, <2>2
<1>16. COwn(g)
  BY Zenon, <1>4, <1>5 DEF COwn, Told
<1>17. at[g] \in Launched /\ File(g, 3, "w") \notin sent
  BY Zenon, <1>1, <1>4, <1>7 DEF Child
<1>18. at[g] # "started" /\ at[g] # "running" /\ at[g] # "wait4" /\ at[g] # "error"
  BY <1>17 DEF Launched
<1>19. Movable(fd'[g]) => AsAsked(g)'
  BY Zenon, <1>1, <1>4, <1>15
<1>20. Child(g)'
  BY ZenonT(60), <1>4, <1>6, <1>14, <1>17, <1>18, <1>19 DEF Child
<1> QED BY Zenon, <1>16, <1>20, COwnStep

\* What Run and os.ForkExec have for position j is what was asked for.
LEMMA AskedHere ==
    ASSUME KInv, NEW g \in G, op[g] = "Run", at[g] \in Forking, at[g] # "running", NEW j \in 1..3
    PROVE  fd[g][j] \in Fds /\ Asked(g, j - 1) = tab[fd[g][j]]
<1>0. (j - 1) + 1 = j /\ 1 + 1 = 2 /\ 2 \in 1..3 /\ 0..2 \subseteq Fds /\ j - 1 \in 0..2
  BY ForkAssumption DEF Fds
<1>1. \A k \in 1..3 : Stream(g, k)
  BY Zenon, RunHas
<1>2. ASSUME NEW k \in 1..3, mode[g][k] # "MergeWithStdout"
      PROVE  /\ fd[g][k] \in Fds
             /\ tab[fd[g][k]] =
                   CASE mode[g][k] = "PassThrough" -> Std(k - 1)
                     [] mode[g][k] = "DevNull"     -> File(g, k - 1, "null")
                     [] OTHER                      -> File(g, k - 1, IF k - 1 = 0 THEN "r" ELSE "w")
  <2>1. Stream(g, k) /\ k - 1 \in 0..2 /\ (k - 1 = 0 <=> k = 1) /\ 0..2 \subseteq Fds
    BY <1>1, <1>0
  <2>2. CASE mode[g][k] = "DevNull"
    <3>1. fd[g][k] \in Fds /\ tab[fd[g][k]] = File(g, k - 1, "null")
      BY Zenon, <2>1, <2>2 DEF Stream
    <3> QED BY <2>2, <3>1
  <2>3. CASE mode[g][k] = "PassThrough"
    <3>1. fd[g][k] = k - 1
      BY Zenon, <2>1, <2>3 DEF Stream
    <3>2. fd[g][k] \in Fds /\ tab[fd[g][k]] = Std(k - 1)
      BY Zenon, <2>1, <3>1 DEF KInv, KTypes
    <3> QED BY <2>3, <3>2
  <2>4. CASE mode[g][k] = "Pipe"
    <3>1. fd[g][k] \in Fds /\ tab[fd[g][k]] = File(g, k - 1, Given(k))
      BY Zenon, <2>1, <2>4 DEF Stream
    <3>2. Given(k) = IF k - 1 = 0 THEN "r" ELSE "w"
      BY Zenon, <2>1 DEF Given
    <3> QED BY <2>4, <3>1, <3>2
  <2> QED BY Zenon, <1>2, <2>1, <2>2, <2>3, <2>4 DEF Stream
<1>3. CASE mode[g][j] # "MergeWithStdout"
  BY <1>0, <1>2, <1>3 DEF Asked
<1>4. CASE mode[g][j] = "MergeWithStdout"
  <2>1. j = 3 /\ fd[g][3] = fd[g][2]
    BY Zenon, <1>1, <1>4 DEF Stream
  <2>2. mode[g][2] # "MergeWithStdout"
    <3>1. Stream(g, 2) /\ 2 # 3
      BY <1>1
    <3> QED BY Zenon, <3>1 DEF Stream
  <2>3. /\ fd[g][2] \in Fds
        /\ tab[fd[g][2]] =
              CASE mode[g][2] = "PassThrough" -> Std(1)
                [] mode[g][2] = "DevNull"     -> File(g, 1, "null")
                [] OTHER                      -> File(g, 1, "w")
    <3>1. 2 \in 1..3 /\ 2 - 1 = 1 /\ 1 # 0
      OBVIOUS
    <3> QED BY <1>2, <2>2, <3>1
  <2>4. Asked(g, 2) =
              CASE mode[g][2] = "PassThrough" -> Std(1)
                [] mode[g][2] = "DevNull"     -> File(g, 1, "null")
                [] OTHER                      -> File(g, 1, "w")
    BY <1>4, <2>1 DEF Asked
  <2>5. j - 1 = 2
    BY <2>1
  <2> QED BY Zenon, <2>1, <2>3, <2>4, <2>5
<1> QED BY <1>3, <1>4

\* At the fork everything is marked, and the list names what is asked for.
LEMMA ForkStarts ==
    ASSUME ShortLists, KInv, NEW g \in G, at[g] = "fork",
           \A n \in Fds : tab[n] # NoFile /\ tab[n][1] # "std" => n \in clo
    PROVE  /\ Start(fd[g], tab, clo, p[g][2]) /\ tab[p[g][2]] = File(g, 3, "w")
           /\ \A j \in 1..Len(fd[g]) :
                 Asked(g, j - 1) = IF fd[g][j] = -1 THEN NoFile ELSE tab[fd[g][j]]
<1>0. -1 \notin Fds /\ \A n \in Fds : n \in Int
  BY ForkAssumption DEF Fds
<1>1. PipeEnds(g, 3)
  BY Zenon DEF KInv, Ends, Status
<1>2. p[g][2] \in Fds /\ p[g][2] >= 4 /\ tab[p[g][2]] = File(g, 3, "w")
  BY Zenon, <1>1 DEF PipeEnds
<1>3. \A m \in Fds : m >= 3 /\ tab[m] # NoFile => m \in clo
  <2> SUFFICES ASSUME NEW m \in Fds, m >= 3, tab[m] # NoFile PROVE m \in clo
    BY Zenon
  <2>1. ~(m < 3)
    BY <1>0
  <2> QED BY Zenon, <2>1 DEF KInv, StdLow
<1>4. /\ Len(fd[g]) \in 0..3 /\ fd[g] \in [1..Len(fd[g]) -> Fds \cup {-1}]
      /\ \A j \in 1..Len(fd[g]) :
            Asked(g, j - 1) = IF fd[g][j] = -1 THEN NoFile ELSE tab[fd[g][j]]
  <2>1. CASE op[g] = "ForkExec"
    <3>1. fd[g] \in FdLists
      BY Zenon, <2>1 DEF KInv, Place
    <3>2. fd[g] \in Seq({-1, 0, 1, 2}) /\ Len(fd[g]) <= 3
      BY <3>1, ForkAssumption DEF ShortLists
    <3>3. {-1, 0, 1, 2} \subseteq Fds \cup {-1} /\ {0, 1, 2} = 0..2
      BY ForkAssumption DEF Fds
    <3>4. fd[g] \in [1..Len(fd[g]) -> {-1, 0, 1, 2}] /\ Len(fd[g]) \in 0..3
      <4>1. PICK T, f : T = {-1, 0, 1, 2} /\ f = fd[g]
        BY Zenon
      <4>2. f \in Seq(T) /\ Len(f) <= 3
        BY Zenon, <3>2, <4>1
      <4>3. f \in [1..Len(f) -> T] /\ Len(f) \in Nat
        BY ONLY <4>2
      <4>4. Len(f) \in 0..3
        BY ONLY <4>2, <4>3
      <4> QED BY Zenon, <4>1, <4>3, <4>4
    <3>5. ASSUME NEW j \in 1..Len(fd[g])
          PROVE  Asked(g, j - 1) = IF fd[g][j] = -1 THEN NoFile ELSE tab[fd[g][j]]
      <4>1. fd[g][j] = -1 \/ fd[g][j] \in 0..2
        BY <3>3, <3>4
      <4>2. (j - 1) + 1 = j
        BY <3>4
      <4>3. Asked(g, j - 1) = IF fd[g][j] = -1 THEN NoFile ELSE Std(fd[g][j])
        BY <2>1, <4>2 DEF Asked
      <4>4. fd[g][j] \in 0..2 => tab[fd[g][j]] = Std(fd[g][j])
        BY Zenon DEF KInv, KTypes
      <4> QED BY Zenon, <4>1, <4>3, <4>4
    <3>6. fd[g] \in [1..Len(fd[g]) -> Fds \cup {-1}]
      BY <3>3, <3>4
    <3> QED BY Zenon, <3>4, <3>5, <3>6
  <2>2. CASE op[g] = "Run"
    <3>1. at[g] \in Forking /\ at[g] # "running"
      BY DEF Forking
    <3>2. Len(fd[g]) = 3 /\ DOMAIN fd[g] = 1..3 /\ fd[g] \in Seq(Int)
      BY <2>2, <3>1, RunHas
    <3>3. \A j \in 1..3 : fd[g][j] \in Fds /\ Asked(g, j - 1) = tab[fd[g][j]]
      BY Zenon, <2>2, <3>1, AskedHere
    <3>4. fd[g] \in [1..3 -> Fds \cup {-1}]
      BY <3>2, <3>3
    <3>5. 3 \in 0..3
      OBVIOUS
    <3> QED BY Zenon, <1>0, <3>2, <3>3, <3>4, <3>5
  <2>3. op[g] \in {"ForkExec", "Run"}
    BY DEF KInv, Place, Opening, Failing
  <2> QED BY <2>1, <2>2, <2>3
<1>5. Start(fd[g], tab, clo, p[g][2])
  BY Zenon, <1>2, <1>3, <1>4 DEF Start, KInv, KTypes
<1> QED BY Zenon, <1>2, <1>4, <1>5

LEMMA ForkCInv ==
    ASSUME ShortLists, KInv, CInv, NEW g \in G, Fork(g), CleanFork(g) PROVE CInv'
<1>1. /\ at[g] = "fork" /\ at' = [at EXCEPT ![g] = "forked"] /\ sent' = sent
      /\ child' = [child EXCEPT ![g] = [st |-> "forked", tab |-> tab, clo |-> clo]]
      /\ fd' = fd /\ op' = op /\ mode' = mode /\ p' = p
  BY Zenon DEF Fork, Step
<1>2. /\ at'[g] = "forked" /\ child'[g] = [st |-> "forked", tab |-> tab, clo |-> clo]
      /\ \A x \in G : x # g => at'[x] = at[x] /\ child'[x] = child[x]
  BY Zenon, <1>1 DEF KInv, KTypes
<1>3. child'[g].st = "forked" /\ child'[g].tab = tab /\ child'[g].clo = clo
  BY <1>2
<1>4. COwn(g)
  BY Zenon, <1>1, <1>2 DEF COwn, Told
<1>5. child[g].st = "none" /\ ~Told(g)
  <2>1. at[g] \notin Launched \cup Settled \cup {"wait4", "error"}
    BY <1>1 DEF Launched, Settled
  <2> QED BY Zenon, <2>1, NotYet
<1>6. \A n \in Fds : tab[n] # NoFile /\ tab[n][1] # "std" => n \in clo
  BY Zenon, <1>3, <1>5 DEF CleanFork
<1>7. /\ Start(fd[g], tab, clo, p[g][2]) /\ tab[p[g][2]] = File(g, 3, "w")
      /\ \A j \in 1..Len(fd[g]) :
            Asked(g, j - 1) = IF fd[g][j] = -1 THEN NoFile ELSE tab[fd[g][j]]
  BY Zenon, <1>1, <1>6, ForkStarts
<1>8. Between(g)'
  <2>1. \A i : Asked(g, i)' = Asked(g, i)
    BY Zenon, <1>1 DEF Asked
  <2> QED BY Zenon, <1>1, <1>3, <1>7, <2>1 DEF Between
<1>9. Child(g)'
  <2>1. at'[g] \in Launched /\ at'[g] # "started" /\ at'[g] # "running" /\ at'[g] # "wait4"
        /\ at'[g] # "error"
    BY <1>2 DEF Launched
  <2> QED BY Zenon, <1>1, <1>3, <1>5, <1>8, <2>1 DEF Child, Told
<1> QED BY Zenon, <1>4, <1>9, COwnStep

-----------------------------------------------------------------------------
LEMMA CInitInv == FInit => CInv
<1> SUFFICES ASSUME FInit, NEW g \in G PROVE Child(g)
  BY Zenon DEF CInv
<1>1. child[g] = NoChild /\ at[g] = "idle" /\ sent = {}
  BY Zenon DEF FInit
<1>2. child[g].st = "none"
  BY <1>1 DEF NoChild, Gone
<1>3. at[g] \notin Launched /\ at[g] \notin {"started", "running", "wait4", "error"}
  BY <1>1 DEF Launched
<1> QED BY Zenon, <1>1, <1>2, <1>3 DEF Child

LEMMA CStep ==
    ASSUME ShortLists, KInv, CInv, FNext, \A x \in G : CleanFork(x) PROVE CInv'
<1>1. PICK g \in G : Calling(g) \/ Working(g) \/ ChildStep(g) \/ Exit(g)
  BY Zenon DEF FNext
<1>2. CASE \/ Calling(g) \/ ReadLock(g) \/ ReadUnlock(g) \/ WriteLock(g) \/ Create(g)
           \/ MarkCloseOnExec(g) \/ modeToFiles(g) \/ Piped(g) \/ StatusPipe(g)
           \/ MarkStatusPipe(g) \/ ForkFails(g) \/ CloseStatusPipe(g)
  BY Zenon, <1>2, BeforeActs
<1>3. CASE Locking(g) \/ WriteUnlock(g) \/ CloseWriteEnd(g) \/ Started(g) \/ Wait4(g)
  BY Zenon, <1>3, LaterCInv
<1>4. CASE CloseSocket(g) \/ Error(g) \/ CmdClose(g)
  BY Zenon, <1>4, ReturnCInv
<1>5. CASE Fork(g)
  BY Zenon, <1>5, ForkCInv
<1>6. CASE ReadStatus(g)
  BY Zenon, <1>6, ReadStatusCInv
<1>7. CASE Exec(g)
  BY Zenon, <1>7, ExecCInv
<1>8. CASE ChildError(g)
  BY Zenon, <1>8, ChildErrorCInv
<1>9. CASE Exit(g)
  BY Zenon, <1>9, ExitCInv
<1> QED
  BY Zenon, <1>1, <1>2, <1>3, <1>4, <1>5, <1>6, <1>7, <1>8, <1>9 DEF Working, ChildStep

LEMMA CUnchanged ==
    ASSUME CInv, UNCHANGED fvars PROVE CInv'
<1>1. /\ at' = at /\ op' = op /\ mode' = mode /\ fd' = fd /\ p' = p /\ child' = child /\ sent' = sent
  BY Zenon DEF fvars, client, kernel
<1>2. ASSUME NEW x \in G PROVE Child(x)'
  <2>1. Same(x) /\ Child(x)
    BY Zenon, <1>1 DEF Same, Told, CInv
  <2> QED BY Zenon, <2>1, SameChild
<1> QED BY Zenon, <1>2 DEF CInv

LEMMA CNext ==
    ASSUME ShortLists, KInv, CInv, [FNext]_fvars, [\A g \in G : CleanFork(g)]_fvars PROVE CInv'
<1>1. CASE UNCHANGED fvars
  BY Zenon, <1>1, CUnchanged
<1>2. CASE FNext /\ \A g \in G : CleanFork(g)
  BY Zenon, <1>2, CStep
<1> QED BY Zenon, <1>1, <1>2
=============================================================================
