-------------------------------- MODULE Pipe --------------------------------
(***************************************************************************)
(* io.Pipe (io/pipe.go): goroutines that Read, Write and Close the two     *)
(* halves, and the goroutine of pipe.run that matches them.  Every channel *)
(* of the pipe is unbuffered, so a send and its receive are one step of    *)
(* both goroutines.  The two halves run the same code, indexed by h.       *)
(***************************************************************************)
EXTENDS Integers, Sequences, FiniteSets

CONSTANTS C,          \* goroutines that use the pipe
          Fin,        \* the goroutine that runs finalizers
          ReadLens,   \* bounds: lengths of the buffers passed to Read and to Write
          WriteLens,
          MaxCalls    \* bound: calls of Read, Write and Close

ASSUME PipeAssumption ==
    /\ Fin \notin C
    /\ ReadLens \subseteq Nat /\ WriteLens \subseteq Nat
    /\ MaxCalls \in Nat

Halves == {"r", "w"}
Other(h) == IF h = "r" THEN "w" ELSE "r"
Procs == C \cup {Fin}

VARIABLES
    \* local variables of pipe.run
    ready,     \* ready["r"]: r1 is not nil; ready["w"]: w1 is not nil
    rb, wb,    \* the room of the pending Read, the bytes left of the pending Write
    wn, ndone,
    cerr,      \* cerr["r"]: rerr; cerr["w"]: werr
    replies,   \* results that the current case has yet to send on r2 and w2
    \* the halves
    closed, io, ioclosed,      \* io[h]: who holds the mutex io, or "free"
    garbage,   \* nobody refers to the half any more
    \* the goroutines
    pc, half,  \* where each goroutine is, and on which half
    data,      \* the bytes (Write), the room (Read) or the error (close) it passes
    calls,
    \* history
    sizes,     \* the lengths of the Writes, in the order in which they got io
    got,       \* the bytes that Reads have returned
    ended      \* the results that Writes have returned, by position in sizes

run == <<ready, rb, wb, wn, ndone, cerr, replies>>
halves == <<closed, io, ioclosed, garbage>>
procs == <<pc, half, data, calls>>
history == <<sizes, got, ended>>
vars == <<run, halves, procs, history>>

\* Pipe(): go p.run() with Read and Write enabled, two open halves.
Init ==
    /\ ready = [h \in Halves |-> TRUE] /\ rb = 0 /\ wb = <<>> /\ wn = 0 /\ ndone = 0
    /\ cerr = [h \in Halves |-> "nil"] /\ replies = <<>>
    /\ closed = [h \in Halves |-> FALSE] /\ io = [h \in Halves |-> "free"]
    /\ ioclosed = closed /\ garbage = closed
    /\ pc = [c \in Procs |-> "idle"] /\ half = [c \in Procs |-> "r"]
    /\ data = [c \in Procs |-> 0] /\ calls = 0
    /\ sizes = <<>> /\ got = <<>> /\ ended = <<>>

Goto(c, l) == pc' = [pc EXCEPT ![c] = l] /\ half' = half

\* The call returns, its arguments are gone.
Return(c) ==
    /\ pc' = [pc EXCEPT ![c] = "idle"]
    /\ half' = [half EXCEPT ![c] = "r"]
    /\ data' = [data EXCEPT ![c] = 0]

(***************************************************************************)
(* Faulty variants                                                         *)
(***************************************************************************)
Selecting == replies = <<>> /\ ndone < 2

Reply(h, n, err) == [half |-> h, bytes |-> <<>>, n |-> n, err |-> err]

\* The Write is finished before the Read.
ExecuteWriteFirst(room, bytes) ==
    LET n == IF room < Len(bytes) THEN room ELSE Len(bytes)
        rest == SubSeq(bytes, n + 1, Len(bytes))
    IN  /\ wn' = wn + n
        /\ wb' = rest
        /\ replies' = (IF rest = <<>> THEN <<Reply("w", wn', "nil")>> ELSE <<>>)
                      \o <<[Reply("r", n, "nil") EXCEPT !.bytes = SubSeq(bytes, 1, n)]>>

\* ioclosed is set without waiting for the operation that holds io.
CloseIoUnlocked(c) ==
    /\ pc[c] = "ioclose"
    /\ ioclosed' = [ioclosed EXCEPT ![half[c]] = TRUE]
    /\ Goto(c, "done")
    /\ UNCHANGED <<run, closed, io, garbage, data, calls, history>>

\* Only the pending operation of the closed half is ended.
RunCloseOwn(c) ==
    LET h == half[c] IN
    /\ Selecting /\ pc[c] = "cclose"
    /\ cerr' = [cerr EXCEPT ![h] = data[c]]
    /\ replies' = IF ready[h] THEN <<>> ELSE <<Reply(h, IF h = "w" THEN wn ELSE 0, "EINVAL")>>
    /\ Goto(c, "ioclose")
    /\ UNCHANGED <<ready, rb, wb, wn, ndone, halves, data, calls, history>>

(***************************************************************************)
(* The halves                                                              *)
(***************************************************************************)
Call(c, h, l, d) ==
    /\ pc[c] = "idle" /\ ~garbage[h]
    /\ calls < MaxCalls /\ calls' = calls + 1
    /\ pc' = [pc EXCEPT ![c] = l]
    /\ half' = [half EXCEPT ![c] = h]
    /\ data' = [data EXCEPT ![c] = d]
    /\ UNCHANGED <<run, halves, history>>

\* Read(data) and Write(data), with a buffer of n bytes.
Read(c, n) == Call(c, "r", "io", n)
Write(c, n) == Call(c, "w", "io", n)

\* Byte i of the k-th Write is <<k, i>>.
Bytes(k, n) == [i \in 1..n |-> <<k, i>>]

\* rw: io.Lock(), and the test of ioclosed.
rw(c) ==
    LET h == half[c] IN
    /\ pc[c] = "io" /\ io[h] = "free"
    /\ IF ioclosed[h]
       THEN Return(c) /\ UNCHANGED <<io, sizes>>
       ELSE /\ io' = [io EXCEPT ![h] = c]
            /\ Goto(c, "c1")
            /\ IF h = "r" THEN UNCHANGED <<data, sizes>>
               ELSE /\ sizes' = Append(sizes, data[c])
                    /\ data' = [data EXCEPT ![c] = Bytes(Len(sizes'), @)]
    /\ UNCHANGED <<run, closed, ioclosed, garbage, calls, got, ended>>

\* CloseWithError(err): a nil error stands for os.EPIPE or os.EOF.
Error(h, err) == IF err # "nil" THEN err ELSE IF h = "r" THEN "EPIPE" ELSE "EOF"

\* close: closed is tested and set under the mutex lock, which guards nothing
\* else; only the first call goes on to tell the runner.
close(c, h, err) ==
    /\ pc[c] = "idle"
    /\ IF closed[h] THEN UNCHANGED <<pc, half, data, closed>>
       ELSE /\ closed' = [closed EXCEPT ![h] = TRUE]
            /\ pc' = [pc EXCEPT ![c] = "cclose"]
            /\ half' = [half EXCEPT ![c] = h]
            /\ data' = [data EXCEPT ![c] = err]
    /\ UNCHANGED <<run, io, ioclosed, garbage, history>>

CloseWithError(c, h, err) ==
    /\ ~garbage[h]
    /\ calls < MaxCalls /\ calls' = calls + 1
    /\ close(c, h, Error(h, err))

\* io.Lock(); ioclosed = true; io.Unlock()
CloseIo(c) ==
    LET h == half[c] IN
    /\ pc[c] = "ioclose" /\ io[h] = "free"
    /\ ioclosed' = [ioclosed EXCEPT ![h] = TRUE]
    /\ Goto(c, "done")
    /\ UNCHANGED <<run, closed, io, garbage, data, calls, history>>

\* The last reference to a half is dropped; its finalizer closes it, unless a
\* close has run to its end and disabled the finalizer.
Drop(h) ==
    /\ ~garbage[h] /\ \A c \in C : pc[c] = "idle" \/ half[c] # h
    /\ garbage' = [garbage EXCEPT ![h] = TRUE]
    /\ UNCHANGED <<run, closed, io, ioclosed, procs, history>>

finalizer(h) ==
    /\ garbage[h] /\ ~closed[h]
    /\ close(Fin, h, "EINVAL")
    /\ UNCHANGED calls

(***************************************************************************)
(* pipe.run: each case of the select, with the goroutine it meets.         *)
(***************************************************************************)
\* case <-p.done
RunDone(c) ==
    /\ Selecting /\ pc[c] = "done"
    /\ ndone' = ndone + 1
    /\ Return(c)
    /\ UNCHANGED <<ready, rb, wb, wn, cerr, replies, halves, calls, history>>

\* case rerr = <-p.rclose and case werr = <-p.wclose: the pending operation of
\* the other half ends with the error, that of the closed half with os.EINVAL.
RunClose(c) ==
    LET h == half[c]
        Finish(k, err) == IF ready[k] THEN <<>> ELSE <<Reply(k, IF k = "w" THEN wn ELSE 0, err)>>
    IN
    /\ Selecting /\ pc[c] = "cclose"
    /\ cerr' = [cerr EXCEPT ![h] = data[c]]
    /\ replies' = Finish(Other(h), data[c]) \o Finish(h, "EINVAL")
    /\ Goto(c, "ioclose")
    /\ UNCHANGED <<ready, rb, wb, wn, ndone, halves, data, calls, history>>

\* n := copy(rb, wb), then the results of the Read and, if wb is used up, of
\* the Write.
Execute(room, bytes) ==
    LET n == IF room < Len(bytes) THEN room ELSE Len(bytes)
        rest == SubSeq(bytes, n + 1, Len(bytes))
    IN  /\ wn' = wn + n
        /\ wb' = rest
        /\ replies' = <<[Reply("r", n, "nil") EXCEPT !.bytes = SubSeq(bytes, 1, n)]>>
                      \o IF rest = <<>> THEN <<Reply("w", wn', "nil")>> ELSE <<>>

\* case rb = <-r1 and case wb = <-w1
RunRw(c) ==
    LET h == half[c] IN
    /\ Selecting /\ pc[c] = "c1" /\ ready[h]
    /\ IF h = "r" THEN rb' = data[c] ELSE rb' = rb
    /\ IF cerr[Other(h)] # "nil"
       THEN /\ replies' = <<Reply(h, 0, cerr[Other(h)])>>
            /\ IF h = "w" THEN wb' = data[c] ELSE wb' = wb
            /\ UNCHANGED <<ready, wn>>
       ELSE /\ ready' = [ready EXCEPT ![h] = FALSE]
            /\ IF ready[Other(h)]
               THEN /\ IF h = "w" THEN wb' = data[c] ELSE wb' = wb
                    /\ UNCHANGED <<wn, replies>>
               ELSE Execute(rb', IF h = "w" THEN data[c] ELSE wb)
    /\ Goto(c, "c2")
    /\ UNCHANGED <<ndone, cerr, halves, data, calls, history>>

\* A send on r2 or w2 meets the goroutine in rw, which returns and unlocks io;
\* the runner allows another Read or Write.
RunReply(c) ==
    LET r == Head(replies) IN
    /\ replies # <<>> /\ pc[c] = "c2" /\ half[c] = r.half
    /\ replies' = Tail(replies)
    /\ ready' = [ready EXCEPT ![r.half] = TRUE]
    /\ wn' = IF r.half = "w" THEN 0 ELSE wn
    /\ io' = [io EXCEPT ![r.half] = "free"]
    /\ Return(c)
    /\ got' = got \o r.bytes
    /\ ended' = IF r.half = "w" THEN Append(ended, r) ELSE ended
    /\ UNCHANGED <<rb, wb, ndone, cerr, closed, ioclosed, garbage, calls, sizes>>

-----------------------------------------------------------------------------
Halfway(c) == rw(c) \/ CloseIo(c)
Meets(c) == RunDone(c) \/ RunClose(c) \/ RunRw(c) \/ RunReply(c)

Next ==
    \/ \E c \in C : \/ \E n \in ReadLens : Read(c, n)
                    \/ \E n \in WriteLens : Write(c, n)
                    \/ \E h \in Halves, err \in {"nil", "err"} : CloseWithError(c, h, err)
    \/ \E h \in Halves : Drop(h) \/ finalizer(h)
    \/ \E c \in Procs : Halfway(c) \/ Meets(c)

Spec == Init /\ [][Next]_vars

\* Goroutines that can run do run; a select is only weakly fair to each case,
\* which is enough as the calls are bounded.
FairSpec ==
    /\ Spec
    /\ \A c \in Procs : WF_vars(Halfway(c)) /\ WF_vars(Meets(c))
    /\ \A h \in Halves : WF_vars(finalizer(h))

-----------------------------------------------------------------------------
\* The bytes that Reads return are the bytes of the Writes: in order, none
\* twice, none left out inside a Write, Writes never mixed; and a Write
\* returns as its count exactly the bytes that Reads have returned of it
\* ("there is no internal buffering"), all of them unless it reports an error.
Faithful ==
    /\ \A i \in 1..Len(got) :
          /\ got[i][2] = 1 + Cardinality({j \in 1..i-1 : got[j][1] = got[i][1]})
          /\ \A j \in 1..i-1 : got[j][1] <= got[i][1]
    /\ \A k \in 1..Len(ended) :
          /\ ended[k].n = Cardinality({i \in 1..Len(got) : got[i][1] = k})
          /\ ended[k].err = "nil" => ended[k].n = sizes[k]

\* The runner never blocks on r2 or w2: whom it has an answer for is there, and
\* once it has returned nobody is left sending to it.
RunnerServes ==
    /\ replies # <<>> => \E c \in Procs : pc[c] = "c2" /\ half[c] = Head(replies).half
    /\ ndone = 2 => \A c \in Procs : pc[c] \in {"idle", "io"}

\* Closing a half, or losing the last reference to it, ends every Read or Write
\* of the other half: "the other end does not hang indefinitely".
OtherEndReleased ==
    \A c \in C, h \in Halves :
        ((closed[h] \/ garbage[h]) /\ pc[c] # "idle" /\ half[c] = Other(h)) ~> pc[c] = "idle"

=============================================================================
