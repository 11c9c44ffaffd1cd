------------------------------- MODULE Chan --------------------------------
(***************************************************************************)
(* Channels and select (chan.c).  Goroutines send, receive, with or        *)
(* without blocking, close channels and select among several.              *)
(*                                                                         *)
(* What an operation does on one channel between lock(c) and unlock(c) is  *)
(* one step, including the ready(gp) that follows: the readied goroutine   *)
(* has to take the lock before it can go on.  selectgo takes the locks of  *)
(* its channels one at a time in the order of their addresses and then     *)
(* looks at one case per step; meanwhile other goroutines work on other    *)
(* channels, and may take a goroutine that also waits on this one: the     *)
(* compare-and-swap of selgen in dequeue decides.  closechan releases one  *)
(* waiter per step.                                                        *)
(*                                                                         *)
(* A blocked goroutine sleeps until ready sets `awake' (the protocol of    *)
(* Gwaiting, readyonstop and ready is the subject of Sched).               *)
(***************************************************************************)
EXTENDS WaitQ, SequencesExt

CONSTANTS G,          \* goroutines, numbers from 1
          Chans,      \* channels, numbers from 1: their addresses
          dataqsiz,   \* c->dataqsiz of each channel
          Programs,   \* a program gives each goroutine the operations it may choose from
          MaxOps      \* how many operations a goroutine performs

\* An operation is a record: op is "send", "recv", "close" or "select"; chan
\* and block (pres == nil) for the first two; cases for a select, each with a
\* channel and send = 0 (receive), 1 (send) or 2 (default, with channel nil).
ASSUME ChanAssumption ==
    /\ G \subseteq Nat \ {0} /\ Chans \subseteq Nat \ {0}
    /\ dataqsiz \in [Chans -> Nat]
    /\ MaxOps \in Nat

VARIABLES
    wq,          \* recvq, sendq and free list of each channel
    buf,         \* the circular queue of each channel, by position
    sendx,       \* position of c->senddataq
    recvx,       \* position of c->recvdataq
    qcount,      \* c->qcount
    closed,      \* c->closed without the error count: a subset of {"W", "R"}
    chlock,      \* the goroutine that holds the lock of the channel, or nil
    selgen,      \* g->selgen
    param,       \* g->param: <<channel, sudog>>, <<nil, nil>> for nil
    pc,          \* where each goroutine is
    awake,       \* a sleeping goroutine has been readied
    cur,         \* its operation
    scase,       \* sel->scase, sorted
    o, p, i,     \* o, p and i of selectgo; i also counts the locks taken
    program,     \* the program that runs
    nops,        \* operations started
    thrown,      \* a throw of selectgo was reached
    sent, got,   \* history: values that went into each channel and came out of it
    received,    \* history: values each goroutine has received
    ended        \* history: values whose operation ended having sent them, or not

cvars == <<buf, sendx, recvx, qcount>>
selvars == <<scase, o, p, i>>
hvars == <<sent, got, received, ended>>
vars == <<wq, cvars, closed, chlock, selgen, param, pc, awake, cur, selvars, program, nops, thrown, hvars>>

nilparam == <<nil, nil>>

\* The value the current operation of g sends; every send has its own.
Value(g) == g * (MaxOps + 1) + nops[g]

Init ==
    /\ wq = [c \in Chans |-> NewWaitQ]
    /\ buf = [c \in Chans |-> [x \in 0..dataqsiz[c] |-> nil]]
    /\ sendx = [c \in Chans |-> 0] /\ recvx = [c \in Chans |-> 0]
    /\ qcount = [c \in Chans |-> 0]
    /\ closed = [c \in Chans |-> {}]
    /\ chlock = [c \in Chans |-> nil]
    /\ selgen = [g \in G |-> 0]
    /\ param = [g \in G |-> nilparam]
    /\ pc = [g \in G |-> "idle"]
    /\ awake = [g \in G |-> FALSE]
    /\ cur = [g \in G |-> [op |-> "none"]]
    /\ scase = [g \in G |-> <<>>]
    /\ o = [g \in G |-> 0] /\ p = [g \in G |-> 0] /\ i = [g \in G |-> 0]
    /\ program \in Programs
    /\ nops = [g \in G |-> 0]
    /\ thrown = FALSE
    /\ sent = [c \in Chans |-> <<>>] /\ got = [c \in Chans |-> <<>>]
    /\ received = [g \in G |-> <<>>]
    /\ ended = [sent |-> {}, dropped |-> {}]

Goto(g, label) == pc' = [pc EXCEPT ![g] = label]

(***************************************************************************)
(* Pieces of the operations                                                *)
(***************************************************************************)
\* Put g to sleep on a sudog of channel c.
Sleep(g, label) == Goto(g, label) /\ awake' = [awake EXCEPT ![g] = FALSE]

\* Wake the goroutine of sudog s, which dequeue took out of queues w of c.
Wake(w, s, with) ==
    LET gp == w.sg[s].g IN
    /\ selgen' = [selgen EXCEPT ![gp] = @ + 1]
    /\ param' = [param EXCEPT ![gp] = with]
    /\ awake' = [awake EXCEPT ![gp] = TRUE]

\* The same without gp->param = sg, as on a channel with a buffer.
WakeOnly(w, s) ==
    LET gp == w.sg[s].g IN
    /\ selgen' = [selgen EXCEPT ![gp] = @ + 1]
    /\ awake' = [awake EXCEPT ![gp] = TRUE]
    /\ UNCHANGED param

Put(c, e) ==
    /\ buf' = [buf EXCEPT ![c][sendx[c]] = e]
    /\ sendx' = [sendx EXCEPT ![c] = (@ + 1) % dataqsiz[c]]
    /\ qcount' = [qcount EXCEPT ![c] = @ + 1]
    /\ sent' = [sent EXCEPT ![c] = Append(@, e)]
    /\ UNCHANGED <<recvx, got>>

\* A receive that does not move c->recvdataq on.
TakeStuck(c) ==
    /\ buf' = [buf EXCEPT ![c][recvx[c]] = nil]
    /\ qcount' = [qcount EXCEPT ![c] = @ - 1]
    /\ got' = [got EXCEPT ![c] = Append(@, buf[c][recvx[c]])]
    /\ UNCHANGED <<sendx, recvx, sent>>

Take(c) ==
    /\ buf' = [buf EXCEPT ![c][recvx[c]] = nil]
    /\ recvx' = [recvx EXCEPT ![c] = (@ + 1) % dataqsiz[c]]
    /\ qcount' = [qcount EXCEPT ![c] = @ - 1]
    /\ got' = [got EXCEPT ![c] = Append(@, buf[c][recvx[c]])]
    /\ UNCHANGED <<sendx, sent>>

\* A value passes from a sender to a receiver without a buffer.
Pass(c, e) ==
    /\ sent' = [sent EXCEPT ![c] = Append(@, e)]
    /\ got' = [got EXCEPT ![c] = Append(@, e)]
    /\ UNCHANGED cvars

Receive(g, e) == received' = [received EXCEPT ![g] = Append(@, e)]

\* The operation ends by the path that sent its value, or by one that dropped it.
Sent(g) == ended' = [ended EXCEPT !.sent = @ \cup {Value(g)}]
Dropped(g) == ended' = [ended EXCEPT !.dropped = @ \cup {Value(g)}]

\* A buffered operation wakes one of those that wait for the opposite one.
WakeOtherNot(c, d, w) ==
    /\ wq' = [wq EXCEPT ![c] = w]
    /\ UNCHANGED <<selgen, awake, param>>

WakeOther(c, d, w) ==
    LET r == dequeue(w, d, selgen) IN
    /\ wq' = [wq EXCEPT ![c] = IF r.s = nil THEN r.w ELSE freesg(r.w, r.s)]
    /\ IF r.s = nil THEN UNCHANGED <<selgen, awake, param>> ELSE WakeOnly(r.w, r.s)

(***************************************************************************)
(* Starting an operation                                                   *)
(***************************************************************************)
\* The order in which selectgo takes the locks.
LockOrderAsWritten(cases) == cases

LockOrder(cases) == SortSeq(Reverse(cases), LAMBDA a, b : a.chan < b.chan)

\* Whether gcd(x, n) = 1
Coprime(x, n) == \A d \in 2..n : ~(x % d = 0 /\ n % d = 0)

Start(g, op) ==
    /\ pc[g] = "idle" /\ nops[g] < MaxOps
    /\ nops' = [nops EXCEPT ![g] = @ + 1]
    /\ cur' = [cur EXCEPT ![g] = op]
    /\ i' = [i EXCEPT ![g] = 0]
    /\ IF op.op = "select"
       THEN LET n == Len(op.cases) IN
            /\ Goto(g, "sellock")
            /\ scase' = [scase EXCEPT ![g] = LockOrder(op.cases)]
            /\ \E x \in 1..n : Coprime(x, n) /\ p' = [p EXCEPT ![g] = x % n]
            /\ \E y \in 0..(n - 1) : o' = [o EXCEPT ![g] = y]
       ELSE Goto(g, op.op) /\ UNCHANGED <<scase, o, p>>
    /\ UNCHANGED <<wq, cvars, closed, chlock, selgen, param, awake, program, thrown, hvars>>

(***************************************************************************)
(* chansend                                                                *)
(***************************************************************************)
\* g holds the lock at `loop' or `asynch': at the start, or woken to try again.
AtLoop(g, op, c) ==
    /\ cur[g].op = op /\ c = cur[g].chan
    /\ chlock[c] = nil
    /\ \/ pc[g] = op
       \/ pc[g] = "asleep" /\ awake[g] /\ (dataqsiz[c] > 0 \/ param[g] = nilparam)

\* g has been served while it slept.
Served(g, op, c) ==
    /\ cur[g].op = op /\ c = cur[g].chan
    /\ chlock[c] = nil
    /\ pc[g] = "asleep" /\ awake[g] /\ dataqsiz[c] = 0 /\ param[g] # nilparam

\* Queue g on c and sleep, if the operation may.
Block(g, c, d, w) ==
    LET s == Allocated(w)
        v == allocsg(w, g, selgen[g], 0)
        sync == dataqsiz[c] = 0
    IN
    /\ cur[g].block
    /\ wq' = [wq EXCEPT ![c] = enqueue(IF sync /\ d = "send" THEN setelem(v, s, Value(g)) ELSE v, d, s)]
    /\ param' = IF sync THEN [param EXCEPT ![g] = nilparam] ELSE param
    /\ Sleep(g, "asleep")
    /\ UNCHANGED <<selgen, hvars>>

SendClosed(g, c) ==
    /\ AtLoop(g, "send", c) /\ "W" \in closed[c]
    /\ Dropped(g)
    /\ Goto(g, "idle")
    /\ UNCHANGED <<wq, cvars, closed, selgen, param, awake, sent, got, received>>

\* A full buffer.
SendFull(g, c) ==
    /\ AtLoop(g, "send", c) /\ "W" \notin closed[c]
    /\ dataqsiz[c] > 0 /\ qcount[c] >= dataqsiz[c]
    /\ \/ Block(g, c, "send", wq[c])
       \/ /\ ~cur[g].block
          /\ Dropped(g)
          /\ Goto(g, "idle")
          /\ UNCHANGED <<wq, selgen, param, awake, sent, got, received>>
    /\ UNCHANGED <<cvars, closed>>

SendBuffer(g, c) ==
    /\ AtLoop(g, "send", c) /\ "W" \notin closed[c]
    /\ dataqsiz[c] > 0 /\ qcount[c] < dataqsiz[c]
    /\ Put(c, Value(g))
    /\ WakeOther(c, "recv", wq[c])
    /\ Sent(g)
    /\ Goto(g, "idle")
    /\ UNCHANGED <<closed, received>>

\* No buffer: pass the value to a receiver that waits, or wait for one.
SendSync(g, c) ==
    LET r == dequeue(wq[c], "recv", selgen) IN
    /\ AtLoop(g, "send", c) /\ "W" \notin closed[c]
    /\ dataqsiz[c] = 0
    /\ \/ /\ r.s # nil
          /\ wq' = [wq EXCEPT ![c] = setelem(r.w, r.s, Value(g))]
          /\ Wake(r.w, r.s, <<c, r.s>>)
          /\ Pass(c, Value(g))
          /\ Sent(g)
          /\ Goto(g, "idle")
          /\ UNCHANGED received
       \/ /\ r.s = nil /\ ~cur[g].block
          /\ wq' = [wq EXCEPT ![c] = r.w]
          /\ Dropped(g)
          /\ Goto(g, "idle")
          /\ UNCHANGED <<cvars, selgen, param, awake, sent, got, received>>
       \/ /\ r.s = nil
          /\ Block(g, c, "send", r.w)
          /\ UNCHANGED cvars
    /\ UNCHANGED closed

SendServed(g, c) ==
    /\ Served(g, "send", c)
    /\ wq' = [wq EXCEPT ![c] = freesg(@, param[g][2])]
    /\ Sent(g)
    /\ Goto(g, "idle")
    /\ UNCHANGED <<cvars, closed, selgen, param, awake, sent, got, received>>

chansend(g, c) ==
    /\ SendClosed(g, c) \/ SendFull(g, c) \/ SendBuffer(g, c) \/ SendSync(g, c) \/ SendServed(g, c)
    /\ UNCHANGED <<chlock, cur, selvars, program, nops, thrown>>

(***************************************************************************)
(* chanrecv                                                                *)
(***************************************************************************)
RecvClosed(g, c) ==
    /\ AtLoop(g, "recv", c) /\ "W" \in closed[c] /\ qcount[c] = 0
    /\ closed' = [closed EXCEPT ![c] = @ \cup {"R"}]
    /\ Goto(g, "idle")
    /\ UNCHANGED <<wq, cvars, selgen, param, awake, hvars>>

RecvEmpty(g, c) ==
    /\ AtLoop(g, "recv", c) /\ "W" \notin closed[c]
    /\ dataqsiz[c] > 0 /\ qcount[c] = 0
    /\ \/ Block(g, c, "recv", wq[c])
       \/ /\ ~cur[g].block
          /\ Goto(g, "idle")
          /\ UNCHANGED <<wq, selgen, param, awake, hvars>>
    /\ UNCHANGED <<cvars, closed>>

RecvBuffer(g, c) ==
    /\ AtLoop(g, "recv", c)
    /\ dataqsiz[c] > 0 /\ qcount[c] > 0
    /\ Receive(g, buf[c][recvx[c]])
    /\ Take(c)
    /\ WakeOther(c, "send", wq[c])
    /\ Goto(g, "idle")
    /\ UNCHANGED <<closed, ended>>

RecvSync(g, c) ==
    LET r == dequeue(wq[c], "send", selgen) IN
    /\ AtLoop(g, "recv", c) /\ "W" \notin closed[c]
    /\ dataqsiz[c] = 0
    /\ \/ /\ r.s # nil
          /\ Receive(g, r.w.sg[r.s].elem)
          /\ Pass(c, r.w.sg[r.s].elem)
          /\ wq' = [wq EXCEPT ![c] = setelem(r.w, r.s, nil)]
          /\ Wake(r.w, r.s, <<c, r.s>>)
          /\ Goto(g, "idle")
          /\ UNCHANGED ended
       \/ /\ r.s = nil /\ ~cur[g].block
          /\ wq' = [wq EXCEPT ![c] = r.w]
          /\ Goto(g, "idle")
          /\ UNCHANGED <<cvars, selgen, param, awake, hvars>>
       \/ /\ r.s = nil
          /\ Block(g, c, "recv", r.w)
          /\ UNCHANGED cvars
    /\ UNCHANGED closed

RecvServed(g, c) ==
    LET s == param[g][2] IN
    /\ Served(g, "recv", c)
    /\ Receive(g, wq[c].sg[s].elem)
    /\ wq' = [wq EXCEPT ![c] = freesg(setelem(@, s, nil), s)]
    /\ Goto(g, "idle")
    /\ UNCHANGED <<cvars, closed, selgen, param, awake, sent, got, ended>>

chanrecv(g, c) ==
    /\ RecvClosed(g, c) \/ RecvEmpty(g, c) \/ RecvBuffer(g, c) \/ RecvSync(g, c) \/ RecvServed(g, c)
    /\ UNCHANGED <<chlock, cur, selvars, program, nops, thrown>>

(***************************************************************************)
(* closechan                                                               *)
(***************************************************************************)
closechan(g, c) ==
    /\ pc[g] = "close" /\ c = cur[g].chan /\ chlock[c] = nil
    /\ chlock' = [chlock EXCEPT ![c] = g]
    /\ closed' = [closed EXCEPT ![c] = @ \cup {"W"}]
    /\ Goto(g, "closing")
    /\ UNCHANGED <<wq, cvars, selgen, param, awake, cur, selvars, program, nops, thrown, hvars>>

\* The param of a goroutine that close wakes.
CloseParamSudog(c, s) == <<c, s>>     \* as a send or receive would
CloseParam(c, s) == nilparam

\* The two loops: release the readers, then the writers, then unlock.
closeloop(g, c) ==
    LET r == dequeue(wq[c], "recv", selgen)
        t == dequeue(r.w, "send", selgen)
        x == IF r.s # nil THEN r ELSE t
    IN
    /\ pc[g] = "closing" /\ c = cur[g].chan
    /\ \/ /\ x.s # nil
          /\ wq' = [wq EXCEPT ![c] = freesg(x.w, x.s)]
          /\ Wake(x.w, x.s, CloseParam(c, x.s))
          /\ UNCHANGED <<chlock, pc>>
       \/ /\ x.s = nil
          /\ wq' = [wq EXCEPT ![c] = x.w]
          /\ chlock' = [chlock EXCEPT ![c] = nil]
          /\ Goto(g, "idle")
          /\ UNCHANGED <<selgen, param, awake>>
    /\ UNCHANGED <<cvars, closed, cur, selvars, program, nops, thrown, hvars>>

(***************************************************************************)
(* selectgo                                                                *)
(***************************************************************************)
ncase(g) == Len(scase[g])
Case(g) == scase[g][o[g] + 1]

\* sellock, one case per step; a channel is locked at the first of its cases.
\* At "relock" the goroutine has slept, and waits to be readied first.
sellock(g) ==
    LET k == i[g] + 1
        c == scase[g][k].chan
        before == IF k = 1 THEN nil ELSE scase[g][k - 1].chan
    IN
    /\ pc[g] = "sellock" \/ (pc[g] = "relock" /\ awake[g])
    /\ IF c = before THEN UNCHANGED chlock
                     ELSE chlock[c] = nil /\ chlock' = [chlock EXCEPT ![c] = g]
    /\ i' = [i EXCEPT ![g] = k % ncase(g)]
    /\ CASE k < ncase(g) -> UNCHANGED pc
         [] k = ncase(g) -> Goto(g, IF pc[g] = "sellock" THEN "pass1" ELSE "pass3")
    /\ UNCHANGED <<wq, cvars, closed, selgen, param, awake, cur, scase, o, p, program, nops, thrown, hvars>>

selunlock(g) == chlock' = [c \in Chans |-> IF chlock[c] = g THEN nil ELSE chlock[c]]

\* i++ and o += p; at the end of the pass, i = 0 for the next one.
Advance(g) ==
    /\ i' = [i EXCEPT ![g] = (@ + 1) % ncase(g)]
    /\ o' = [o EXCEPT ![g] = (@ + p[g]) % ncase(g)]
    /\ UNCHANGED <<scase, p>>
LastCase(g) == i[g] + 1 = ncase(g)

\* The select has a value to send if it has a case that sends.
Sends(g) == \E k \in DOMAIN scase[g] : scase[g][k].send = 1
retc(g, sentIt) ==
    /\ selunlock(g)
    /\ Goto(g, "idle")
    /\ CASE sentIt -> Sent(g)
         [] ~sentIt /\ Sends(g) -> Dropped(g)
         [] OTHER -> UNCHANGED ended

\* The labels pass 1 may jump to.
asyncrecv(g, c) ==
    /\ Case(g).send = 0 /\ dataqsiz[c] > 0 /\ qcount[c] > 0
    /\ Receive(g, buf[c][recvx[c]])
    /\ Take(c)
    /\ WakeOther(c, "send", wq[c])
    /\ retc(g, FALSE)
    /\ UNCHANGED <<closed, selvars>>

asyncsend(g, c) ==
    /\ Case(g).send = 1 /\ "W" \notin closed[c] /\ dataqsiz[c] > 0 /\ qcount[c] < dataqsiz[c]
    /\ Put(c, Value(g))
    /\ WakeOther(c, "recv", wq[c])
    /\ retc(g, TRUE)
    /\ UNCHANGED <<closed, received, selvars>>

syncrecv(g, c) ==
    LET r == dequeue(wq[c], "send", selgen) IN
    /\ Case(g).send = 0 /\ dataqsiz[c] = 0 /\ r.s # nil
    /\ Receive(g, r.w.sg[r.s].elem)
    /\ Pass(c, r.w.sg[r.s].elem)
    /\ wq' = [wq EXCEPT ![c] = setelem(r.w, r.s, nil)]
    /\ Wake(r.w, r.s, <<c, r.s>>)
    /\ retc(g, FALSE)
    /\ UNCHANGED <<closed, selvars>>

syncsend(g, c) ==
    LET r == dequeue(wq[c], "recv", selgen) IN
    /\ Case(g).send = 1 /\ "W" \notin closed[c] /\ dataqsiz[c] = 0 /\ r.s # nil
    /\ wq' = [wq EXCEPT ![c] = setelem(r.w, r.s, Value(g))]
    /\ Wake(r.w, r.s, <<c, r.s>>)
    /\ Pass(c, Value(g))
    /\ retc(g, TRUE)
    /\ UNCHANGED <<closed, received, selvars>>

\* The queues after the dequeue of pass 1, and whether it has found nobody.
Looked(g, c) == dequeue(wq[c], IF Case(g).send = 0 THEN "send" ELSE "recv", selgen)
Looks(g, c) == dataqsiz[c] = 0 /\ ~(Case(g).send = 1 /\ "W" \in closed[c])
NotReady(g, c) ==
    IF dataqsiz[c] > 0 THEN IF Case(g).send = 0 THEN qcount[c] = 0 ELSE qcount[c] >= dataqsiz[c]
                       ELSE Looked(g, c).s = nil
LookedOnly(g, c) == wq' = IF Looks(g, c) THEN [wq EXCEPT ![c] = Looked(g, c).w] ELSE wq

\* rclose, and sclose, which is looked at before anything else
rsclose(g, c) ==
    /\ Case(g).send \in {0, 1} /\ "W" \in closed[c]
    /\ Case(g).send = 0 => NotReady(g, c)
    /\ closed' = IF Case(g).send = 0 THEN [closed EXCEPT ![c] = @ \cup {"R"}] ELSE closed
    /\ LookedOnly(g, c)
    /\ retc(g, FALSE)
    /\ UNCHANGED <<cvars, selgen, param, awake, sent, got, received, selvars>>

\* Nothing to do for this case; after the last, the default case or pass 2.
nothing(g, c) ==
    /\ IF c = nil THEN UNCHANGED wq
                  ELSE "W" \notin closed[c] /\ NotReady(g, c) /\ LookedOnly(g, c)
    /\ IF LastCase(g) /\ \E k \in DOMAIN scase[g] : scase[g][k].send = 2
       THEN retc(g, FALSE) /\ UNCHANGED selvars
       ELSE /\ Advance(g)
            /\ Goto(g, IF LastCase(g) THEN "pass2" ELSE "pass1")
            /\ UNCHANGED <<chlock, ended>>
    /\ UNCHANGED <<cvars, closed, selgen, param, awake, sent, got, received>>

pass1(g) ==
    LET c == Case(g).chan IN
    /\ pc[g] = "pass1"
    /\ \/ c # nil /\ (asyncrecv(g, c) \/ asyncsend(g, c) \/ syncrecv(g, c) \/ syncsend(g, c) \/ rsclose(g, c))
       \/ nothing(g, c)
    /\ UNCHANGED <<cur, program, nops, thrown>>

\* pass 2: enqueue on all channels, then sleep.
pass2(g) ==
    LET c == Case(g).chan
        d == IF Case(g).send = 0 THEN "recv" ELSE "send"
        s == Allocated(wq[c])
        v == allocsg(wq[c], g, selgen[g], o[g])
        sync == dataqsiz[c] = 0
        r == IF sync THEN dequeue(v, IF d = "recv" THEN "send" ELSE "recv", selgen) ELSE [w |-> v, s |-> nil]
    IN
    /\ pc[g] = "pass2"
    /\ thrown' = ~NotReady(g, c)
    /\ wq' = [wq EXCEPT ![c] = enqueue(IF sync /\ d = "send" THEN setelem(r.w, s, Value(g)) ELSE r.w, d, s)]
    /\ Advance(g)
    /\ IF LastCase(g)
       THEN /\ param' = [param EXCEPT ![g] = nilparam]
            /\ selunlock(g)
            /\ Sleep(g, "relock")
       ELSE UNCHANGED <<param, chlock, pc, awake>>
    /\ UNCHANGED <<cvars, closed, selgen, cur, program, nops, hvars>>

\* pass 3: dequeue from the other channels, then loop or take the result.
pass3(g) ==
    LET c == Case(g).chan
        sg == param[g]
        won == IF sg = nilparam THEN nil ELSE wq[sg[1]].sg[sg[2]].offset + 1
        w == IF won = o[g] + 1 THEN wq
             ELSE [wq EXCEPT ![c] = dequeueg(@, IF Case(g).send = 0 THEN "recv" ELSE "send", g)]
        e == w[sg[1]].sg[sg[2]].elem
    IN
    /\ pc[g] = "pass3"
    /\ CASE ~LastCase(g) ->
              wq' = w /\ Advance(g) /\ UNCHANGED <<pc, chlock, hvars>>
         [] LastCase(g) /\ (won = nil \/ dataqsiz[sg[1]] > 0) ->
              /\ wq' = w
              /\ Goto(g, "pass1")
              /\ Advance(g)
              /\ UNCHANGED <<chlock, hvars>>
         [] OTHER ->
              /\ IF scase[g][won].send = 0
                 THEN /\ Receive(g, e)
                      /\ wq' = [w EXCEPT ![sg[1]] = freesg(setelem(@, sg[2], nil), sg[2])]
                 ELSE /\ UNCHANGED received
                      /\ wq' = [w EXCEPT ![sg[1]] = freesg(@, sg[2])]
              /\ retc(g, scase[g][won].send = 1)
              /\ UNCHANGED <<selvars, sent, got>>
    /\ UNCHANGED <<cvars, closed, selgen, param, awake, cur, program, nops, thrown>>

(***************************************************************************)
(* The specification                                                       *)
(***************************************************************************)
Step(g) ==
    \/ \E c \in Chans : chansend(g, c) \/ chanrecv(g, c) \/ closechan(g, c) \/ closeloop(g, c)
    \/ sellock(g) \/ pass1(g) \/ pass2(g) \/ pass3(g)

\* A throw ends the program.
Running == ~thrown /\ \A c \in Chans : ~wq[c].thrown

Next == Running /\ \E g \in G : Step(g) \/ \E op \in program[g] : Start(g, op)

Spec == Init /\ [][Next]_vars
\* Some goroutine that can go on does.  Programs are finite, so it is no more than
\* that the scheduler keeps running goroutines.
FairSpec == Spec /\ WF_vars(Running /\ \E g \in G : Step(g))

(***************************************************************************)
(* Properties                                                              *)
(***************************************************************************)
Asleep(g) == pc[g] \in {"asleep", "relock"} /\ ~awake[g]
Active(g) == pc[g] # "idle" /\ ~Asleep(g)

\* The queues g sleeps on: <<channel, direction>>
WaitsOn(g) ==
    IF cur[g].op = "select"
    THEN {<<scase[g][k].chan, IF scase[g][k].send = 0 THEN "recv" ELSE "send">> : k \in DOMAIN scase[g]}
    ELSE {<<cur[g].chan, cur[g].op>>}

Values == {g * (MaxOps + 1) + n : g \in G, n \in 1..MaxOps}
Occurrences(q, v) == Cardinality({k \in DOMAIN q : q[k] = v})

\* What is in the buffer of c, oldest first.
Buffered(c) == [k \in 1..qcount[c] |-> buf[c][(recvx[c] + k - 1) % dataqsiz[c]]]

\* A receiver was handed v while it slept and has not gone on yet.
InFlight(v) ==
    {g \in G : /\ pc[g] \in {"asleep", "relock", "pass3"} /\ awake[g] /\ param[g] # nilparam
               /\ dataqsiz[param[g][1]] = 0
               /\ wq[param[g][1]].sg[param[g][2]].elem = v
               /\ IF cur[g].op = "select"
                  THEN scase[g][wq[param[g][1]].sg[param[g][2]].offset + 1].send = 0
                  ELSE cur[g].op = "recv"}

\* A channel is a queue: what came out of it, followed by what its circular
\* buffer holds from recvdataq on, is what went into it, in that order; senders
\* and receivers, plain or in selects, move the two ends.
Fifo ==
    \A c \in Chans :
        /\ qcount[c] <= dataqsiz[c]
        /\ sent[c] = got[c] \o Buffered(c)

\* Every value is passed at most once, and one that came out of a channel is with
\* exactly one goroutine, which has received it or was woken with it in its sudog.
ReceivedOnce ==
    \A v \in Values :
        LET out == {c \in Chans : Occurrences(got[c], v) > 0}
            with == {g \in G : Occurrences(received[g], v) > 0}
        IN  /\ Cardinality({c \in Chans : Occurrences(sent[c], v) > 0}) <= 1
            /\ \A c \in Chans : Occurrences(sent[c], v) <= 1
            /\ \A g \in G : Occurrences(received[g], v) <= 1
            /\ Cardinality(with) + Cardinality(InFlight(v)) = Cardinality(out)

\* An operation that ended as a send did pass its value on, and one that ended
\* otherwise (closed channel, not ready, another case of the select) never does:
\* its sudogs are out of the queues or stale.
SendersKnow ==
    LET all == UNION {Range(sent[c]) : c \in Chans} IN
    /\ ended.sent \subseteq all
    /\ ended.dropped \cap all = {}

\* When no goroutine is in the middle of an operation, nobody sleeps on a channel
\* that could serve him: a receiver only on an open channel with an empty buffer
\* and no sleeping sender, a sender only on an open one with a full buffer.
NobodyForgotten ==
    (\A g \in G : ~Active(g)) =>
        \A g \in G : Asleep(g) => \A x \in WaitsOn(g) :
            LET c == x[1] IN
            /\ "W" \notin closed[c]
            /\ x[2] = "recv" => qcount[c] = 0
            /\ x[2] = "send" => qcount[c] = dataqsiz[c]
            /\ dataqsiz[c] = 0 =>
                  \A h \in G \ {g} : Asleep(h) => \A y \in WaitsOn(h) : y[1] = c => y[2] = x[2]

\* Again and again nobody is in the middle of an operation: every one that has
\* started or was woken returns or goes to sleep.  The order of sellock keeps
\* selects from waiting for each other, and nobody woken loops for ever.
OperationsEnd == []<>(\A g \in G : ~Active(g))
=============================================================================
