------------------------------- MODULE WaitQ -------------------------------
(***************************************************************************)
(* The wait queues of a channel (chan.c): struct WaitQ and SudoG, with the *)
(* free list of the channel.  A sudog is a number, nil is 0.  The state of *)
(* one channel's queues is a record w:                                     *)
(*    w.first, w.last   q->first and q->last of "recv" and "send"          *)
(*    w.free            c->free                                            *)
(*    w.sg              the sudogs, by number: g, selgen, offset, elem,    *)
(*                      link, isfree                                       *)
(*    w.n               how many have been allocated with mal              *)
(*    w.thrown          freesg has thrown "already free"                   *)
(* A queue is what can be reached from first through link; last may be     *)
(* stale, as in the code.                                                  *)
(***************************************************************************)
EXTENDS Naturals, Sequences

CONSTANT MaxSudoG     \* sudogs of a channel; enough for the waiters there can be

nil == 0

Dirs == {"recv", "send"}

NewWaitQ ==
    [first  |-> [d \in Dirs |-> nil],
     last   |-> [d \in Dirs |-> nil],
     free   |-> nil,
     sg     |-> [s \in 1..MaxSudoG |-> [g |-> nil, selgen |-> 0, offset |-> 0, elem |-> nil,
                                        link |-> nil, isfree |-> FALSE]],
     n      |-> 0,
     thrown |-> FALSE]

\* allocsg: the sudog it returns, and the queues after it; elem keeps its value.
Allocated(w) == IF w.free # nil THEN w.free ELSE w.n + 1

allocsg(w, g, gen, off) ==
    LET s == Allocated(w) IN
    [w EXCEPT !.free = IF w.free # nil THEN w.sg[s].link ELSE nil,
              !.n = IF w.free # nil THEN w.n ELSE w.n + 1,
              !.sg[s] = [@ EXCEPT !.g = g, !.selgen = gen, !.offset = off, !.isfree = FALSE]]

freesg(w, s) ==
    IF w.sg[s].isfree THEN [w EXCEPT !.thrown = TRUE]
    ELSE [w EXCEPT !.sg[s] = [@ EXCEPT !.isfree = TRUE, !.link = w.free], !.free = s]

enqueue(w, d, s) ==
    LET v == [w EXCEPT !.sg[s].link = nil] IN
    IF v.first[d] = nil THEN [v EXCEPT !.first[d] = s, !.last[d] = s]
                        ELSE [v EXCEPT !.sg[v.last[d]].link = s, !.last[d] = s]

setelem(w, s, e) == [w EXCEPT !.sg[s].elem = e]

\* A dequeue that takes the first sudog, stale or not.
RECURSIVE dequeueStale(_, _, _)
dequeueStale(w, d, gen) ==
    IF w.first[d] = nil THEN [w |-> w, s |-> nil]
    ELSE [w |-> [w EXCEPT !.first[d] = w.sg[w.first[d]].link], s |-> w.first[d]]

\* dequeue: the first sudog whose goroutine still waits with that selgen; stale
\* ones on the way are freed.  The caller bumps the selgen of the one returned.
RECURSIVE dequeue(_, _, _)
dequeue(w, d, gen) ==
    LET s == w.first[d]
        v == [w EXCEPT !.first[d] = w.sg[s].link]
    IN  IF s = nil THEN [w |-> w, s |-> nil]
        ELSE IF w.sg[s].selgen = gen[w.sg[s].g] THEN [w |-> v, s |-> s]
        ELSE dequeue(freesg(v, s), d, gen)

\* The queue as a sequence.
RECURSIVE From(_, _)
From(w, s) == IF s = nil THEN <<>> ELSE <<s>> \o From(w, w.sg[s].link)
Queue(w, d) == From(w, w.first[d])

\* dequeueg: unlink and free the first sudog of g.  q->last is left alone, even
\* when the sudog was the last.
dequeueg(w, d, g) ==
    LET q == Queue(w, d)
        mine == {i \in DOMAIN q : w.sg[q[i]].g = g}
    IN  IF mine = {} THEN w
        ELSE LET i == CHOOSE i \in mine : \A j \in mine : i <= j
                 after == w.sg[q[i]].link
             IN freesg(IF i = 1 THEN [w EXCEPT !.first[d] = after]
                                ELSE [w EXCEPT !.sg[q[i - 1]].link = after],
                       q[i])
=============================================================================
