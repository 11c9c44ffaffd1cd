------------------------------- MODULE Ticker -------------------------------
(***************************************************************************)
(* time.Ticker (time/tick.go): NewTicker starts one tickerLoop with        *)
(* once.Do and hands it the ticker; tickerLoop keeps the list and sends    *)
(* the ticks; wakeLoops sleep for it.  When a ticker needs an earlier      *)
(* alarm than the one that is set, a new wakeLoop is started and the old   *)
(* one is told to end after its current sleep.  once.Do is the one of      *)
(* Once, with startTickerLoop as its only function.                        *)
(***************************************************************************)
EXTENDS Once, Sequences, Functions

CONSTANTS T,         \* tickers, one for each period (ns) in T
          MaxClock,  \* the clock stops there
          Buf        \* the capacity of wakeUp and of every wakeMeAt

ASSUME TickerAssumption ==
    /\ \E f \in Funcs : Funcs = {f}
    /\ T \subseteq Nat \ {0} /\ MaxClock \in Nat /\ Buf \in Nat \ {0}

VARIABLES clock,     \* Nanoseconds()
          tk,        \* the tickers: place, nextTick, ticks in c, shutdown
          making,    \* the ticker a goroutine in NewTicker is making, or 0
          loops,     \* how many tickerLoops were started
          lp,        \* where tickerLoop is
          list,      \* tickers
          cur,       \* the position of the scan
          now, prevTime, wakeTime,
          alarm,     \* alarm.wakeTime
          wakeUp,    \* how many signals alarm.wakeUp holds
          wakeMeAt,  \* the wakeMeAt of every wakeLoop; the last one is alarm.wakeMeAt
          sleep,     \* what each wakeLoop sleeps for: a time, Idle or Ended
          seen       \* history: tickers a scan has passed

loopvars == <<lp, list, cur, now, prevTime, wakeTime, alarm>>
wakevars == <<wakeUp, wakeMeAt, sleep>>
tvars == <<vars, clock, tk, making, loops, loopvars, wakevars, seen>>

Idle == -1
Ended == -2
Quit == -1                               \* the request that ends a wakeLoop
Far == MaxClock + 1000                   \* now + 1e15

NoTicker == [at |-> "none", born |-> 0, nextTick |-> 0, c |-> 0, shutdown |-> FALSE]

TInit ==
    /\ Init
    /\ clock = 0
    /\ tk = [t \in T |-> NoTicker]
    /\ making = [g \in G |-> 0]
    /\ loops = 0 /\ lp = "off" /\ list = <<>> /\ cur = 0
    /\ now = 0 /\ prevTime = 0 /\ wakeTime = 0 /\ alarm = 0
    /\ wakeUp = 0 /\ wakeMeAt = <<>> /\ sleep = <<>>
    /\ seen = {}

(***************************************************************************)
(* NewTicker                                                               *)
(***************************************************************************)
\* t := &Ticker{...}; once.Do(startTickerLoop)
NewTicker(g, t) ==
    /\ making[g] = 0 /\ tk[t].at = "none"
    /\ making' = [making EXCEPT ![g] = t]
    /\ tk' = [tk EXCEPT ![t] =
          [at |-> "made", born |-> clock, nextTick |-> clock + t, c |-> 0, shutdown |-> FALSE]]
    /\ \E f \in Funcs : Do(g, f)
    /\ UNCHANGED <<clock, loops, loopvars, wakevars, seen>>

\* A step of once.Do; when startTickerLoop returns, tickerLoop is running.
OnceStep(g) ==
    /\ Steps(g) \/ Wakes(g)
    /\ IF pc[g] = "running" THEN loops' = loops + 1 /\ lp' = "select" ELSE UNCHANGED <<loops, lp>>
    /\ UNCHANGED <<clock, tk, making, list, cur, now, prevTime, wakeTime, alarm, wakevars, seen>>

\* go func() { newTicker <- t }(); return t
SendTicker(g) ==
    /\ making[g] # 0 /\ pc[g] = "idle"
    /\ tk' = [tk EXCEPT ![making[g]].at = "sent"]
    /\ making' = [making EXCEPT ![g] = 0]
    /\ UNCHANGED <<vars, clock, loops, loopvars, wakevars, seen>>

(***************************************************************************)
(* The user of a ticker, and the clock                                     *)
(***************************************************************************)
Stop(t) ==
    /\ tk[t].at \in {"sent", "listed"} /\ ~tk[t].shutdown
    /\ tk' = [tk EXCEPT ![t].shutdown = TRUE]
    /\ UNCHANGED <<vars, clock, making, loops, loopvars, wakevars, seen>>

Receive(t) ==
    /\ tk[t].c = 1
    /\ tk' = [tk EXCEPT ![t].c = 0]
    /\ UNCHANGED <<vars, clock, making, loops, loopvars, wakevars, seen>>

Pass ==
    /\ clock < MaxClock
    /\ clock' = clock + 1
    /\ UNCHANGED <<vars, tk, making, loops, loopvars, wakevars, seen>>

(***************************************************************************)
(* alarmer.set and wakeLoop                                                *)
(***************************************************************************)
Request(q, x) == [q EXCEPT ![Len(q)] = Append(@, x)]

\* There is room for one request more: else the send blocks.
HasRoom == wakeMeAt # <<>> => Len(wakeMeAt[Len(wakeMeAt)]) < Buf

set(ns) ==
    LET early == alarm > ns
        fresh == early \/ wakeMeAt = <<>>
        told == IF early THEN Request(wakeMeAt, Quit) ELSE wakeMeAt
        open == IF fresh THEN Append(told, <<>>) ELSE told
    IN  /\ early \/ alarm = 0 => HasRoom
        /\ sleep' = IF fresh THEN Append(sleep, Idle) ELSE sleep
        /\ IF fresh \/ alarm = 0
           THEN alarm' = ns /\ wakeMeAt' = Request(open, ns)
           ELSE UNCHANGED <<alarm, wakeMeAt>>

\* wakeAt := <-wakeMeAt; a negative time ends the loop.
WakeMeAt(k) ==
    /\ sleep[k] = Idle /\ wakeMeAt[k] # <<>>
    /\ sleep' = [sleep EXCEPT ![k] = IF Head(wakeMeAt[k]) < 0 THEN Ended ELSE Head(wakeMeAt[k])]
    /\ wakeMeAt' = [wakeMeAt EXCEPT ![k] = Tail(@)]
    /\ UNCHANGED <<vars, clock, tk, making, loops, loopvars, wakeUp, seen>>

\* Sleep returns at the time, or later; wakeUp <- true.
WakeUp(k) ==
    /\ sleep[k] >= 0 /\ sleep[k] <= clock
    /\ wakeUp < Buf
    /\ wakeUp' = wakeUp + 1
    /\ sleep' = [sleep EXCEPT ![k] = Idle]
    /\ UNCHANGED <<vars, clock, tk, making, loops, loopvars, wakeMeAt, seen>>

\* A faulty variant of Advanced: a ticker that is behind counts its periods from now on.
AdvancedFromNow(next, ns) == IF next + ns <= now THEN now + ns ELSE next + ns

\* t.nextTick is advanced past now, in one big step if it is still behind.
Advanced(next, ns) ==
    IF next + ns <= now
    THEN next + ns + ((now - (next + ns) + ns) \div ns) * ns
    ELSE next + ns

(***************************************************************************)
(* A faulty variant of tickerLoop                                          *)
(***************************************************************************)
\* The send is not guarded by len(t.c) == 0: it blocks until there is room.
ScanTickBlocks ==
    LET t == list[cur]
        due == tk[t].nextTick <= now
        next == IF due THEN Advanced(tk[t].nextTick, t) ELSE tk[t].nextTick
    IN  /\ lp = "tick"
        /\ due => tk[t].c = 0
        /\ tk' = [tk EXCEPT ![t].nextTick = next, ![t].c = IF due THEN 1 ELSE @]
        /\ wakeTime' = IF next < wakeTime THEN next ELSE wakeTime
        /\ cur' = cur + 1
        /\ lp' = "scan"
        /\ seen' = seen \cup {t}
        /\ UNCHANGED <<vars, clock, making, loops, list, now, prevTime, alarm, wakevars>>

(***************************************************************************)
(* tickerLoop                                                              *)
(***************************************************************************)
\* case t := <-newTicker
AddTicker(t) ==
    /\ lp = "select" /\ tk[t].at = "sent"
    /\ tk' = [tk EXCEPT ![t].at = "listed"]
    /\ list' = <<t>> \o list
    /\ set(tk[t].nextTick)
    /\ prevTime' = now
    /\ UNCHANGED <<vars, clock, making, loops, lp, cur, now, wakeTime, wakeUp, seen>>

\* case <-alarm.wakeUp: an old time is ignored, else the scan begins.
TakeWakeUp ==
    /\ lp = "select" /\ wakeUp > 0
    /\ wakeUp' = wakeUp - 1
    /\ now' = clock
    /\ IF clock < prevTime
       THEN UNCHANGED <<lp, cur, wakeTime>>
       ELSE lp' = "scan" /\ cur' = 1 /\ wakeTime' = Far
    /\ UNCHANGED <<vars, clock, tk, making, loops, list, prevTime, alarm, wakeMeAt, sleep, seen>>

\* if t.shutdown: the ticker is taken off the list.
ScanShutdown ==
    /\ lp = "scan" /\ cur <= Len(list)
    /\ IF tk[list[cur]].shutdown
       THEN /\ list' = [i \in 1..(Len(list) - 1) |-> IF i < cur THEN list[i] ELSE list[i + 1]]
            /\ tk' = [tk EXCEPT ![list[cur]] = [NoTicker EXCEPT !.at = "removed"]]
            /\ UNCHANGED lp
       ELSE lp' = "tick" /\ UNCHANGED <<list, tk>>
    /\ UNCHANGED <<vars, clock, making, loops, cur, now, prevTime, wakeTime, alarm, wakevars, seen>>

\* The tick is sent if there is room; the earliest nextTick is kept.
ScanTick ==
    LET t == list[cur]
        due == tk[t].nextTick <= now
        next == IF due THEN Advanced(tk[t].nextTick, t) ELSE tk[t].nextTick
    IN  /\ lp = "tick"
        /\ tk' = [tk EXCEPT ![t].nextTick = next, ![t].c = IF due THEN 1 ELSE @]
        /\ wakeTime' = IF next < wakeTime THEN next ELSE wakeTime
        /\ cur' = cur + 1
        /\ lp' = "scan"
        /\ seen' = seen \cup {t}
        /\ UNCHANGED <<vars, clock, making, loops, list, now, prevTime, alarm, wakevars>>

\* The next wakeup is asked for if there are tickers; alarm.wakeTime is not
\* brought up to date.
EndScan ==
    /\ lp = "scan" /\ cur > Len(list)
    /\ IF list # <<>>
       THEN HasRoom /\ wakeMeAt' = Request(wakeMeAt, wakeTime) /\ UNCHANGED alarm
       ELSE alarm' = 0 /\ UNCHANGED wakeMeAt
    /\ prevTime' = now
    /\ lp' = "select" /\ cur' = 0 /\ wakeTime' = 0    \* both dead until the next scan
    /\ UNCHANGED <<vars, clock, tk, making, loops, list, now, wakeUp, sleep, seen>>

-----------------------------------------------------------------------------
TickerLoop == (\E t \in T : AddTicker(t)) \/ TakeWakeUp \/ ScanShutdown \/ ScanTick \/ EndScan

WakeLoop(k) == k <= Len(sleep) /\ (WakeMeAt(k) \/ WakeUp(k))

Making(g) == OnceStep(g) \/ SendTicker(g)

TNext ==
    \/ \E g \in G : Making(g) \/ \E t \in T : NewTicker(g, t)
    \/ \E t \in T : Stop(t) \/ Receive(t)
    \/ Pass
    \/ TickerLoop
    \/ \E k \in 1..Cardinality(T) : WakeLoop(k)

TSpec == TInit /\ [][TNext]_tvars

\* Goroutines that can run do; the clock may stop, tickers need not be read.
TFairSpec ==
    /\ TSpec
    /\ \A g \in G : WF_tvars(Making(g))
    /\ WF_tvars(TickerLoop)
    /\ \A k \in 1..Cardinality(T) : WF_tvars(WakeLoop(k))

-----------------------------------------------------------------------------
(***************************************************************************)
(* Properties                                                              *)
(***************************************************************************)
\* No ticker is sent before startTickerLoop has made newTicker, and a single
\* tickerLoop is started: once.Do keeps its promise to NewTicker.
LoopStarted ==
    /\ loops <= 1
    /\ \A t \in T : tk[t].at = "sent" => loops = 1

\* Ticks keep the phase of the ticker: nextTick is a whole number of periods
\* after NewTicker, and a scan leaves it in the future but by one period at most.
InPhase ==
    \A t \in T : tk[t].at \notin {"none", "removed"} =>
        /\ (tk[t].nextTick - tk[t].born) % t = 0
        /\ lp = "select" /\ t \in Range(list) \cap seen =>
              tk[t].nextTick > prevTime /\ tk[t].nextTick <= prevTime + t

\* A ticker that is due is served, though its user may never receive: ticks
\* that nobody picks up block nobody.
DueServed ==
    \A t \in T :
        (t \in Range(list) \cap seen /\ tk[t].nextTick <= clock)
           ~> (tk[t].nextTick > clock \/ tk[t].shutdown)
=============================================================================
