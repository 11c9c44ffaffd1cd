--------------------------- MODULE SemaphoreProof ---------------------------
(***************************************************************************)
(* Proofs about the semaphores of the runtime, for any set of goroutines   *)
(* and addresses and any number of releases.                               *)
(***************************************************************************)
EXTENDS Semaphore, TLAPS

\* Between semsleep1 and the end of the sleep.
Sleeps(g) == pc[g] \in {"cansemacquire", "semsleepundo1", "semsleep2"}

\* What is known of one goroutine: it is off its M only at the top of the loop,
\* and it is available for a wakeup from semsleep1 on until it is woken, by
\* readyonstop before it has parked and through the run queue after.
Place(g) ==
    /\ pc[g] # "fault"
    /\ status[g] # "running" => pc[g] = "semsleep1"
    /\ g \in sg <=> status[g] = "waiting" \/ (Sleeps(g) /\ ~readyonstop[g])
    /\ readyonstop[g] => Sleeps(g)

\* g has parked, or is going to.
Parks(g) == g \in sg /\ (status[g] = "waiting" \/ pc[g] = "semsleep2")

\* h is on the way to trying the count of its address again, or to a semwakeup.
OnTheWay(h) ==
    /\ status[h] # "waiting"
    /\ \/ pc[h] \in {"semqueue", "semsleep1", "cansemacquire", "semsleepundo1", "semdequeue", "semwakeup"}
       \/ pc[h] = "semsleep2" /\ readyonstop[h]

\* NoLostWakeup, also for a goroutine that has not parked yet but will: between
\* its last look at the count and gosched a unit may have been released.
NoLost ==
    \A g \in G : Parks(g) /\ sem[addr[g]] > 0 => \E h \in G : addr[h] = addr[g] /\ OnTheWay(h)

IInv ==
    /\ TypeOK
    /\ \A g \in G : Place(g)
    /\ QueueIsExact
    /\ Conservation
    /\ NoLost

-----------------------------------------------------------------------------
LEMMA InitIInv == Init => IInv
<1> SUFFICES ASSUME Init PROVE IInv
  OBVIOUS
<1> USE SemAssumption DEF Init
<1>1. TypeOK
  BY DEF TypeOK, Labels
<1>2. \A g \in G : Place(g) /\ ~Parks(g) /\ ~Queued(g)
  BY DEF Place, Parks, Sleeps, Queued
<1>3. QueueIsExact
  BY <1>2 DEF QueueIsExact
<1>4. Conservation /\ NoLost
  BY <1>2 DEF Conservation, NoLost
<1> QED
  BY <1>1, <1>2, <1>3, <1>4 DEF IInv

\* Most steps leave the queue alone.
LEMMA QueueSame ==
    ASSUME TypeOK, QueueIsExact, semq' = semq, \A h \in G : Queued(h)' <=> Queued(h)
    PROVE  QueueIsExact'
<1>1. \A i \in 1..Len(semq) : semq[i] \in G
  BY DEF TypeOK
<1> QED
  BY <1>1 DEF QueueIsExact

\* cansemacquire takes a unit or finds none.
LEMMA TryTakes ==
    ASSUME TypeOK, NEW g \in G, NEW a \in Addrs, NEW yes, NEW no, Try(g, a, yes, no)
    PROVE  /\ sem' \in [Addrs -> Nat] /\ acquired' \in [Addrs -> Nat]
           /\ \A b \in Addrs : /\ sem'[b] + acquired'[b] = sem[b] + acquired[b]
                               /\ sem'[b] > 0 => sem[b] > 0
           /\ pc' = [pc EXCEPT ![g] = yes] \/ (pc' = [pc EXCEPT ![g] = no] /\ sem'[a] = 0)
<1>1. CASE sem[a] = 0
  BY <1>1 DEF TypeOK, Try, Goto
<1>2. CASE sem[a] > 0
  <2> DEFINE s == sem[a] - 1
             t == acquired[a] + 1
  <2>1. s \in Nat /\ t \in Nat /\ s + t = sem[a] + acquired[a]
    BY <1>2 DEF TypeOK
  <2>2. sem' = [sem EXCEPT ![a] = s] /\ acquired' = [acquired EXCEPT ![a] = t] /\ pc' = [pc EXCEPT ![g] = yes]
    BY <1>2 DEF Try, Goto
  <2> HIDE DEF s, t
  <2> QED
    BY <1>2, <2>1, <2>2 DEF TypeOK
<1> QED
  BY SMTT(30), <1>1, <1>2, SMTT(30) DEF TypeOK

LEMMA semacquireIInv ==
    ASSUME IInv, NEW g \in G, NEW a \in Addrs, semacquire(g, a)
    PROVE  IInv'
<1> USE DEF semacquire, At, IInv
<1>0. /\ sem' \in [Addrs -> Nat] /\ acquired' \in [Addrs -> Nat]
      /\ \A b \in Addrs : /\ sem'[b] + acquired'[b] = sem[b] + acquired[b]
                          /\ sem'[b] > 0 => sem[b] > 0
      /\ pc' = [pc EXCEPT ![g] = "idle"] \/ pc' = [pc EXCEPT ![g] = "semqueue"]
  BY TryTakes
<1>1. TypeOK'
  BY <1>0, Zenon DEF TypeOK, Labels
<1>2. \A h \in G : Place(h)'
  BY <1>0, Zenon DEF TypeOK, Place, Sleeps
<1>3. QueueIsExact'
  BY <1>0, QueueSame, Zenon DEF TypeOK, Queued
<1>4. Conservation'
  BY <1>0 DEF Conservation
<1>5. \A h \in G : (Parks(h)' <=> Parks(h)) /\ (OnTheWay(h) => OnTheWay(h)')
  BY <1>0, Zenon DEF TypeOK, Parks, OnTheWay, Place, Sleeps
<1>6. \A h \in G : OnTheWay(h) \/ Parks(h) => addr'[h] = addr[h] /\ addr[h] \in Addrs
  BY DEF TypeOK, Parks, OnTheWay, Place
<1>7. NoLost'
  BY <1>0, <1>5, <1>6 DEF NoLost
<1> QED
  BY <1>1, <1>2, <1>3, <1>4, <1>7

LEMMA semreleaseIInv ==
    ASSUME IInv, NEW g \in G, NEW a \in Addrs, semrelease(g, a)
    PROVE  IInv'
<1> USE DEF semrelease, At, Goto, IInv
<1>1. TypeOK'
  BY SMTT(30) DEF TypeOK, Labels
<1>2. \A h \in G : Place(h)'
  BY DEF TypeOK, Place, Sleeps
<1>3. QueueIsExact'
  BY QueueSame DEF TypeOK, Queued
<1>4. Conservation'
  <2>1. ASSUME NEW b \in Addrs PROVE (sem[b] + acquired[b] = InitialSem + released[b])'
    <3>1. CASE b = a
      <4>1. sem'[a] = sem[a] + 1 /\ released'[a] = released[a] + 1 /\ acquired' = acquired
        BY DEF TypeOK
      <4>2. sem[a] \in Nat /\ acquired[a] \in Nat /\ released[a] \in Nat
        BY DEF TypeOK
      <4>3. sem[a] + acquired[a] = InitialSem + released[a]
        BY DEF Conservation
      <4> QED
        BY <3>1, <4>1, <4>2, <4>3, SemAssumption
    <3>2. CASE b # a
      BY <3>2 DEF TypeOK, Conservation
    <3> QED
      BY <3>1, <3>2
  <2> QED
    BY <2>1 DEF Conservation
<1>5. \A h \in G : (Parks(h)' <=> Parks(h)) /\ (OnTheWay(h) => OnTheWay(h)')
  BY DEF TypeOK, Parks, OnTheWay, Place, Sleeps
<1>6. \A h \in G : OnTheWay(h) \/ Parks(h) => h # g
  BY DEF Parks, OnTheWay, Place
<1>7. OnTheWay(g)' /\ addr'[g] = a
  BY DEF TypeOK, OnTheWay
<1>8. \A b \in Addrs \ {a} : sem'[b] = sem[b]
  BY DEF TypeOK
<1>9. NoLost'
  BY <1>5, <1>6, <1>7, <1>8 DEF TypeOK, NoLost
<1> QED
  BY <1>1, <1>2, <1>3, <1>4, <1>9

LEMMA semqueueIInv ==
    ASSUME IInv, NEW g \in G, semqueue(g)
    PROVE  IInv'
<1> USE DEF semqueue, At, Goto, IInv
<1>1. TypeOK'
  BY DEF TypeOK, Labels
<1>2. \A h \in G : Place(h)'
  BY DEF TypeOK, Place, Sleeps
<1>3. QueueIsExact'
  <2>1. /\ Len(semq') = Len(semq) + 1 /\ Len(semq) \in Nat
        /\ semq'[Len(semq) + 1] = g
        /\ \A i \in 1..Len(semq) : semq'[i] = semq[i] /\ semq[i] \in G
    BY DEF TypeOK
  <2>2. \A h \in G : Queued(h)' <=> Queued(h) \/ h = g
    BY DEF TypeOK, Queued
  <2>3. ~Queued(g)
    BY DEF Queued
  <2>4. \A i \in 1..Len(semq) : semq[i] # g
    BY <2>3 DEF QueueIsExact
  <2>5. \A i, j \in 1..Len(semq') : semq'[i] = semq'[j] => i = j
    BY <2>1, <2>4 DEF QueueIsExact
  <2>6. \A i \in 1..Len(semq') : Queued(semq[i])'
    BY <2>1, <2>2 DEF QueueIsExact
  <2> QED
    BY <2>1, <2>2, <2>5, <2>6 DEF QueueIsExact
<1>4. Conservation'
  BY DEF Conservation
<1>5. \A h \in G : (Parks(h)' <=> Parks(h)) /\ (OnTheWay(h) => OnTheWay(h)')
  BY DEF TypeOK, Parks, OnTheWay, Place, Sleeps
<1>6. NoLost'
  BY <1>5 DEF NoLost
<1> QED
  BY <1>1, <1>2, <1>3, <1>4, <1>6

LEMMA semsleep1IInv ==
    ASSUME IInv, NEW g \in G, semsleep1(g)
    PROVE  IInv'
<1> USE DEF semsleep1, At, Goto, IInv
<1>1. TypeOK'
  BY DEF TypeOK, Labels
<1>2. \A h \in G : Place(h)'
  BY DEF TypeOK, Place, Sleeps
<1>3. QueueIsExact'
  BY QueueSame DEF TypeOK, Queued
<1>4. Conservation'
  BY DEF Conservation
<1>5. \A h \in G : (Parks(h)' => Parks(h)) /\ (OnTheWay(h) => OnTheWay(h)')
  BY DEF TypeOK, Parks, OnTheWay, Place, Sleeps
<1>6. NoLost'
  BY <1>5 DEF NoLost
<1> QED
  BY <1>1, <1>2, <1>3, <1>4, <1>6

\* A goroutine goes on to semsleep2 only when it has found no unit.
LEMMA cansemacquireIInv ==
    ASSUME IInv, NEW g \in G, cansemacquire(g)
    PROVE  IInv'
<1> USE DEF cansemacquire, At, IInv
<1>0. /\ sem' \in [Addrs -> Nat] /\ acquired' \in [Addrs -> Nat]
      /\ \A b \in Addrs : /\ sem'[b] + acquired'[b] = sem[b] + acquired[b]
                          /\ sem'[b] > 0 => sem[b] > 0
      /\ \/ pc' = [pc EXCEPT ![g] = "semsleepundo1"]
         \/ pc' = [pc EXCEPT ![g] = "semsleep2"] /\ sem'[addr[g]] = 0
  <2>1. addr[g] \in Addrs
    BY DEF TypeOK
  <2> QED
    BY <2>1, TryTakes
<1>1. TypeOK'
  BY <1>0, Zenon DEF TypeOK, Labels
<1>2. \A h \in G : Place(h)'
  BY <1>0 DEF TypeOK, Place, Sleeps
<1>3. QueueIsExact'
  BY SMTT(30), <1>0, QueueSame, SMTT(30) DEF TypeOK, Queued
<1>4. Conservation'
  BY <1>0 DEF Conservation
<1>5. \A h \in G : /\ Parks(h)' => Parks(h) \/ (h = g /\ sem'[addr[g]] = 0)
                   /\ OnTheWay(h) => OnTheWay(h)' \/ (h = g /\ sem'[addr[g]] = 0)
  BY SMTT(30), <1>0 DEF TypeOK, Parks, OnTheWay, Place, Sleeps
<1>6. \A h \in G : addr'[h] = addr[h] /\ addr[h] \in Addrs
  BY DEF TypeOK
<1>7. NoLost'
  BY <1>0, <1>5, <1>6 DEF NoLost
<1> QED
  BY <1>1, <1>2, <1>3, <1>4, <1>7

LEMMA semsleepundo1IInv ==
    ASSUME IInv, NEW g \in G, semsleepundo1(g)
    PROVE  IInv'
<1> USE DEF semsleepundo1, At, Goto, IInv
<1>1. TypeOK'
  BY Zenon DEF TypeOK, Labels
<1>2. \A h \in G : Place(h)'
  BY DEF TypeOK, Place, Sleeps
<1>3. QueueIsExact'
  BY <1>2, QueueSame DEF TypeOK, Queued, Place
<1>4. Conservation'
  BY DEF Conservation
<1>5. \A h \in G : (Parks(h)' => Parks(h)) /\ (OnTheWay(h) => OnTheWay(h)')
  BY DEF TypeOK, Parks, OnTheWay, Place, Sleeps
<1>6. NoLost'
  BY <1>5 DEF NoLost
<1> QED
  BY <1>1, <1>2, <1>3, <1>4, <1>6

LEMMA semsleep2IInv ==
    ASSUME IInv, NEW g \in G, semsleep2(g)
    PROVE  IInv'
<1> USE DEF semsleep2, At, Goto, IInv
<1>1. TypeOK'
  BY DEF TypeOK, Labels
<1>2. \A h \in G : Place(h)'
  BY DEF TypeOK, Place, Sleeps
<1>3. QueueIsExact'
  BY QueueSame DEF TypeOK, Queued
<1>4. Conservation'
  BY DEF Conservation
<1>5. \A h \in G : (Parks(h)' => Parks(h)) /\ (OnTheWay(h) => OnTheWay(h)')
  BY DEF TypeOK, Parks, OnTheWay, Place, Sleeps
<1>6. NoLost'
  BY <1>5 DEF NoLost
<1> QED
  BY <1>1, <1>2, <1>3, <1>4, <1>6

LEMMA ResumeIInv ==
    ASSUME IInv, NEW g \in G, Resume(g)
    PROVE  IInv'
<1> USE DEF Resume, At, Goto, IInv
<1>1. TypeOK'
  BY DEF TypeOK, Labels
<1>2. \A h \in G : Place(h)'
  BY DEF TypeOK, Place, Sleeps
<1>3. QueueIsExact'
  BY QueueSame DEF TypeOK, Queued
<1>4. Conservation'
  BY DEF Conservation
<1>5. \A h \in G : (Parks(h)' => Parks(h)) /\ (OnTheWay(h) => OnTheWay(h)')
  BY DEF TypeOK, Parks, OnTheWay, Place, Sleeps
<1>6. NoLost'
  BY <1>5 DEF NoLost
<1> QED
  BY <1>1, <1>2, <1>3, <1>4, <1>6

LEMMA semdequeueIInv ==
    ASSUME IInv, NEW g \in G, semdequeue(g)
    PROVE  IInv'
<1> USE DEF semdequeue, At, Goto, IInv
<1>0. PICK k \in 1..Len(semq) :
         semq[k] = g /\ semq' = [i \in 1..Len(semq) - 1 |-> semq[IF i < k THEN i ELSE i + 1]]
  OBVIOUS
<1> DEFINE n == Len(semq)
<1>1. /\ n \in Nat /\ n - 1 \in Nat /\ k \in 1..n
      /\ \A i \in 1..n : semq[i] \in G
  <2>1. semq \in Seq(G)
    BY DEF TypeOK
  <2>2. n \in Nat /\ \A i \in 1..n : semq[i] \in G
    BY ONLY <2>1
  <2>3. k \in 1..n
    OBVIOUS
  <2>4. n - 1 \in Nat
    BY ONLY <2>2, <2>3
  <2> QED
    BY ONLY <2>2, <2>3, <2>4
<1>2. /\ semq' \in Seq(G) /\ Len(semq') = n - 1
      /\ \A i \in 1..n - 1 : semq'[i] = semq[IF i < k THEN i ELSE i + 1]
  <2>1. \A i \in 1..n - 1 : (IF i < k THEN i ELSE i + 1) \in 1..n
    BY <1>1
  <2>2. semq' \in [1..n - 1 -> G]
    BY <1>0, <1>1, <2>1
  <2>3. n - 1 \in Nat
    BY <1>1
  <2>4. semq' \in Seq(G) /\ Len(semq') = n - 1
    BY ONLY <2>2, <2>3
  <2>5. \A i \in 1..n - 1 : semq'[i] = semq[IF i < k THEN i ELSE i + 1]
    BY <1>0
  <2> QED
    BY <2>4, <2>5
<1>3. TypeOK'
  BY <1>2, Zenon DEF TypeOK, Labels
<1>4. \A h \in G : Place(h)'
  BY Zenon DEF TypeOK, Place, Sleeps
<1>5. QueueIsExact'
  <2>1. \A i, j \in 1..n : semq[i] = semq[j] => i = j
    BY DEF QueueIsExact
  <2>2. \A i, j \in 1..Len(semq') : semq'[i] = semq'[j] => i = j
    BY <1>1, <1>2, <2>1
  <2>3. \A h \in G : Queued(h)' <=> Queued(h) /\ h # g
    BY DEF TypeOK, Queued
  <2>4. \A i \in 1..Len(semq') : Queued(semq[i])'
    <3>1. \A i \in 1..n : Queued(semq[i])
      BY DEF QueueIsExact
    <3>2. \A i \in 1..n : i # k => Queued(semq[i]) /\ semq[i] # g
      BY <1>0, <1>1, <2>1, <3>1
    <3>3. \A i \in 1..n - 1 : (IF i < k THEN i ELSE i + 1) \in 1..n \ {k}
      BY <1>1
    <3>4. ASSUME NEW i \in 1..n - 1 PROVE \E h \in G : semq'[i] = h /\ Queued(h) /\ h # g
      BY <1>1, <1>2, <3>2, <3>3
    <3> QED
      BY <1>2, <2>3, <3>4, Zenon DEF Queued
  <2>5. ASSUME NEW h \in G, Queued(h)' PROVE \E i \in 1..Len(semq') : semq'[i] = h
    <3>1. PICK i \in 1..n : semq[i] = h
      BY <2>3, <2>5 DEF QueueIsExact
    <3>2. CASE i < k
      BY <1>1, <1>2, <3>1, <3>2
    <3>3. CASE i > k
      <4>1. i - 1 \in 1..n - 1 /\ ~(i - 1 < k) /\ (i - 1) + 1 = i
        BY <1>1, <3>3
      <4> QED
        BY <1>2, <3>1, <4>1, Zenon
    <3> QED
      BY <1>0, <1>1, <2>3, <2>5, <3>1, <3>2, <3>3
  <2> QED
    BY <2>2, <2>4, <2>5, Zenon DEF QueueIsExact
<1>6. Conservation'
  BY DEF Conservation
<1>7. \A h \in G : (Parks(h)' => Parks(h)) /\ (OnTheWay(h) => OnTheWay(h)')
  BY Zenon DEF TypeOK, Parks, OnTheWay, Place, Sleeps
<1>8. NoLost'
  BY <1>7 DEF NoLost
<1> QED
  BY <1>3, <1>4, <1>5, <1>6, <1>8

\* semwakeup readies the first goroutine that is available: one that has parked,
\* through the run queue, or one that is still running, by readyonstop.  Either
\* way it is on the way, so the caller of semwakeup need not be any more.
LEMMA semwakeupIInv ==
    ASSUME IInv, NEW g \in G, semwakeup(g)
    PROVE  IInv'
<1> USE DEF semwakeup, At, Goto, IInv
<1>1. CASE Available(addr[g]) = {}
  <2>0. UNCHANGED <<sem, semq, sg, addr, status, readyonstop, released, acquired>> /\ pc' = [pc EXCEPT ![g] = "idle"]
    BY <1>1
  <2>1. TypeOK'
    BY <2>0 DEF TypeOK, Labels
  <2>2. \A h \in G : Place(h)'
    BY <2>0 DEF TypeOK, Place, Sleeps
  <2>3. QueueIsExact'
    BY <2>0, QueueSame DEF TypeOK, Queued
  <2>4. Conservation'
    BY <2>0 DEF Conservation
  <2>5. \A h \in G : Parks(h) => addr[h] # addr[g]
    <3>1. \A h \in G : Parks(h) => h \in sg /\ Queued(h)
      BY DEF Parks, Place, Queued
    <3>2. \A h \in G : Queued(h) => \E i \in 1..Len(semq) : semq[i] = h
      BY DEF QueueIsExact
    <3> QED
      BY <1>1, <3>1, <3>2 DEF Available
  <2>6. \A h \in G : (Parks(h)' => Parks(h)) /\ (OnTheWay(h) => OnTheWay(h)' \/ h = g)
    BY <2>0 DEF TypeOK, Parks, OnTheWay
  <2>7. NoLost'
    BY <2>0, <2>5, <2>6 DEF NoLost
  <2> QED
    BY <2>1, <2>2, <2>3, <2>4, <2>7
<1>2. ASSUME NEW i \in Available(addr[g]), ready(semq[i]), sg' = sg \ {semq[i]}
      PROVE  IInv'
  <2>1. PICK x \in G : x = semq[i] /\ x \in sg /\ addr[x] = addr[g] /\ x # g
    BY Zenon DEF Available, TypeOK, Place, Sleeps
  <2>2. /\ ready(x) /\ sg' = sg \ {x} /\ pc' = [pc EXCEPT ![g] = "idle"]
        /\ UNCHANGED <<sem, semq, addr, released, acquired>>
    BY <1>2, <2>1
  <2>3. /\ status[x] = "waiting" => pc[x] = "semsleep1"
        /\ status[x] # "waiting" => status[x] = "running" /\ Sleeps(x)
    BY <2>1 DEF Place, TypeOK, Sleeps
  <2>4. TypeOK'
    <3>1. /\ status' \in [G -> {"running", "waiting", "runnable"}]
          /\ readyonstop' \in [G -> BOOLEAN]
      BY <2>1, <2>2, Zenon DEF ready, TypeOK
    <3>2. pc' \in [G -> Labels] /\ sg' \subseteq G
      BY SMTT(30), <2>2, SMTT(30) DEF TypeOK, Labels
    <3> QED
      BY <2>2, <3>1, <3>2, Zenon DEF TypeOK
  <2>5. \A h \in G : Place(h)'
    <3> SUFFICES ASSUME NEW h \in G PROVE Place(h)'
      OBVIOUS
    <3>1. Place(h) /\ Place(x)
      OBVIOUS
    <3>2. pc'[h] = (IF h = g THEN "idle" ELSE pc[h]) /\ pc[g] = "semwakeup"
      BY <2>2 DEF TypeOK
    <3>3. CASE h = x
      <4>1. pc'[h] = pc[h] /\ h \notin sg'
        BY <2>1, <2>2, <3>2, <3>3
      <4>2. CASE status[x] = "running"
        BY <2>2, <2>3, <3>1, <3>3, <4>1, <4>2 DEF ready, TypeOK, Place, Sleeps
      <4>3. CASE status[x] # "running"
        BY <2>2, <2>3, <3>1, <3>3, <4>1, <4>3 DEF ready, TypeOK, Place, Sleeps
      <4> QED
        BY <4>2, <4>3
    <3>4. CASE h # x
      <4>1. status'[h] = status[h] /\ readyonstop'[h] = readyonstop[h] /\ (h \in sg' <=> h \in sg)
        BY <2>2, <3>4 DEF ready, TypeOK
      <4> QED
        BY <3>1, <3>2, <4>1 DEF Place, Sleeps
    <3> QED
      BY <3>3, <3>4
  <2>6. QueueIsExact'
    BY <2>2, QueueSame, Zenon DEF TypeOK, Queued
  <2>7. Conservation'
    BY <2>2 DEF Conservation
  <2>8. OnTheWay(x)'
    BY <2>1, <2>2, <2>3 DEF ready, TypeOK, OnTheWay, Sleeps
  <2>9. \A h \in G : (Parks(h)' => Parks(h)) /\ (OnTheWay(h) => OnTheWay(h)' \/ h = g)
    <3> SUFFICES ASSUME NEW h \in G
                 PROVE  (Parks(h)' => Parks(h)) /\ (OnTheWay(h) => OnTheWay(h)' \/ h = g)
      OBVIOUS
    <3>1. CASE h = x
      BY <2>2, <2>8, <3>1 DEF Parks
    <3>2. CASE h # x
      <4>1. status'[h] = status[h] /\ readyonstop'[h] = readyonstop[h] /\ (h \in sg' <=> h \in sg)
        BY <2>2, <3>2 DEF ready, TypeOK
      <4>2. pc'[h] = IF h = g THEN "idle" ELSE pc[h]
        BY <2>2 DEF TypeOK
      <4> QED
        BY <4>1, <4>2 DEF Parks, OnTheWay
    <3> QED
      BY <3>1, <3>2
  <2>10. NoLost'
    BY <2>1, <2>2, <2>8, <2>9 DEF NoLost
  <2> QED
    BY <2>4, <2>5, <2>6, <2>7, <2>10
<1> QED
  BY <1>1, <1>2

\* IInv holds in every state of the semaphores.
THEOREM SemInvariance == Spec => []IInv
<1>1. IInv /\ [Next]_vars => IInv'
  <2> SUFFICES ASSUME IInv, [Next]_vars PROVE IInv'
    OBVIOUS
  <2>1. CASE UNCHANGED vars
    <3>1. /\ sem' = sem /\ semq' = semq /\ sg' = sg /\ pc' = pc /\ addr' = addr
          /\ status' = status /\ readyonstop' = readyonstop
          /\ released' = released /\ acquired' = acquired
      BY <2>1 DEF vars
    <3>2. TypeOK' /\ Conservation'
      BY <3>1 DEF IInv, TypeOK, Conservation
    <3>3. \A g \in G : Place(g)'
      BY <3>1 DEF IInv, Place, Sleeps
    <3>4. QueueIsExact'
      BY <3>1 DEF IInv, QueueIsExact, Queued
    <3>5. NoLost'
      BY <3>1 DEF IInv, NoLost, Parks, OnTheWay
    <3> QED
      BY <3>2, <3>3, <3>4, <3>5 DEF IInv
  <2>2. ASSUME NEW g \in G, Call(g) PROVE IInv'
    BY <2>2, semacquireIInv, semreleaseIInv DEF Call
  <2>3. ASSUME NEW g \in G, Step(g) PROVE IInv'
    BY <2>3, semqueueIInv, semsleep1IInv, cansemacquireIInv, semsleepundo1IInv, semsleep2IInv,
       semdequeueIInv, semwakeupIInv, ResumeIInv DEF Step
  <2> QED
    BY <2>1, <2>2, <2>3 DEF Next
<1> QED
  BY InitIInv, <1>1, PTL DEF Spec

\* The crash of semsleepundo1 is unreachable: whoever took the Sema out of sg
\* before the goroutine parked has also set readyonstop.
THEOREM SemNoFault == Spec => []NoFault
<1>1. IInv => NoFault
  BY DEF IInv, NoFault, Place
<1> QED
  BY SemInvariance, <1>1, PTL

\* A wakeup reaches a goroutine once, by readyonstop or through the run queue.
THEOREM SemWakeupOnce == Spec => []WakeupOnce
<1>1. IInv => WakeupOnce
  BY DEF IInv, TypeOK, WakeupOnce, Place, Sleeps, Queued
<1> QED
  BY SemInvariance, <1>1, PTL

\* Units are neither lost nor made up.
THEOREM SemConservation == Spec => []Conservation
<1>1. IInv => Conservation
  BY DEF IInv
<1> QED
  BY SemInvariance, <1>1, PTL

\* The queue holds the Sema of exactly the goroutines in the loop of semacquire,
\* so none is left in it when the stack frame it lives in is gone.
THEOREM SemQueueIsExact == Spec => []QueueIsExact
<1>1. IInv => QueueIsExact
  BY DEF IInv
<1> QED
  BY SemInvariance, <1>1, PTL

\* A unit that a parked goroutine waits for is on its way to being tried for.
THEOREM SemNoLostWakeup == Spec => []NoLostWakeup
<1>1. IInv => NoLostWakeup
  <2> SUFFICES ASSUME IInv, NEW a \in Addrs, sem[a] > 0,
                      NEW g \in G, status[g] = "waiting", addr[g] = a
               PROVE  \E h \in G :
                         /\ addr[h] = a /\ status[h] # "waiting"
                         /\ \/ pc[h] \in {"semqueue", "semsleep1", "cansemacquire",
                                          "semsleepundo1", "semdequeue", "semwakeup"}
                            \/ pc[h] = "semsleep2" /\ readyonstop[h]
    BY DEF NoLostWakeup
  <2>1. Parks(g)
    BY DEF IInv, Place, Parks
  <2> QED
    BY <2>1 DEF IInv, NoLost, OnTheWay
<1> QED
  BY SemInvariance, <1>1, PTL

-----------------------------------------------------------------------------
W == [a \in Addrs |-> Waiting(a)]

\* The safety part of ImplementsSemaphore, which leaves fairness out.
AbstractSteps == Abstract!Init /\ [][Abstract!Next]_<<sem, W>>

\* A step that leaves the count alone and moves nobody in or out of Waiting.
LEMMA Stutters ==
    ASSUME sem' = sem, \A a \in Addrs : Waiting(a)' = Waiting(a)
    PROVE  UNCHANGED <<sem, W>>
BY DEF W

LEMMA CallSteps ==
    ASSUME IInv, NEW g \in G, NEW a \in Addrs, semacquire(g, a) \/ semrelease(g, a)
    PROVE  Abstract!Next
<1> USE DEF IInv, At, Goto
<1>1. CASE semrelease(g, a)
  <2>1. \A b \in Addrs : Waiting(b)' = Waiting(b)
    BY <1>1 DEF semrelease, TypeOK, Waiting
  <2>2. W' = W
    BY <2>1 DEF W
  <2>3. Abstract!Release(a)
    BY <1>1, <2>2 DEF semrelease, Abstract!Release, W
  <2> QED
    BY <2>3 DEF Abstract!Next
<1>2. CASE semacquire(g, a) /\ sem[a] > 0
  <2>0. sem' = [sem EXCEPT ![a] = @ - 1] /\ pc' = [pc EXCEPT ![g] = "idle"] /\ addr' = [addr EXCEPT ![g] = a]
    BY <1>2 DEF semacquire, Try, TypeOK
  <2>1. \A b \in Addrs : Waiting(b)' = Waiting(b) /\ g \notin Waiting(b)
    BY <1>2, <2>0 DEF semacquire, TypeOK, Waiting
  <2>2. W' = [W EXCEPT ![a] = @ \ {g}]
    BY <2>1 DEF W
  <2>3. Abstract!Acquire(g, a)
    BY <1>2, <2>0, <2>2 DEF Abstract!Acquire, W
  <2> QED
    BY <2>3 DEF Abstract!Next
<1>3. CASE semacquire(g, a) /\ sem[a] = 0
  <2>0. sem' = sem /\ pc' = [pc EXCEPT ![g] = "semqueue"] /\ addr' = [addr EXCEPT ![g] = a]
    BY <1>3 DEF semacquire, Try, TypeOK
  <2>1. \A b \in Addrs : Waiting(b)' = IF b = a THEN Waiting(b) \cup {g} ELSE Waiting(b)
    BY <1>3, <2>0 DEF semacquire, TypeOK, Waiting
  <2>2. W' = [W EXCEPT ![a] = @ \cup {g}]
    BY <2>1, Zenon DEF W
  <2>3. Abstract!Wait(g, a)
    BY <1>3, <2>0, <2>2 DEF Abstract!Wait, W
  <2> QED
    BY <2>3 DEF Abstract!Next
<1> QED
  BY <1>1, <1>2, <1>3 DEF TypeOK

LEMMA StepSteps ==
    ASSUME IInv, NEW g \in G, Step(g)
    PROVE  Abstract!Next \/ UNCHANGED <<sem, W>>
<1> USE DEF IInv, At, Goto
<1>1. CASE semqueue(g) \/ semsleep1(g) \/ semsleep2(g) \/ semdequeue(g) \/ Resume(g)
  <2>1. \A b \in Addrs : Waiting(b)' = Waiting(b)
    BY SMTT(30), <1>1, SMTT(30) DEF semqueue, semsleep1, semsleep2, semdequeue, Resume, TypeOK, Waiting
  <2> QED
    BY <1>1, <2>1, Stutters DEF semqueue, semsleep1, semsleep2, semdequeue, Resume
<1>2. CASE semsleepundo1(g) \/ semwakeup(g)
  <2>1. \A b \in Addrs : Waiting(b)' = Waiting(b)
    BY <1>2 DEF semsleepundo1, semwakeup, TypeOK, Waiting
  <2> QED
    BY <1>2, <2>1, Stutters DEF semsleepundo1, semwakeup
<1>3. CASE cansemacquire(g) /\ sem[addr[g]] > 0
  <2>0. /\ addr[g] \in Addrs /\ addr' = addr
        /\ sem' = [sem EXCEPT ![addr[g]] = @ - 1] /\ pc' = [pc EXCEPT ![g] = "semsleepundo1"]
    BY <1>3 DEF cansemacquire, Try, TypeOK
  <2>1. \A b \in Addrs : Waiting(b)' = IF b = addr[g] THEN Waiting(b) \ {g} ELSE Waiting(b)
    BY <1>3, <2>0 DEF cansemacquire, TypeOK, Waiting
  <2>2. W' = [W EXCEPT ![addr[g]] = @ \ {g}]
    BY <2>0, <2>1, Zenon DEF W
  <2>3. Abstract!Acquire(g, addr[g])
    BY <1>3, <2>0, <2>2 DEF Abstract!Acquire, W
  <2> QED
    BY <2>0, <2>3 DEF Abstract!Next
<1>4. CASE cansemacquire(g) /\ sem[addr[g]] = 0
  <2>0. sem' = sem /\ addr' = addr /\ pc' = [pc EXCEPT ![g] = "semsleep2"]
    BY <1>4 DEF cansemacquire, Try, TypeOK
  <2>1. \A b \in Addrs : Waiting(b)' = Waiting(b)
    BY <1>4, <2>0 DEF cansemacquire, TypeOK, Waiting
  <2> QED
    BY <2>0, <2>1, Stutters
<1> QED
  BY <1>1, <1>2, <1>3, <1>4 DEF Step, TypeOK

\* Every step of semacquire and semrelease is a step of the atomic semaphore of
\* SemaSpec, which the models of package sync build on, or none.
THEOREM SemImplements == Spec => AbstractSteps
<1>1. Init => Abstract!Init
  <2> SUFFICES ASSUME Init PROVE Abstract!Init
    OBVIOUS
  <2>1. \A a \in Addrs : Waiting(a) = {}
    BY DEF Init, Waiting
  <2> QED
    BY <2>1 DEF Init, Abstract!Init
<1>2. IInv /\ [Next]_vars => [Abstract!Next]_<<sem, W>>
  <2> SUFFICES ASSUME IInv, [Next]_vars PROVE Abstract!Next \/ UNCHANGED <<sem, W>>
    OBVIOUS
  <2>1. CASE UNCHANGED vars
    BY <2>1 DEF vars, W, Waiting
  <2>2. ASSUME NEW g \in G, Call(g) PROVE Abstract!Next
    BY <2>2, CallSteps DEF Call
  <2>3. ASSUME NEW g \in G, Step(g) PROVE Abstract!Next \/ UNCHANGED <<sem, W>>
    BY <2>3, StepSteps
  <2> QED
    BY <2>1, <2>2, <2>3 DEF Next
<1> QED
  BY SemInvariance, <1>1, <1>2, PTL DEF Spec, AbstractSteps
=============================================================================
