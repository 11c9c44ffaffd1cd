------------------------------- MODULE MCChan -------------------------------
(***************************************************************************)
(* Instances of Chan: three goroutines, channel 1 without a buffer and     *)
(* channel 2 with a buffer.                                                *)
(***************************************************************************)
EXTENDS Chan

send(c, block) == [op |-> "send", chan |-> c, block |-> block]
recv(c, block) == [op |-> "recv", chan |-> c, block |-> block]
close(c) == [op |-> "close", chan |-> c]
select(cases) == [op |-> "select", cases |-> cases]
r(c) == [chan |-> c, send |-> 0]
s(c) == [chan |-> c, send |-> 1]
default == [chan |-> nil, send |-> 2]

MCG == {1, 2, 3}
MCChans == {1, 2}
MCdataqsiz == <<0, 2>>

\* Plain operations on the channel without a buffer.
Sync == <<{send(1, TRUE), recv(1, TRUE)},
          {send(1, TRUE), recv(1, TRUE), recv(1, FALSE)},
          {recv(1, TRUE), send(1, FALSE), close(1)}>>

\* Plain operations on the channel with a buffer.
Async == <<{send(2, TRUE)},
           {send(2, TRUE), send(2, FALSE), recv(2, TRUE)},
           {recv(2, TRUE), recv(2, FALSE), close(2)}>>

\* A select that receives, one that sends, in opposite orders, and a goroutine
\* that does not wait.
Selects == <<{select(<<r(1), r(2)>>)},
             {select(<<s(2), s(1)>>)},
             {select(<<default, r(1), s(2)>>), send(1, FALSE), close(1), close(2)}>>

MCPrograms == {Sync, Async, Selects}

=============================================================================
