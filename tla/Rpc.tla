-------------------------------- MODULE Rpc ---------------------------------
(***************************************************************************)
(* Package rpc: a Client with several Calls under way, the server that     *)
(* serves its connection with a goroutine per request, and the connection, *)
(* which either end may close and the network may break.  The codec is the *)
(* gob one: a message is a header and a body, each a value with its type,  *)
(* and decoding a value into a variable of another type is an error.       *)
(***************************************************************************)
EXTENDS Integers, Sequences, FiniteSets

CONSTANTS Calls,      \* the Call objects, each made by a goroutine of its own
          Closers,    \* goroutines that call Client.Close
          EmptyReply  \* the Reply structs have no field, so that any value decodes

ASSUME RpcAssumption ==
    "input" \notin Calls /\ Calls \cap Closers = {} /\ EmptyReply \in BOOLEAN

Senders == Calls \cup {"input"}     \* goroutines of the server that send responses

VARIABLES
    \* the client
    pc,                \* where the goroutine of each Call, or each closer, is
    kind,              \* what the Call asks for
    seq, nextseq,      \* c.seq, client.seq
    pending, shutdown, closing, sending,
    inpc, resp, c,     \* Client.input: where it is, response, c
    inerr,             \* err
    \* the server
    registered,        \* the service is in serviceMap
    spc, req, out,     \* where each sender is, its request, the response it sends
    ssending,
    \* the connection
    c2s, s2c,          \* values on their way
    gone,              \* the ends that have closed it; "net" if the network has failed
    \* history
    crashed,           \* how the client program has crashed, or "no"
    done,              \* how often each Call was sent on its Done
    error,             \* Call.Error
    reply,             \* whose reply was decoded into Call.Reply
    ran                \* how often the method was run for each Call

client == <<pc, kind, seq, nextseq, pending, shutdown, closing, sending, crashed>>
input == <<inpc, resp, c, inerr>>
completion == <<done, error, reply>>
server == <<registered, spc, req, out, ssending, ran>>
wires == <<c2s, s2c, gone>>
vars == <<client, input, completion, server, wires>>

NoCall == "none"

\* A value on the wire: a header or the body of the message about a Call.
Value(type, n, k, err) == [type |-> type, seq |-> n, of |-> k, err |-> err]
NoReq == Value("Request", 0, NoCall, "nil")      \* new(Request)

\* NewClient on a connection that ServeConn serves.
Init ==
    /\ pc = [k \in Calls \cup Closers |-> "idle"]
    /\ kind = [k \in Calls |-> "good"]
    /\ seq = [k \in Calls |-> 0] /\ nextseq = 0
    /\ pending = {} /\ shutdown = "nil" /\ closing = FALSE /\ sending = "free"
    /\ inpc = "header" /\ resp = NoReq /\ c = NoCall /\ inerr = "nil"
    /\ registered = FALSE
    /\ spc = [s \in Senders |-> IF s = "input" THEN "header" ELSE "none"]
    /\ req = [s \in Senders |-> NoReq] /\ out = [s \in Senders |-> NoReq] /\ ssending = "free"
    /\ c2s = <<>> /\ s2c = <<>> /\ gone = {}
    /\ crashed = "no"
    /\ done = [k \in Calls |-> 0] /\ error = [k \in Calls |-> "nil"]
    /\ reply = [k \in Calls |-> NoCall]
    /\ ran = [k \in Calls |-> 0]

(***************************************************************************)
(* The connection (external): what is written for an end that is gone is   *)
(* lost or fails; a reader gets what was sent before a close, then EOF.    *)
(***************************************************************************)
Peer(end) == IF end = "client" THEN "server" ELSE "client"

Encoded(end, wire, v) ==
    IF gone = {} THEN wire' = Append(wire, v) ELSE gone = {Peer(end)} /\ wire' = wire

EncodeFails == gone # {}

ReadError(end, wire) ==
    IF end \in gone THEN "EINVAL"
    ELSE IF "net" \in gone THEN "ECONNRESET"
    ELSE IF wire = <<>> /\ gone # {} THEN "EOF"
    ELSE "nil"

\* Decode into a variable of one of the given types: err is the error.
Decode(end, wire, types, err) ==
    LET e == ReadError(end, wire) IN
    IF e # "nil" THEN err = e /\ wire' = wire
    ELSE /\ wire # <<>>
         /\ err = IF Head(wire).type \in types THEN "nil" ELSE "type mismatch"
         /\ wire' = Tail(wire)

ReadErrors == {"nil", "EINVAL", "ECONNRESET", "EOF", "type mismatch"}

\* An end closes the connection: what it has not read is lost.
Hangup(end) ==
    /\ gone' = gone \cup {end}
    /\ IF end = "client" THEN s2c' = <<>> /\ c2s' = c2s ELSE c2s' = <<>> /\ s2c' = s2c

Reset ==
    /\ gone = {} /\ gone' = {"net"} /\ c2s' = <<>> /\ s2c' = <<>>
    /\ UNCHANGED <<client, input, completion, server>>

Goto(k, l) == pc' = [pc EXCEPT ![k] = l]
SGoto(s, l) == spc' = [spc EXCEPT ![s] = l]

\* c.Error = err; c.Done <- c, for each of the calls.
Complete(ks, err) ==
    /\ error' = [k \in Calls |-> IF k \in ks THEN err ELSE error[k]]
    /\ done' = [k \in Calls |-> IF k \in ks THEN done[k] + 1 ELSE done[k]]

\* A response to r with the given body; the sender goes on at next.
Respond(s, r, body, err, next) ==
    /\ out' = [out EXCEPT ![s] = [seq |-> r.seq, of |-> r.of, body |-> body, err |-> err, next |-> next]]
    /\ SGoto(s, "send")

(***************************************************************************)
(* Faulty variants                                                         *)
(***************************************************************************)
\* The call stays pending when its response arrives.
TakePendingKeeps ==
    LET found == {k \in pending : seq[k] = resp.seq} IN
    /\ inpc = "take" /\ crashed = "no" /\ found # {}
    /\ c' \in found
    /\ inpc' = "body"
    /\ UNCHANGED <<client, resp, inerr, completion, server, wires>>

\* The Request is not allocated anew in each round of the server's loop.
callSharesRequest(k) ==
    /\ spc[k] = "call"
    /\ ran' = [ran EXCEPT ![k] = @ + 1]
    /\ \E err \in {"nil", "failed"} :
          Respond(k, [req["input"] EXCEPT !.of = k], "reply", err, "finished")
    /\ UNCHANGED <<client, input, completion, registered, req, ssending, wires>>

\* send does not look at shutdown again.
sendUnchecked(k) ==
    /\ pc[k] = "send" /\ crashed = "no"
    /\ seq' = [seq EXCEPT ![k] = nextseq]
    /\ nextseq' = nextseq + 1
    /\ pending' = pending \cup {k}
    /\ Goto(k, "encode")
    /\ UNCHANGED <<kind, shutdown, closing, sending, crashed, input, completion, server, wires>>

(***************************************************************************)
(* Client: the goroutines that call Go, Call and Close                     *)
(***************************************************************************)
\* A panic ends the program, and with it its end of the connection.
Crash(how) == crashed' = how /\ Hangup("client")

\* Go, up to send; Call is Go and the receive from Done.  shutdown is read
\* without the mutex.
Go(k, kd) ==
    /\ pc[k] = "idle" /\ crashed = "no"
    /\ kind' = [kind EXCEPT ![k] = kd]
    /\ IF shutdown # "nil"
       THEN Goto(k, "returned") /\ Complete({k}, shutdown)
       ELSE Goto(k, "send") /\ UNCHANGED <<error, done>>
    /\ UNCHANGED <<seq, nextseq, pending, shutdown, closing, sending, crashed, input, reply, server, wires>>

\* send: the call is registered under the mutex, unless the client is shut down.
send(k) ==
    /\ pc[k] = "send" /\ crashed = "no"
    /\ IF shutdown # "nil"
       THEN Goto(k, "returned") /\ Complete({k}, shutdown) /\ UNCHANGED <<seq, nextseq, pending>>
       ELSE /\ seq' = [seq EXCEPT ![k] = nextseq]
            /\ nextseq' = nextseq + 1
            /\ pending' = pending \cup {k}
            /\ Goto(k, "encode")
            /\ UNCHANGED <<error, done>>
    /\ UNCHANGED <<kind, shutdown, closing, sending, crashed, input, reply, server, wires>>

\* WriteRequest, under sending: the header, then the arguments.
WriteRequest(k) ==
    LET header == pc[k] = "encode"
        args == IF kind[k] = "badargs" THEN "other" ELSE "args"
    IN
    /\ pc[k] \in {"encode", "body"} /\ sending = IF header THEN "free" ELSE k
    /\ crashed = "no"
    /\ \/ /\ Encoded("client", c2s, Value(IF header THEN "Request" ELSE args, seq[k], k, "nil"))
          /\ Goto(k, IF header THEN "body" ELSE "returned")
          /\ sending' = IF header THEN k ELSE "free"
          /\ UNCHANGED <<s2c, gone, crashed>>
       \/ EncodeFails /\ Crash("encode error") /\ UNCHANGED <<pc, sending>>
    /\ UNCHANGED <<kind, seq, nextseq, pending, shutdown, closing, input, completion, server>>

\* Close: shutdown and closing are tested without the mutex.
Close(x) ==
    /\ pc[x] = "idle" /\ crashed = "no"
    /\ Goto(x, IF shutdown # "nil" \/ closing THEN "returned" ELSE "close")
    /\ UNCHANGED <<kind, seq, nextseq, pending, shutdown, closing, sending, crashed>>
    /\ UNCHANGED <<input, completion, server, wires>>

CloseSet(x) ==
    /\ pc[x] = "close" /\ crashed = "no"
    /\ closing' = TRUE
    /\ Goto(x, "codec")
    /\ UNCHANGED <<kind, seq, nextseq, pending, shutdown, sending, crashed>>
    /\ UNCHANGED <<input, completion, server, wires>>

CloseCodec(x) ==
    /\ pc[x] = "codec" /\ crashed = "no"
    /\ Hangup("client")
    /\ Goto(x, "returned")
    /\ UNCHANGED <<kind, seq, nextseq, pending, shutdown, closing, sending, crashed>>
    /\ UNCHANGED <<input, completion, server>>

(***************************************************************************)
(* Client.input                                                            *)
(***************************************************************************)
\* ReadResponseHeader; the loop ends with an error.
ReadResponseHeader ==
    /\ inpc = "header" /\ crashed = "no"
    /\ \E err \in ReadErrors :
          /\ Decode("client", s2c, {"Response"}, err)
          /\ inerr' = IF err = "EOF" /\ ~closing THEN "unexpected EOF" ELSE err
          /\ resp' = IF err = "nil" THEN Head(s2c) ELSE NoReq
          /\ inpc' = IF err = "nil" THEN "take" ELSE "end"
    /\ UNCHANGED <<client, c, completion, server, c2s, gone>>

\* c := client.pending[seq], deleted under the mutex; c.Reply is evaluated.
TakePending ==
    LET found == {k \in pending : seq[k] = resp.seq} IN
    /\ inpc = "take" /\ crashed = "no"
    /\ IF found = {}
       THEN Crash("nil call") /\ UNCHANGED <<inpc, c, pending>>
       ELSE /\ c' \in found /\ pending' = pending \ found
            /\ inpc' = "body"
            /\ UNCHANGED <<crashed, c2s, s2c, gone>>
    /\ UNCHANGED <<pc, kind, seq, nextseq, shutdown, closing, sending, resp, inerr, completion, server>>

\* ReadResponseBody(c.Reply); c.Error is the error of the response, whether or
\* not the body could be read.
ReadResponseBody ==
    /\ inpc = "body" /\ crashed = "no"
    /\ \E err \in ReadErrors :
          /\ Decode("client", s2c, IF EmptyReply THEN {"reply", "invalid"} ELSE {"reply"}, err)
          /\ inerr' = err
          /\ reply' = [reply EXCEPT ![c] = IF err = "nil" THEN Head(s2c).of ELSE @]
          /\ inpc' = IF err = "nil" THEN "header" ELSE "end"
    /\ Complete({c}, resp.err)
    /\ c' = NoCall
    /\ UNCHANGED <<client, resp, server, c2s, gone>>

\* Terminate pending calls.
Terminate ==
    /\ inpc = "end" /\ crashed = "no"
    /\ shutdown' = inerr
    /\ Complete(pending, inerr)
    /\ inpc' = "exited"
    /\ UNCHANGED <<pc, kind, seq, nextseq, pending, closing, sending, crashed>>
    /\ UNCHANGED <<resp, c, inerr, reply, server, wires>>

(***************************************************************************)
(* The server                                                              *)
(***************************************************************************)
\* ReadRequestHeader: EOF ends the loop, another error is answered first, with
\* the sequence number of an empty request.
ReadRequestHeader ==
    /\ spc["input"] = "header"
    /\ \E err \in ReadErrors :
          /\ Decode("server", c2s, {"Request"}, err)
          /\ \/ /\ err = "nil" /\ req' = [req EXCEPT !["input"] = Head(c2s)]
                /\ SGoto("input", "lookup") /\ UNCHANGED out
             \/ err = "EOF" /\ SGoto("input", "close") /\ UNCHANGED <<req, out>>
             \/ /\ err \notin {"nil", "EOF"}
                /\ Respond("input", NoReq, "invalid", "cannot decode", "close") /\ UNCHANGED req
    /\ UNCHANGED <<client, input, completion, registered, ssending, ran, s2c, gone>>

\* The service and the method are looked up; a request that names none is
\* answered, and its arguments are left on the wire.
Lookup ==
    LET r == req["input"] IN
    /\ spc["input"] = "lookup"
    /\ IF registered /\ kind[r.of] # "unknown"
       THEN SGoto("input", "body") /\ UNCHANGED out
       ELSE Respond("input", r, "invalid", "not found", "header")
    /\ UNCHANGED <<client, input, completion, registered, req, ssending, ran, wires>>

\* ReadRequestBody; go service.call(...).
ReadRequestBody ==
    LET r == req["input"] IN
    /\ spc["input"] = "body"
    /\ \E err \in ReadErrors :
          /\ Decode("server", c2s, {"args"}, err)
          /\ IF err = "nil"
             THEN /\ spc' = [spc EXCEPT !["input"] = "header", ![r.of] = "call"]
                  /\ req' = [req EXCEPT ![r.of] = r]
                  /\ UNCHANGED out
             ELSE Respond("input", r, "reply", err, "close") /\ UNCHANGED req
    /\ UNCHANGED <<client, input, completion, registered, ssending, ran, s2c, gone>>

SClose ==
    /\ spc["input"] = "close"
    /\ Hangup("server")
    /\ SGoto("input", "closed")
    /\ UNCHANGED <<client, input, completion, registered, req, out, ssending, ran>>

\* service.call: the method returns an error or not.
call(k) ==
    /\ spc[k] = "call"
    /\ ran' = [ran EXCEPT ![k] = @ + 1]
    /\ \E err \in {"nil", "failed"} : Respond(k, req[k], "reply", err, "finished")
    /\ UNCHANGED <<client, input, completion, registered, req, ssending, wires>>

\* sendResponse, under sending: the header, then the body; errors are logged.
sendResponse(s) ==
    LET r == out[s]
        header == spc[s] = "send"
    IN
    /\ spc[s] \in {"send", "sendbody"} /\ ssending = IF header THEN "free" ELSE s
    /\ \/ /\ Encoded("server", s2c, Value(IF header THEN "Response" ELSE r.body, r.seq, r.of, r.err))
          /\ SGoto(s, IF header THEN "sendbody" ELSE r.next)
          /\ ssending' = IF header THEN s ELSE "free"
       \/ /\ EncodeFails
          /\ SGoto(s, r.next)
          /\ ssending' = "free"
          /\ UNCHANGED s2c
    /\ UNCHANGED <<client, input, completion, registered, req, out, ran, c2s, gone>>

\* register, of a service with the method that the calls name.
register ==
    /\ ~registered /\ registered' = TRUE
    /\ UNCHANGED <<client, input, completion, spc, req, out, ssending, ran, wires>>

-----------------------------------------------------------------------------
CallSteps(k) == send(k) \/ WriteRequest(k)
CloseSteps(x) == CloseSet(x) \/ CloseCodec(x)
Input == ReadResponseHeader \/ TakePending \/ ReadResponseBody \/ Terminate
ServerInput == ReadRequestHeader \/ Lookup \/ ReadRequestBody \/ SClose

Next ==
    \/ \E k \in Calls : CallSteps(k) \/ call(k) \/ \E kd \in {"good", "unknown", "badargs"} : Go(k, kd)
    \/ \E x \in Closers : Close(x) \/ CloseSteps(x)
    \/ Input \/ ServerInput
    \/ \E s \in Senders : sendResponse(s)
    \/ register \/ Reset

Spec == Init /\ [][Next]_vars

\* Goroutines run, methods return, the connection delivers or fails.  A mutex
\* may pass over a waiter, but not for ever: there are finitely many calls.
FairSpec ==
    /\ Spec
    /\ WF_vars(Input) /\ WF_vars(ServerInput)
    /\ \A k \in Calls : WF_vars(CallSteps(k)) /\ WF_vars(call(k))
    /\ \A s \in Senders : WF_vars(sendResponse(s))

-----------------------------------------------------------------------------
\* A Call is sent on its Done at most once, whether by its response, by the end
\* of input or by send itself; and no response names a call that is not pending
\* (input would then follow a nil *Call), though the server also answers what
\* it cannot decode.
CompletedOnce == (\A k \in Calls : done[k] <= 1) /\ crashed # "nil call"

\* However calls and responses interleave, the Reply of a call is filled from
\* its own response, after its method was run, once.
OwnReply ==
    \A k \in Calls :
        /\ ran[k] <= 1
        /\ reply[k] # NoCall => reply[k] = k
        /\ done[k] = 1 /\ error[k] \in {"nil", "failed"} => ran[k] = 1

\* "Done: Strobes when call is complete": every call made is completed, unless
\* the client crashes because it could not write a request.
CallsComplete == \A k \in Calls : pc[k] # "idle" ~> (done[k] = 1 \/ crashed # "no")

=============================================================================
