----------------------------- MODULE ThriftCall -----------------------------
(***************************************************************************)
(* One connection of a BFSS_APID client: the generated client and          *)
(* processor of bfss_web/BFSS_API/bfss_api.go over the framed transport    *)
(* that common/client.go and rpc/bfss.go build, which never connect again. *)
(*                                                                         *)
(* A call is a process of its own, numbered in the order of the calls.     *)
(* One runs at a time when a client has one user, as in the load           *)
(* generator; several do when the goroutines of several HTTP requests use  *)
(* the one client of the gateway.  The library has no lock, so the steps   *)
(* of two calls may be taken in any order.                                 *)
(*                                                                         *)
(* How structures are written and read is left to constants; MCThrift      *)
(* takes it from ThriftWire.                                               *)
(***************************************************************************)
EXTENDS Integers, Sequences, FiniteSets

CONSTANTS MaxCalls,          \* bound on the calls of a client
          Timeouts,          \* whether the socket has a timeout
          Requests,          \* what a client may ask
          Settings,          \* users of a client, whether it was opened,
                             \* version of its peer, its calls
          Served(_),         \* methods a peer knows
          MethodOf(_),       \* method of a request
          EncodeArgs(_, _),   \* arguments of a request, as exchanged with a peer
          DecodeArgs(_, _),    \* a method's arguments read: [ok, val, left]
          Answers(_, _),     \* what a handler may return for its arguments
          EncodeResult(_, _, _), \* a method's answer, as exchanged with a peer
          DecodeResult(_, _)   \* a method's result read: [ok, val, left]

ASSUME CallAssumption ==
    /\ MaxCalls \in Nat /\ Timeouts \in BOOLEAN
    /\ \A s \in Settings : /\ s.users \in Nat \ {0} /\ s.open \in BOOLEAN
                           /\ s.req \in Seq(Requests) /\ Len(s.req) <= MaxCalls

VARIABLES seqId,     \* TStandardClient's counter, shared by all calls
          wbuf,      \* the frame being written
          toServer,  \* frames under way to the server
          toClient,  \* replies under way to the client
          unread,    \* <<m>> when the body of the reply m was not read yet
          open,      \* the connection is up
          pc,        \* where each call is
          seq,       \* its copy of the counter
          val,       \* <<v>> when it returned v
          handled,   \* history: what the handler was asked, in order
          users,     \* how many goroutines share the client
          peer,      \* version of the interface at the other end
          req        \* what the calls ask, in the order of the calls

given == <<users, peer, req>>
vars == <<seqId, wbuf, toServer, toClient, unread, open, pc, seq, val, handled, given>>

Calls == 1..Len(req)
Method(i) == MethodOf(req[i])

\* What a message consists of.
Header(i) == [kind |-> "header", method |-> Method(i), seq |-> seqId, call |-> i]
Body(i)   == [kind |-> "args", wire |-> EncodeArgs(req[i], peer), call |-> i]
Message(kind, f, wire) ==
    [kind |-> kind, method |-> f[1].method, seq |-> f[1].seq, wire |-> wire, call |-> f[1].call]

Active(i) == pc[i] \notin {"idle", "ok", "error"}

Init == /\ \E s \in Settings : /\ users = s.users /\ open = s.open
                             /\ peer = s.peer /\ req = s.req
        /\ seqId = 0 /\ wbuf = <<>> /\ toServer = <<>> /\ toClient = <<>>
        /\ unread = <<>> /\ handled = <<>>
        /\ pc = [i \in Calls |-> "idle"] /\ seq = [i \in Calls |-> 0]
        /\ val = [i \in Calls |-> <<>>]
-----------------------------------------------------------------------------
(***************************************************************************)
(* The client: Call increments the counter, Send writes the message and    *)
(* flushes the frame, Recv reads the reply.                                *)
(***************************************************************************)
Goto(i, l) == pc' = [pc EXCEPT ![i] = l]
Fail(i)     == Goto(i, "error")

\* A method of the client is called; the counter is read to be incremented.
Invoke(i) ==
    /\ pc[i] = "idle" /\ \A j \in 1..(i-1) : pc[j] # "idle"
    /\ Cardinality({j \in Calls : Active(j)}) < users
    /\ seq' = [seq EXCEPT ![i] = seqId]
    /\ Goto(i, "store")
    /\ UNCHANGED <<seqId, wbuf, toServer, toClient, unread, open, val, handled, given>>

\* p.seqId++ ends.
StoreSeq(i) ==
    /\ pc[i] = "store"
    /\ seqId' = seq[i] + 1
    /\ Goto(i, "header")
    /\ UNCHANGED <<wbuf, toServer, toClient, unread, open, seq, val, handled, given>>

\* seqId := p.seqId, and WriteMessageBegin into the buffer of the frame.
WriteHeader(i) ==
    /\ pc[i] = "header"
    /\ wbuf' = Append(wbuf, Header(i))
    /\ seq' = [seq EXCEPT ![i] = seqId]
    /\ Goto(i, "args")
    /\ UNCHANGED <<seqId, toServer, toClient, unread, open, val, handled, given>>

\* args.Write.
WriteBody(i) ==
    /\ pc[i] = "args"
    /\ wbuf' = Append(wbuf, Body(i))
    /\ Goto(i, "flush")
    /\ UNCHANGED <<seqId, toServer, toClient, unread, open, seq, val, handled, given>>

\* Flush sends whatever the buffer holds, or fails and drops it.
Flush(i) ==
    /\ pc[i] = "flush"
    /\ wbuf' = <<>>
    /\ IF open THEN toServer' = Append(toServer, wbuf) /\ Goto(i, "recv")
               ELSE Fail(i) /\ UNCHANGED toServer
    /\ UNCHANGED <<seqId, toClient, unread, open, seq, val, handled, given>>

\* Wrong on purpose: any answer to this method will do.
IsReplyTo_AnySeq(m, i) == m.method = Method(i)

\* The header of a reply is accepted when it names this call.
IsReplyTo(m, i) == m.method = Method(i) /\ m.seq = seq[i]

\* Recv: ReadMessageBegin.
ReadHeader(i) ==
    /\ pc[i] = "recv" /\ unread = <<>> /\ toClient # <<>>
    /\ unread' = <<Head(toClient)>> /\ toClient' = Tail(toClient)
    /\ IF IsReplyTo(Head(toClient), i) THEN Goto(i, "body") ELSE Fail(i)
    /\ UNCHANGED <<seqId, wbuf, toServer, open, seq, val, handled, given>>

\* ReadMessageBegin where the rest of an earlier reply is: its first bytes
\* are no length a frame can have, and the rest of the frame is dropped.
ReadGarbage(i) ==
    /\ pc[i] = "recv" /\ unread # <<>>
    /\ unread' = <<>>
    /\ Fail(i)
    /\ UNCHANGED <<seqId, wbuf, toServer, toClient, open, seq, val, handled, given>>

\* What the client makes of the body of a reply.
Understood(i, m) == DecodeResult(Method(i), m.wire)

\* Recv: an exception is an error of the call, a result is read and its
\* success field returned.
ReadBody(i) ==
    /\ pc[i] = "body" /\ unread # <<>>
    /\ LET m == unread[1]
           u == Understood(i, m)
       IN  \/ /\ m.kind # "reply"
              /\ unread' = <<>> /\ Fail(i) /\ UNCHANGED val
           \/ /\ m.kind = "reply" /\ ~u.ok
              /\ unread' = IF u.left THEN unread ELSE <<>>
              /\ Fail(i) /\ UNCHANGED val
           \/ /\ m.kind = "reply" /\ u.ok
              /\ unread' = <<>>
              /\ val' = [val EXCEPT ![i] = <<u.val>>]
              /\ Goto(i, "ok")
    /\ UNCHANGED <<seqId, wbuf, toServer, toClient, open, seq, handled, given>>

\* Somebody else read the body of this reply: the next frame is taken for it.
ReadWrongBody(i) ==
    /\ pc[i] = "body" /\ unread = <<>> /\ toClient # <<>>
    /\ toClient' = Tail(toClient)
    /\ Fail(i)
    /\ UNCHANGED <<seqId, wbuf, toServer, unread, open, seq, val, handled, given>>

NothingToRead == unread = <<>> /\ toClient = <<>>

\* The connection is down.
ReadFails(i) ==
    /\ pc[i] \in {"recv", "body"} /\ NothingToRead /\ ~open
    /\ Fail(i)
    /\ UNCHANGED <<seqId, wbuf, toServer, toClient, unread, open, seq, val, handled, given>>

\* Wrong on purpose: SetTimeout is missing.
Timeout_Never(i) == FALSE /\ UNCHANGED vars

\* The socket's timeout ends the call and leaves the connection as it is.
Timeout(i) ==
    /\ Timeouts
    /\ pc[i] \in {"recv", "body"} /\ NothingToRead /\ open
    /\ Fail(i)
    /\ UNCHANGED <<seqId, wbuf, toServer, toClient, unread, open, seq, val, handled, given>>
-----------------------------------------------------------------------------
(***************************************************************************)
(* The server handles the requests of a connection one after the other.    *)
(***************************************************************************)
Pending == toServer # <<>>
Request == Head(toServer)
Headed(f)   == Len(f) >= 1 /\ f[1].kind = "header"
Readable(f) == Headed(f) /\ Len(f) >= 2 /\ f[2].kind = "args"

Send(m) == toClient' = Append(toClient, m) /\ toServer' = Tail(toServer)

\* The method called a handler, which got the arguments a and returned <<v>>
\* or failed.
Handle(f, a, v) == handled' = Append(handled, [call |-> f[2].call, args |-> a, val |-> v])

\* ReadMessageBegin fails.
Garbled ==
    /\ Pending /\ ~Headed(Request)
    /\ toServer' = Tail(toServer)
    /\ UNCHANGED <<seqId, wbuf, toClient, unread, open, pc, seq, val, handled, given>>

\* Process: the peer does not know the method.
UnknownMethod ==
    /\ Pending /\ Headed(Request) /\ Request[1].method \notin Served(peer)
    /\ Send(Message("UNKNOWN_METHOD", Request, <<>>))
    /\ UNCHANGED <<seqId, wbuf, unread, open, pc, seq, val, handled, given>>

\* Process of the method: its arguments are no structure at all (another
\* call's header follows), or are refused.
ProtocolError ==
    /\ Pending /\ Headed(Request) /\ Request[1].method \in Served(peer)
    /\ Readable(Request) => ~DecodeArgs(Request[1].method, Request[2].wire).ok
    /\ Send(Message("PROTOCOL_ERROR", Request, <<>>))
    /\ UNCHANGED <<seqId, wbuf, unread, open, pc, seq, val, handled, given>>

\* Process of the method: the handler answers or fails.
Process ==
    /\ Pending /\ Readable(Request) /\ Request[1].method \in Served(peer)
    /\ LET f == Request
           a == DecodeArgs(f[1].method, f[2].wire)
       IN  /\ a.ok
           /\ \/ \E v \in Answers(f[1].method, a.val) :
                    /\ Handle(f, a.val, <<v>>)
                    /\ Send(Message("reply", f, EncodeResult(f[1].method, v, peer)))
              \/ /\ Handle(f, a.val, <<>>)
                 /\ Send(Message("INTERNAL_ERROR", f, <<>>))
    /\ UNCHANGED <<seqId, wbuf, unread, open, pc, seq, val, given>>

\* The connection goes down; what is under way may or may not arrive.
Disconnect ==
    /\ open /\ open' = FALSE
    /\ toServer' = <<>>
    /\ toClient' \in {toClient, <<>>}
    /\ UNCHANGED <<seqId, wbuf, unread, pc, seq, val, handled, given>>

Client(i) == \/ StoreSeq(i) \/ WriteHeader(i) \/ WriteBody(i) \/ Flush(i)
             \/ ReadHeader(i) \/ ReadGarbage(i) \/ ReadBody(i) \/ ReadWrongBody(i)
             \/ ReadFails(i) \/ Timeout(i)
Server == Garbled \/ UnknownMethod \/ ProtocolError \/ Process

\* All calls were made and have returned.
Finished == /\ \A i \in Calls : pc[i] \in {"ok", "error"}
            /\ UNCHANGED vars

Next == \/ \E i \in Calls : Invoke(i) \/ Client(i)
        \/ Server \/ Disconnect \/ Finished

Spec == Init /\ [][Next]_vars
Fairness == WF_vars(\E i \in Calls : Client(i))
FairSpec == Spec /\ Fairness
-----------------------------------------------------------------------------
\* Types; a frame holds no more than the messages of those who share it.
Locations == {"idle", "store", "header", "args", "flush", "recv", "body", "ok", "error"}
TypeOK == /\ seqId \in Nat /\ open \in BOOLEAN
          /\ pc \in [Calls -> Locations] /\ seq \in [Calls -> Nat]
          /\ Len(wbuf) <= 2 * users /\ Len(unread) <= 1

\* A call whose reader has lost its place in the stream of replies: replies
\* to earlier calls are still to come, or half of one was left.
OutOfStep == \/ \E i \in Calls : /\ pc[i] = "error"
                                 /\ \/ \E k \in DOMAIN toServer : toServer[k][2].call = i
                                    \/ \E k \in DOMAIN toClient : toClient[k].call = i
             \/ unread # <<>> /\ \A i \in Calls : pc[i] # "body"

(***************************************************************************)
(* A call that returns without an error returns what the handler answered  *)
(* to this very call, whatever was lost, late or left half read before,    *)
(* on a client with one user.                                              *)
(***************************************************************************)
ReturnsOwn(i) ==
    pc[i] = "ok" =>
        \E k \in DOMAIN handled :
            LET m == Method(i)
            IN  /\ handled[k].call = i /\ handled[k].val # <<>>
                /\ val[i] = <<DecodeResult(m, EncodeResult(m, handled[k].val[1], peer)).val>>
AnswerIsOwn == users = 1 => \A i \in Calls : ReturnsOwn(i)

(***************************************************************************)
(* A client that is out of step with its server stays so: after a timeout  *)
(* whose reply is still due, or a reply left half read, no later call of   *)
(* its one user succeeds.                                                  *)
(***************************************************************************)
OutOfStepForEver ==
    [][users = 1 /\ OutOfStep => \A i \in Calls : pc'[i] = "ok" => pc[i] = "ok"]_vars

(***************************************************************************)
(* With a timeout on the socket every call returns.                        *)
(***************************************************************************)
EveryCallReturns == (\E i \in Calls : Active(i)) ~> (\A i \in Calls : ~Active(i))
=============================================================================
