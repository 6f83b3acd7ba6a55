------------------------------ MODULE Gateway ------------------------------
(***************************************************************************)
(* The HTTP gateway bfss_web: its handler ReadBlk (service/api.go) calls   *)
(* ReadBlk of the API server with the one client that CreateApiClient      *)
(* (common/client.go) makes at the start and that all handlers share.      *)
(* net/http runs each handler in a goroutine of its own; call i of         *)
(* ThriftCall is the call of the i-th handler.                             *)
(***************************************************************************)
EXTENDS ThriftCall

CONSTANTS OIds,       \* objects
          Handlers    \* how many HTTP requests are made

VARIABLE resp         \* what each handler has written

gvars == <<vars, resp>>

\* The objects' data differ; a read may fail in the server, too, which is
\* told by the field Result of the READ_RESULT.
ReadBlkRequests == [method : {"ReadBlk"}, OId : OIds]
Method1(r) == r.method
Served1(p) == {"ReadBlk"}
SendOId(r, p) == r.OId
ReadOId(m, w) == [ok |-> TRUE, val |-> w, left |-> FALSE]
READ_RESULTs(m, oid) == {[Result |-> "SUCCESS", Data |-> oid], [Result |-> "FAILED", Data |-> "none"]}
SendResult(m, v, p) == v
ReadAnswer(m, w) == [ok |-> TRUE, val |-> w, left |-> FALSE]

\* Any number of handlers at once; CreateApiClient keeps a client that it
\* could not open.
GatewaySettings == [users : {Handlers}, open : BOOLEAN, peer : {"same"},
                    req : [1..Handlers -> ReadBlkRequests]]

GInit == Init /\ resp = [i \in Calls |-> "none"]

\* The body is no JSON object: the default answer, and no call.
BadRequest(i) ==
    /\ pc[i] = "idle" /\ \A j \in 1..(i-1) : pc[j] # "idle"
    /\ resp' = [resp EXCEPT ![i] = "default"]
    /\ Goto(i, "error")
    /\ UNCHANGED <<seqId, wbuf, toServer, toClient, unread, open, seq, val, handled, given>>

\* A failed call is logged and nothing written; Data of an answer is written
\* whatever its Result is.
Respond(i) ==
    /\ pc[i] \in {"ok", "error"} /\ resp[i] = "none"
    /\ resp' = [resp EXCEPT ![i] = IF pc[i] = "ok" THEN val[i][1].Data ELSE "empty"]
    /\ UNCHANGED vars

GNext == \/ Next /\ UNCHANGED resp
         \/ \E i \in Calls : BadRequest(i) \/ Respond(i)

GSpec == GInit /\ [][GNext]_gvars
-----------------------------------------------------------------------------
(***************************************************************************)
(* "oid 对象id": the answer to a request holds data of the object it names. *)
(***************************************************************************)
ResponseIsOfObject ==
    \A i \in Calls : resp[i] \in OIds => resp[i] = req[i].OId
=============================================================================
