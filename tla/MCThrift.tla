------------------------------ MODULE MCThrift ------------------------------
(***************************************************************************)
(* ThriftCall with the structures of ThriftWire: every method, answers of  *)
(* every shape, and peers of other versions of the interface.              *)
(***************************************************************************)
EXTENDS ThriftCall, ThriftVersions

\* One user calls a method three times, with every peer, or mixes two; two
\* users read blocks.
Sequences(n, ms) == [1..n -> {r \in AllRequests : r.method \in ms}]
MCSettings ==
         [users : {1}, open : {TRUE}, peer : Peers, req : UNION {Sequences(3, {m}) : m \in Methods}]
    \cup [users : {1}, open : {TRUE}, peer : {"same"}, req : Sequences(3, {"Write", "ReadBlk"})]
    \cup [users : {2}, open : {TRUE}, peer : {"same"}, req : Sequences(2, {"ReadBlk"})]

MethodIn(r) == r.method

MCAnswers(m, a) == AnswersOf(m)

\* Both conversions are done at the server's end.
MCEncodeArgs(r, p)      == <<r, p>>
MCDecodeArgs(m, w)      == (CHOOSE t \in ArgsTable : <<t[1], t[2]>> = w)[3]
MCEncodeResult(m, v, p) == (CHOOSE t \in ResultTable : <<t[1], t[2], t[3]>> = <<m, p, v>>)[4]
MCDecodeResult(m, w)    == w
-----------------------------------------------------------------------------
Sent(i)  == req[i].args

(***************************************************************************)
(* A handler gets the arguments that were passed, and the caller the value *)
(* the handler returned, when the other end has the same or a newer        *)
(* version of the structures.  An older client's missing argument is zero; *)
(* an answer without a required field, at any depth, is never returned.    *)
(***************************************************************************)
VersionsAgree ==
    \A k \in DOMAIN handled :
        LET i == handled[k].call
            v == handled[k].val
            m == req[i].method
        IN  users = 1 =>
            /\ peer # "older" => handled[k].args = Sent(i)
            /\ \A n \in DOMAIN Sent(i) : handled[k].args[n] \in {Sent(i)[n], Zero, Nil}
            /\ pc[i] = "ok" /\ peer \in {"same", "newer"} => val[i] = v
            /\ pc[i] = "ok" /\ peer = "older" => Results[m][0].type # "STRUCT" \/ v = <<Nil>>
=============================================================================
