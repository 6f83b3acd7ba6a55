--------------------------- MODULE ThriftVersions ---------------------------
(***************************************************************************)
(* What becomes of the arguments and results of the BFSS_APID methods      *)
(* between two programs built from different versions of the interface     *)
(* (bfss_api.thrift), for values of every shape.                           *)
(***************************************************************************)
EXTENDS ThriftWire

Methods == DOMAIN Args
Peers   == {"same", "newer", "older", "throws"}

\* An older peer does not know the last method of the interface.
ServedBy(p) == IF p = "older" THEN Methods \ {"ManageMessage"} ELSE Methods

\* A value of a structure: everything set, or as little as can be.
RECURSIVE Filled(_, _)
Filled(s, full) ==
    [i \in DOMAIN s |->
        CASE s[i].need = "optional" /\ ~full -> Nil
          [] s[i].type = "STRUCT"            -> Filled(Structs[s[i].of], full)
          [] s[i].type = "LIST"              -> IF full THEN <<Filled(Structs[s[i].of], full)>> ELSE <<>>
          [] OTHER                           -> IF full THEN Some ELSE Zero]

AllRequests == {[method |-> m, args |-> Filled(Args[m], TRUE)] : m \in Methods}
AnswersOf(m) == LET s == Results[m][0]
                IN  IF s.type = "STRUCT" THEN {Nil} \cup {Filled(Structs[s.of], b) : b \in BOOLEAN}
                                         ELSE {Some}

\* A structure as a newer version writes it, with one field more at every level.
RECURSIVE Newer(_)
Newer(wire) ==
    [i \in DOMAIN wire |-> IF wire[i].type = "STRUCT" THEN [wire[i] EXCEPT !.val = Newer(@)]
                                                      ELSE wire[i]]
    @@ 99 :> [type |-> "I32", val |-> Some]

\* A structure as an older version writes it: the first field of its innermost
\* structure is missing.
RECURSIVE Older(_)
Older(wire) ==
    LET inner == {i \in DOMAIN wire : wire[i].type = "STRUCT" /\ wire[i].val # <<>>}
    IN  IF inner = {} THEN [i \in DOMAIN wire \ {1} |-> wire[i]]
        ELSE [i \in DOMAIN wire |-> IF i \in inner THEN [wire[i] EXCEPT !.val = Older(@)]
                                                   ELSE wire[i]]

\* The result of a method that declares an exception, which it threw.
Thrown == 1 :> [type |-> "STRUCT", val |-> <<>>]

Changed(p, wire) == CASE p = "newer" -> Newer(wire)
                      [] p = "older" -> Older(wire)
                      [] OTHER       -> wire

\* Arguments and answers written by one end and read by the other.
ArgsThrough(r, p) == ReadStruct(Args[r.method], Changed(p, WriteStruct(Args[r.method], r.args)))
ResultThrough(m, v, p) ==
    LET wire == IF p = "throws" THEN Thrown ELSE Changed(p, WriteStruct(Results[m], 0 :> v))
        u    == ReadStruct(Results[m], wire)
    IN  [u EXCEPT !.val = GetSuccess(Results[m], @)]

\* The same as relations, which TLC computes once.
ArgsTable   == {<<r, p, ArgsThrough(r, p)>> : r \in AllRequests, p \in Peers}
ResultTable == UNION {{<<m, p, v, ResultThrough(m, v, p)>> : p \in Peers, v \in AnswersOf(m)} :
                         m \in Methods}
=============================================================================
