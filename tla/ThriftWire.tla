----------------------------- MODULE ThriftWire -----------------------------
(***************************************************************************)
(* The structures of the BFSS_APID service as the generated Go code writes *)
(* them to a protocol and reads them from one (bfss_web/BFSS_API/          *)
(* bfss_api.go).  The Read and Write functions of the generated structures *)
(* differ only in the fields they name, so each structure is given by its  *)
(* table of fields, and one WriteStruct and one ReadStruct stand for all   *)
(* of them.                                                                *)
(*                                                                         *)
(* A scalar is Zero, the zero value of its Go type, or Some other value.   *)
(* What may be nil in Go (a slice, a pointer) is Nil when it is nil; an    *)
(* empty slice is not told apart from it.                                  *)
(***************************************************************************)
EXTENDS Integers, Sequences, TLC

Nil  == <<>>
Zero == <<0>>
Some == <<1>>

(***************************************************************************)
(* One field of a structure: what it is in Go, whether a message without   *)
(* it is refused (required), always written (required, default) or only    *)
(* when it is not nil (optional), and the structure it holds.              *)
(***************************************************************************)
Field(type, need, of) == [type |-> type, need |-> need, of |-> of]
Required(type)   == Field(type, "required", Nil)
Default(type)    == Field(type, "default", Nil)
Optional(type)   == Field(type, "optional", Nil)
RequiredOf(s)    == Field("STRUCT", "required", s)
RequiredList(s)  == Field("LIST", "required", s)
OptionalOf(s)    == Field("STRUCT", "optional", s)

\* The structures of the interface.
OBJECT_INFO == <<Required("I32"), Required("I64"), Required("I32"),
                 Required("STRING"), Required("BOOL"), Required("STRING")>>
OBJECT_INFO_RESULT == <<Required("I32"), OptionalOf("OBJECT_INFO")>>
READ_RESULT        == <<Required("I32"), Optional("BINARY")>>
BLK_KEY_RESULT     == <<Required("I32"), Required("BINARY")>>
OBJECT_BLK_INFO    == <<Required("I32"), Required("I32"), Required("I32"),
                        Required("I32"), Required("BINARY")>>
OBJECT_BLKS_INFO   == <<RequiredOf("OBJECT_INFO"), RequiredList("OBJECT_BLK_INFO")>>
OBJECT_BLKS_RESULT == <<Required("I32"), OptionalOf("OBJECT_BLKS_INFO")>>
BFSS_MESSAGE       == <<Optional("I32"), Optional("I32"), Optional("BINARY")>>
MESSAGE_RESULT     == <<Required("I32"), OptionalOf("BFSS_MESSAGE")>>

\* The arguments of the methods.
GetVersionArgs        == <<>>
CreateObjectArgs      == <<Default("STRING"), Default("I32"), Default("I32"), Default("STRING")>>
DeleteObjectArgs      == <<Default("STRING")>>
WriteArgs             == <<Default("STRING"), Default("I32"), Default("BINARY")>>
ResizeObjectArgs      == <<Default("STRING"), Default("I32")>>
CompleteObjectArgs    == <<Default("STRING")>>
GetObjectInfoArgs     == <<Default("STRING")>>
ObjectLockHasHashArgs == <<Default("STRING"), Default("I32"), Default("BINARY")>>
CreateObjectLinkArgs  == <<Default("STRING"), Default("STRING"), Default("I32"),
                           Default("BINARY"), Default("I32"), Default("STRING")>>
ReadArgs              == <<Default("STRING"), Default("I32"), Default("I32")>>
ReadBlkArgs           == <<Default("STRING"), Default("I32"), Default("I32")>>
GetObjectBlksInfoArgs == <<Default("STRING")>>
GetObjectBlkKeyArgs   == <<Default("STRING"), Default("I32")>>
ManageMessageArgs     == <<Default("I32"), Default("I32"), Default("BINARY")>>

\* The results of the methods: one optional field, number 0.
GetVersionResult        == 0 :> Optional("STRING")
CreateObjectResult      == 0 :> Optional("I32")
DeleteObjectResult      == 0 :> Optional("I32")
WriteResult             == 0 :> Optional("I32")
ResizeObjectResult      == 0 :> Optional("I32")
CompleteObjectResult    == 0 :> Optional("I32")
GetObjectInfoResult     == 0 :> OptionalOf("OBJECT_INFO_RESULT")
ObjectLockHasHashResult == 0 :> Optional("I32")
CreateObjectLinkResult  == 0 :> Optional("I32")
ReadResult              == 0 :> OptionalOf("READ_RESULT")
ReadBlkResult           == 0 :> OptionalOf("READ_RESULT")
GetObjectBlksInfoResult == 0 :> OptionalOf("OBJECT_BLKS_RESULT")
GetObjectBlkKeyResult   == 0 :> OptionalOf("BLK_KEY_RESULT")
ManageMessageResult     == 0 :> OptionalOf("MESSAGE_RESULT")

Structs == [OBJECT_INFO |-> OBJECT_INFO, OBJECT_INFO_RESULT |-> OBJECT_INFO_RESULT,
            READ_RESULT |-> READ_RESULT, BLK_KEY_RESULT |-> BLK_KEY_RESULT,
            OBJECT_BLK_INFO |-> OBJECT_BLK_INFO, OBJECT_BLKS_INFO |-> OBJECT_BLKS_INFO,
            OBJECT_BLKS_RESULT |-> OBJECT_BLKS_RESULT, BFSS_MESSAGE |-> BFSS_MESSAGE,
            MESSAGE_RESULT |-> MESSAGE_RESULT]

Args == [GetVersion |-> GetVersionArgs, CreateObject |-> CreateObjectArgs,
         DeleteObject |-> DeleteObjectArgs, Write |-> WriteArgs,
         ResizeObject |-> ResizeObjectArgs, CompleteObject |-> CompleteObjectArgs,
         GetObjectInfo |-> GetObjectInfoArgs, ObjectLockHasHash |-> ObjectLockHasHashArgs,
         CreateObjectLink |-> CreateObjectLinkArgs, Read |-> ReadArgs,
         ReadBlk |-> ReadBlkArgs, GetObjectBlksInfo |-> GetObjectBlksInfoArgs,
         GetObjectBlkKey |-> GetObjectBlkKeyArgs, ManageMessage |-> ManageMessageArgs]

Results == [GetVersion |-> GetVersionResult, CreateObject |-> CreateObjectResult,
            DeleteObject |-> DeleteObjectResult, Write |-> WriteResult,
            ResizeObject |-> ResizeObjectResult, CompleteObject |-> CompleteObjectResult,
            GetObjectInfo |-> GetObjectInfoResult, ObjectLockHasHash |-> ObjectLockHasHashResult,
            CreateObjectLink |-> CreateObjectLinkResult, Read |-> ReadResult,
            ReadBlk |-> ReadBlkResult, GetObjectBlksInfo |-> GetObjectBlksInfoResult,
            GetObjectBlkKey |-> GetObjectBlkKeyResult, ManageMessage |-> ManageMessageResult]
-----------------------------------------------------------------------------
(***************************************************************************)
(* Write: a structure on the wire maps the numbers of its fields to their  *)
(* types and values; the order of fields does not matter to a reader.  A   *)
(* nil structure is written as one without fields.                         *)
(***************************************************************************)
\* The thrift type that announces a field.
WireType(f) == IF f.type = "BINARY" THEN "STRING" ELSE f.type

RECURSIVE WriteStruct(_, _)
WriteField(f, v) ==
    CASE f.type = "STRUCT" -> WriteStruct(Structs[f.of], v)
      [] f.type = "LIST"   -> [i \in DOMAIN v |-> WriteStruct(Structs[f.of], v[i])]
      [] OTHER             -> v

WriteStruct(s, v) ==
    IF v = Nil THEN <<>>
    ELSE [i \in {j \in DOMAIN s : s[j].need # "optional" \/ v[j] # Nil} |->
             [type |-> WireType(s[i]), val |-> WriteField(s[i], v[i])]]

(***************************************************************************)
(* Read: a field whose number or type is unknown is skipped, and the       *)
(* structure is refused when a required field was not among them.  The     *)
(* error of an inner structure is returned at once, which leaves the rest  *)
(* of the outer one unread (left).                                         *)
(***************************************************************************)
\* What a field of a new structure holds.
Initial(f) == IF f.need = "optional" \/ f.type \in {"BINARY", "STRUCT", "LIST"} THEN Nil ELSE Zero

RECURSIVE ReadStruct(_, _)
ReadField(f, x) ==
    CASE f.type = "STRUCT" -> ReadStruct(Structs[f.of], x)
      [] f.type = "LIST"   ->
            LET elems == [i \in DOMAIN x |-> ReadStruct(Structs[f.of], x[i])]
            IN  [ok   |-> \A i \in DOMAIN x : elems[i].ok,
                 val  |-> [i \in DOMAIN x |-> elems[i].val],
                 left |-> FALSE]
      [] OTHER             -> [ok |-> TRUE, val |-> x, left |-> FALSE]

\* Wrong on purpose: required fields are not asked for.
ReadStruct_Lax(s, wire) ==
    LET known   == {i \in DOMAIN s \cap DOMAIN wire : wire[i].type = WireType(s[i])}
        read(i) == ReadField(s[i], wire[i].val)
    IN  [ok   |-> \A i \in known : read(i).ok,
         val  |-> [i \in DOMAIN s |-> IF i \in known THEN read(i).val ELSE Initial(s[i])],
         left |-> FALSE]

ReadStruct(s, wire) ==
    LET known    == {i \in DOMAIN s \cap DOMAIN wire : wire[i].type = WireType(s[i])}
        read(i)  == ReadField(s[i], wire[i].val)
        required == {i \in DOMAIN s : s[i].need = "required"}
        inner    == \A i \in known : read(i).ok
    IN  [ok   |-> inner /\ required \subseteq known,
         val  |-> [i \in DOMAIN s |-> IF i \in known THEN read(i).val ELSE Initial(s[i])],
         left |-> ~inner]

(***************************************************************************)
(* GetSuccess: what a client method returns from a result that was read.   *)
(* A result without the field is answered by the zero value, which is      *)
(* BFSS_SUCCESS for the methods that return a BFSS_RESULT, or by nil.      *)
(***************************************************************************)
GetSuccess(s, v) ==
    IF v[0] = Nil /\ s[0].type # "STRUCT" THEN Zero ELSE v[0]
=============================================================================
