--------------------------- MODULE SNCacheRefines ---------------------------
(***************************************************************************)
(* The cache implements BlockStore: clients see Content, and what is left  *)
(* when the process ends is what a restart would read from the device.     *)
(***************************************************************************)
EXTENDS SNCache

Plain(x) == [c \in Cells |-> x[c].val]

Stored == [b \in Blocks |-> Plain(Content(b))]
OnDisk == [b \in Blocks |-> Plain(OnDevice(b))]
Up == visit \in 0 .. (Len(lru) + 1)

Store == INSTANCE BlockStore WITH store <- Stored, disk <- OnDisk, running <- Up

(***************************************************************************)
(* Taking nodes away from blocks, sealing, loading, flushing, failing      *)
(* device writes and accesses cut short by an exception never change what  *)
(* clients see in any block.                                               *)
(***************************************************************************)
ImplementsBlockStore == Store!Spec
=============================================================================
