----------------------------- MODULE BlockStore -----------------------------
(***************************************************************************)
(* What a storage node promises about its blocks, without cache nodes,     *)
(* keys and a bitmap.  Clients see `store`; `disk` is what will be left of *)
(* it when the process ends.  While the node runs a block changes only by  *)
(* a client's write; moving data to the disk, even when it fails half way, *)
(* is invisible.  When the node starts it serves what is on the disk.      *)
(***************************************************************************)
CONSTANTS Blocks, Cells, Values, Blank

VARIABLES store, disk, running

vars == <<store, disk, running>>

Empty == [b \in Blocks |-> [c \in Cells |-> Blank]]

Init == store = Empty /\ disk = Empty /\ running = TRUE

Write(b, c, v) ==
    /\ running
    /\ store' = [store EXCEPT ![b][c] = v]
    /\ UNCHANGED <<disk, running>>

\* Something is brought to the disk, or spoilt there.
Save ==
    /\ disk' \in [Blocks -> [Cells -> Values \cup {Blank}]]
    /\ UNCHANGED <<store, running>>

\* The process stops or dies.
End ==
    /\ running /\ running' = FALSE
    /\ disk' \in [Blocks -> [Cells -> Values \cup {Blank}]]
    /\ UNCHANGED store

Start ==
    /\ ~running /\ running' = TRUE
    /\ store' = disk
    /\ UNCHANGED disk

Next ==
    \/ \E b \in Blocks, c \in Cells, v \in Values : Write(b, c, v)
    \/ Save \/ End \/ Start

Spec == Init /\ [][Next]_vars
=============================================================================
