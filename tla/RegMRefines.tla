---------------------------- MODULE RegMRefines ----------------------------
(***************************************************************************)
(* RegM implements SpaceAlloc.  The free bytes are those of the unlocked   *)
(* chips and those above CurPosition; a caller owns the bytes of its       *)
(* extent; locked chips and the extents of running handlers are in         *)
(* transit.                                                                *)
(***************************************************************************)
EXTENDS RegM

Bytes(x) == {x.VolumeId} \X (BeginPos(x) .. (EndPos(x) - 1))

KnownBytes ==
    UNION {{v} \X (0 .. (volumeCol[v].BlkCount * BlkSize - 1)) : v \in VolumeIds}

UnlockedBytes == UNION {Bytes(x) : x \in {y \in chipCol : ~y.Lock}}

AboveBytes ==
    UNION {{v} \X (volumeCol[v].CurPosition ..
                    (volumeCol[v].CurPosition + volumeCol[v].Reserved - 1)) : v \in VolumeIds}

FreeBytes == UnlockedBytes \cup AboveBytes

Abstract == INSTANCE SpaceAlloc WITH known <- KnownBytes, free <- FreeBytes,
                                     own <- [c \in Callers |-> Bytes(hold[c])]

(***************************************************************************)
(* Every step of the handlers is a step of the pool or changes nothing in  *)
(* it: each MongoDB operation moves whole extents between free, in transit *)
(* and owned, and an extent is granted only when nobody else can reach it. *)
(***************************************************************************)
ImplementsSpaceAlloc == Abstract!Spec
=============================================================================
