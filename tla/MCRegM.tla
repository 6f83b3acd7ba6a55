------------------------------- MODULE MCRegM -------------------------------
(* Instances of the register manager for TLC.                              *)
EXTENDS RegMRefines, TLC

\* The callers are interchangeable in all the safety properties.
CallerSymmetry == Permutations(Callers)

\* For the queue: each volume registers once (RegMSpace lets them register again)
\* and the commands name volume 1.
QueueNext ==
    /\ Next
    /\ \A v \in register' \ register : ~volumeCol[v].exists
    /\ \A v \in VolumeIds \ {1} : volumeCol[v].isOnline => volumeCol'[v].isOnline

QueueSpec == Init /\ [][QueueNext]_vars /\ Fairness

\* While a handler walks along the queue, it is only rotated.
RotateNext ==
    /\ Next
    /\ (\E c \in Callers : pc[c] \in {"loop", "reserve", "nospace"}) =>
            QueuedVolumes' = QueuedVolumes

RotateSpec == Init /\ [][RotateNext]_vars
=============================================================================
