----------------------------- MODULE SpaceAlloc -----------------------------
(***************************************************************************)
(* What the register manager promises, without chips, volumes, addresses   *)
(* or threads: a pool of bytes.  A byte of a registered volume is free, or *)
(* owned by one caller, or in transit (taken out of the pool by a request  *)
(* that is being served, or lost by one that failed).  Bytes are granted   *)
(* only out of transit, so never while they are free or owned, and they    *)
(* become free again only after their owner gave them back.                *)
(***************************************************************************)
CONSTANT Callers

VARIABLES known,   \* the bytes of all registered volumes
          free,    \* those that an allocation may take
          own      \* the bytes each caller owns

vars == <<known, free, own>>

Owned == UNION {own[c] : c \in Callers}
InTransit == known \ (free \cup Owned)

Init == known = {} /\ free = {} /\ own = [c \in Callers |-> {}]

\* A volume is registered: its bytes are new and free.
Grow ==
    /\ known \subseteq known'
    /\ free' = free \cup (known' \ known)
    /\ UNCHANGED own

\* A request takes bytes out of the pool ...
Take ==
    /\ free' \subseteq free
    /\ UNCHANGED <<known, own>>

\* ... and puts bytes into it.
Put ==
    /\ free \subseteq free'
    /\ free' \ free \subseteq InTransit
    /\ UNCHANGED <<known, own>>

\* A caller that owns nothing is granted bytes.
Grant(c) ==
    /\ own[c] = {}
    /\ own' = [own EXCEPT ![c] = own'[c]]
    /\ own'[c] \subseteq InTransit
    /\ UNCHANGED <<known, free>>

\* A caller gives back some or all of its bytes.
GiveBack(c) ==
    /\ own' = [own EXCEPT ![c] = own'[c]]
    /\ own'[c] \subseteq own[c]
    /\ UNCHANGED <<known, free>>

Next == Grow \/ Take \/ Put \/ \E c \in Callers : Grant(c) \/ GiveBack(c)

Spec == Init /\ [][Next]_vars
=============================================================================
