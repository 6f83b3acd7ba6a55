---------------------------- MODULE MCObjectApi ----------------------------
EXTENDS ObjectApiFaults, TLC

MCWrites == {[off |-> 0, data |-> <<1>>], [off |-> 1, data |-> <<2>>]}

\* No object, two small ones, or one that fills the volume.
MCLayouts == {l \in [Oids -> {None, [begin |-> 0, size |-> 1], [begin |-> 2, size |-> 1], [begin |-> 0, size |-> 3]}] :
                 LET n(o) == IF l[o] = None THEN 0 ELSE l[o].size
                 IN  \/ \A o \in Oids : n(o) = 0
                     \/ \A o \in Oids : n(o) = 1 /\ \A p \in Oids \ {o} : l[p] # l[o]
                     \/ {n(o) : o \in Oids} = {0, 3}}

Symmetric == Permutations(Oids) \cup Permutations(Threads)
=============================================================================
