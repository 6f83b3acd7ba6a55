--------------------------- MODULE SNCacheProofs ---------------------------
(***************************************************************************)
(* What the storage node's cache keeps whichever device accesses and calls *)
(* of MongoDB fail, for any number of nodes and blocks.  Three facts carry *)
(* each other:                                                             *)
(*   Linked    a node that has a block is the one the index names for it,  *)
(*   Partnered a C(D) and the C(E) it points to belong together,           *)
(*   Sealable  the C(E) of a dirty C(D) has content and is used more       *)
(*             recently, so it is not the next node to be taken.           *)
(* They hold between the steps of an access only with what is known of the *)
(* nodes it has found or taken so far (InCall).                            *)
(* While no write to the device fails, more is kept (second part):         *)
(*   Whole    every C(D) has its C(E), with content if the C(D) has any,   *)
(*   Data     a C(D) is plain, a C(E) and the device (Device) are sealed   *)
(*            with the key of their block,                                 *)
(*   Clean    a clean node is what the next place on the path C(D) -> C(E) *)
(*            -> device holds,                                             *)
(*   Walk     flush_and_stop leaves no dirty node behind but the first.    *)
(* From them a block has one content whichever nodes hold it (Shows), and  *)
(* every step but a client's write keeps it.                               *)
(***************************************************************************)
EXTENDS SNCacheRefines, TLAPS, FiniteSetTheorems, SequenceTheorems

-----------------------------------------------------------------------------
(* The list of nodes.                                                      *)

N == Cardinality(Nodes)

LEMMA NodesFact == N \in Nat /\ N >= 2 /\ NoNode \notin Nodes
BY SNCacheAssumption, FS_CardinalityType DEF N

LEMMA OrderFacts ==
    ASSUME NEW l \in Orders
    PROVE  /\ l \in [1 .. N -> Nodes] /\ DOMAIN l = 1 .. N
           /\ \A i, j \in 1 .. N : l[i] = l[j] => i = j
           /\ \A n \in Nodes : \E i \in 1 .. N : l[i] = n
           /\ l \in Seq(Nodes) /\ Len(l) = N
<1>1. l \in [1 .. N -> Nodes] BY DEF Orders, N, Bijection, Injection
<1>2. \A i, j \in 1 .. N : l[i] = l[j] => i = j
  BY DEF Orders, N, Bijection, Injection, IsInjective
<1>3. \A n \in Nodes : \E i \in 1 .. N : l[i] = n
  BY DEF Orders, N, Bijection, Surjection
<1>4. l \in Seq(Nodes) BY <1>1, NodesFact
<1>5. Len(l) = N BY <1>1, <1>4, NodesFact
<1> QED BY <1>1, <1>2, <1>3, <1>4, <1>5

\* A node is found at one place; ToFront in terms of that place.
LEMMA FrontAt ==
    ASSUME NEW l \in Orders, NEW n \in Nodes
    PROVE  \E k \in 1 .. N :
             /\ l[k] = n
             /\ ToFront(l, n) = [i \in 1 .. N |-> IF i = 1 THEN n
                                                  ELSE IF i <= k THEN l[i - 1] ELSE l[i]]
<1> DEFINE k == CHOOSE i \in DOMAIN l : l[i] = n
<1>1. \E i \in DOMAIN l : l[i] = n BY OrderFacts
<1>2. k \in DOMAIN l /\ l[k] = n BY <1>1
<1>3. DOMAIN l = 1 .. N BY OrderFacts
<1>4. ToFront(l, n) = [i \in 1 .. N |-> IF i = 1 THEN n ELSE IF i <= k THEN l[i - 1] ELSE l[i]]
  BY <1>3, Zenon DEF ToFront
<1> QED BY <1>2, <1>3, <1>4

LEMMA FrontIsOrder ==
    ASSUME NEW l \in Orders, NEW n \in Nodes
    PROVE  ToFront(l, n) \in Orders /\ ToFront(l, n)[1] = n
<1>1. PICK k \in 1 .. N :
        /\ l[k] = n
        /\ ToFront(l, n) = [i \in 1 .. N |-> IF i = 1 THEN n
                                             ELSE IF i <= k THEN l[i - 1] ELSE l[i]]
  BY FrontAt
<1> DEFINE t == ToFront(l, n)
<1>2. /\ l \in [1 .. N -> Nodes]
      /\ \A i, j \in 1 .. N : l[i] = l[j] => i = j
      /\ \A m \in Nodes : \E i \in 1 .. N : l[i] = m
      /\ N \in Nat /\ N >= 2
  BY OrderFacts, NodesFact
<1>3. /\ t[1] = n /\ DOMAIN t = 1 .. N
      /\ \A i \in 2 .. k : t[i] = l[i - 1]
      /\ \A i \in (k + 1) .. N : t[i] = l[i]
  BY <1>1, <1>2
<1>4. t \in [1 .. N -> Nodes] BY <1>1, <1>2
<1>5. ASSUME NEW i \in 1 .. N, NEW j \in 1 .. N, t[i] = t[j] PROVE i = j
  <2>1. \A x \in 1 .. N : x = 1 \/ x \in 2 .. k \/ x \in (k + 1) .. N BY <1>2
  <2>2. \A x \in 2 .. k : t[x] # n /\ t[x] = l[x - 1] BY <1>1, <1>2, <1>3
  <2>3. \A x \in (k + 1) .. N : t[x] # n /\ t[x] = l[x] BY <1>1, <1>2, <1>3
  <2>4. CASE i = 1 \/ j = 1 BY <2>1, <2>2, <2>3, <2>4, <1>3, <1>5
  <2>5. CASE i \in 2 .. k /\ j \in 2 .. k
    <3>1. l[i - 1] = l[j - 1] /\ i - 1 \in 1 .. N /\ j - 1 \in 1 .. N BY <2>5, <2>2, <1>5, <1>2
    <3>2. i - 1 = j - 1 BY <3>1, <1>2
    <3> QED BY <3>2
  <2>6. CASE i \in 2 .. k /\ j \in (k + 1) .. N
    <3>1. l[i - 1] = l[j] /\ i - 1 \in 1 .. N BY <2>6, <2>2, <2>3, <1>5, <1>2
    <3>2. i - 1 = j BY <3>1, <1>2
    <3> QED BY <3>2, <2>6
  <2>7. CASE i \in (k + 1) .. N /\ j \in 2 .. k
    <3>1. l[j - 1] = l[i] /\ j - 1 \in 1 .. N BY <2>7, <2>2, <2>3, <1>5, <1>2
    <3>2. j - 1 = i BY <3>1, <1>2
    <3> QED BY <3>2, <2>7
  <2>8. CASE i \in (k + 1) .. N /\ j \in (k + 1) .. N BY <2>8, <2>3, <1>5, <1>2
  <2> QED BY <2>1, <2>4, <2>5, <2>6, <2>7, <2>8
<1>6. ASSUME NEW m \in Nodes PROVE \E i \in 1 .. N : t[i] = m
  <2>1. PICK i \in 1 .. N : l[i] = m BY <1>2
  <2>2. CASE i < k
    <3>1. i + 1 \in 2 .. k /\ i + 1 \in 1 .. N /\ (i + 1) - 1 = i BY <2>2, <1>2
    <3> QED BY <3>1, <1>3, <2>1
  <2>3. CASE i = k BY <2>3, <2>1, <1>1, <1>2, <1>3
  <2>4. CASE i > k BY <2>4, <2>1, <1>2, <1>3
  <2> QED BY <2>2, <2>3, <2>4
<1>7. t \in Orders
  BY <1>4, <1>5, <1>6 DEF Orders, N, Bijection, Injection, Surjection, IsInjective
<1> QED BY <1>3, <1>7

\* What a node moved to the front leaves behind keeps its order.
LEMMA FrontKeepsOrder ==
    ASSUME NEW l \in Orders, NEW n \in Nodes, NEW m, NEW o, Before(l, m, o), o # n
    PROVE  Before(ToFront(l, n), m, o)
<1>1. PICK k \in 1 .. N :
        /\ l[k] = n
        /\ ToFront(l, n) = [i \in 1 .. N |-> IF i = 1 THEN n
                                             ELSE IF i <= k THEN l[i - 1] ELSE l[i]]
  BY FrontAt
<1> DEFINE t == ToFront(l, n)
<1>2. DOMAIN l = 1 .. N /\ N \in Nat /\ N >= 2 BY OrderFacts, NodesFact
<1>3. PICK i, j \in 1 .. N : i < j /\ l[i] = m /\ l[j] = o BY <1>2 DEF Before
<1>4. DOMAIN t = 1 .. N BY <1>1
<1>5. j # k BY <1>1, <1>3
<1> DEFINE p(x) == IF x = k THEN 1 ELSE IF x < k THEN x + 1 ELSE x
<1>6. \A x \in 1 .. N : p(x) \in 1 .. N /\ t[p(x)] = l[x]
  <2> TAKE x \in 1 .. N
  <2>1. CASE x = k BY <2>1, <1>1, <1>2
  <2>2. CASE x < k
    <3>1. p(x) = x + 1 /\ x + 1 \in 1 .. N /\ x + 1 # 1 /\ x + 1 <= k /\ (x + 1) - 1 = x
      BY <2>2, <1>2
    <3> QED BY <3>1, <1>1
  <2>3. CASE x > k
    <3>1. p(x) = x /\ x # 1 /\ ~(x <= k) BY <2>3, <1>2
    <3> QED BY <3>1, <1>1
  <2> QED BY <2>1, <2>2, <2>3
<1>7. p(i) < p(j) BY <1>3, <1>5
<1> HIDE DEF p
<1>8. t[p(i)] = m /\ t[p(j)] = o /\ p(i) \in DOMAIN t /\ p(j) \in DOMAIN t
  BY <1>6, <1>3, <1>4
<1> QED BY <1>7, <1>8 DEF Before

LEMMA FirstIsBefore ==
    ASSUME NEW l \in Orders, NEW n \in Nodes, n # l[1]
    PROVE  Before(l, l[1], n)
<1>1. DOMAIN l = 1 .. N /\ N \in Nat /\ N >= 2 BY OrderFacts, NodesFact
<1>2. PICK j \in 1 .. N : l[j] = n BY OrderFacts
<1>3. 1 \in DOMAIN l /\ j \in DOMAIN l /\ 1 < j BY <1>1, <1>2
<1> QED BY <1>2, <1>3 DEF Before

LEMMA OldestFacts ==
    ASSUME NEW l \in Orders
    PROVE  /\ Oldest(l) \in Nodes /\ l[1] \in Nodes /\ Oldest(l) # l[1]
           /\ \A n : ~Before(l, Oldest(l), n) /\ ~Before(l, n, l[1])
<1>1. /\ l \in [1 .. N -> Nodes] /\ Len(l) = N /\ DOMAIN l = 1 .. N
      /\ \A i, j \in 1 .. N : l[i] = l[j] => i = j
      /\ N \in Nat /\ N >= 2
  BY OrderFacts, NodesFact
<1>2. Oldest(l) = l[N] BY <1>1 DEF Oldest
<1>3. ASSUME NEW n, Before(l, Oldest(l), n) PROVE FALSE
  <2>1. PICK i, j \in 1 .. N : i < j /\ l[i] = l[N] /\ l[j] = n BY <1>1, <1>2, <1>3 DEF Before
  <2>2. i = N BY <2>1, <1>1
  <2> QED BY <2>1, <2>2
<1>4. ASSUME NEW n, Before(l, n, l[1]) PROVE FALSE
  <2>1. PICK i, j \in 1 .. N : i < j /\ l[i] = n /\ l[j] = l[1] BY <1>1, <1>4 DEF Before
  <2>2. j = 1 BY <2>1, <1>1
  <2> QED BY <2>1, <2>2
<1> QED BY <1>1, <1>2, <1>3, <1>4

LEMMA BeforeIsNode ==
    ASSUME NEW l \in Orders, NEW m, NEW n, Before(l, m, n)
    PROVE  m \in Nodes /\ n \in Nodes /\ m # n
<1>1. /\ l \in [1 .. N -> Nodes] /\ DOMAIN l = 1 .. N
      /\ \A i, j \in 1 .. N : l[i] = l[j] => i = j
  BY OrderFacts
<1>2. PICK i, j \in 1 .. N : i < j /\ l[i] = m /\ l[j] = n BY <1>1 DEF Before
<1> QED BY <1>1, <1>2, NodesFact

-----------------------------------------------------------------------------
(* The invariant of an access, whatever fails.                             *)

\* The nodes get_cache_index found or took for the block of the access.
MyD == index[call.b].decrypt
MyE == index[call.b].encrypt

\* The index leads to every node that has a block; fresh nodes have none.
Linked ==
    \A n \in Nodes :
        /\ node[n].blk = NoBlock => node[n].status = "uninited" /\ ~is_decrypted(n)
        /\ node[n].blk # NoBlock =>
             IF is_decrypted(n) THEN index[node[n].blk].decrypt = n
                                ELSE index[node[n].blk].encrypt = n

\* A C(D) names the C(E) of its block, if the block still has one, and the key of
\* its content is in memory.
Partnered ==
    \A n \in Nodes : is_decrypted(n) =>
        /\ node[n].encrypted # n
        /\ node[n].status # "uninited" => node[n].blk \in keyMap
        /\ \/ index[node[n].blk].encrypt = node[n].encrypted
           \/ ~is_me(index[node[n].blk].encrypt, node[n].blk)
           \/ call.pc = "reset" /\ call.newE /\ call.b = node[n].blk

\* C(D) n is taken away before its partner is: it was used less recently, or its
\* own access is about to use the partner.
Older(n) ==
    LET e == node[n].encrypted
    IN  /\ (call.pc = "encrypt" /\ call.b = node[n].blk) \/ Before(lru, e, n)
        /\ ~(call.newD /\ e = MyD)
        /\ ~(call.newE /\ e = MyE)

\* C(D) n has a partner, which is not taken away before it.
Anchored(n) == is_decrypted(n) /\ is_me(node[n].encrypted, node[n].blk) /\ Older(n)

\* The access took node n for its block.
Taken(n) == (call.newD /\ n = MyD) \/ (call.newE /\ n = MyE)

\* A step that keeps nodes anchored, but for the one it takes.
AnchorsStay == \A m \in Nodes : Anchored(m) => Older(m)' \/ Taken(m)'

\* A dirty C(D) can be sealed.
Sealable ==
    \A n \in Nodes : is_decrypted(n) /\ is_updated(n) =>
        Holds(node[n].encrypted, node[n].blk) /\ Older(n)

\* What holds between the steps of an access.
Found == {"reset", "load", "open", "act"}

InCall ==
    /\ call.pc = "idle" => call = NoCall
    /\ call.pc # "idle" => call.b \in Blocks
    /\ call.newD => /\ call.pc \in {"encrypt", "reset"} /\ call.decrypt
                    /\ node[MyD].blk # call.b /\ ~is_updated(MyD)
    /\ call.newE => call.pc = "reset" /\ ~is_updated(MyE) /\ (call.decrypt => MyD # MyE)
    /\ call.pc \in Found \cup {"encrypt"} =>
          /\ MyD = NoNode => ~call.decrypt
          /\ MyD = NoNode \/ call.newD \/ is_me(MyD, call.b)
    /\ call.pc = "encrypt" /\ call.decrypt => lru[1] = MyD
    /\ call.pc \in Found => MyE # NoNode /\ (call.newE \/ is_me(MyE, call.b)) /\ lru[1] = MyE
    /\ call.pc \in {"open", "act"} => node[MyE].status # "uninited"
    /\ call.pc = "act" /\ call.decrypt => node[MyD].status # "uninited"
    /\ flusher = NoFlush \/ flusher.b \in Blocks
    /\ visit > 0 => call = NoCall

CallInv == Linked /\ Partnered /\ Sealable /\ InCall

\* Nothing is known of the memory of a process that died.
CInv ==
    /\ TypeOK
    /\ visit >= 0 => CallInv
    /\ visit < 0 => call = NoCall

-----------------------------------------------------------------------------
(* Facts about nodes and buffers.                                          *)

LEMMA NodeFacts ==
    ASSUME TypeOK, NEW n \in Nodes
    PROVE  /\ node[n] \in Node
           /\ node[n].blk \in Blocks \cup {NoBlock}
           /\ node[n].status \in NodeStatus
           /\ node[n].encrypted \in Nodes \cup {NoNode}
           /\ node[n].data \in Buffer
BY DEF TypeOK, Node

LEMMA IndexFacts ==
    ASSUME TypeOK, NEW b \in Blocks
    PROVE  /\ index[b] = [encrypt |-> index[b].encrypt, decrypt |-> index[b].decrypt]
           /\ index[b].encrypt \in Nodes \cup {NoNode}
           /\ index[b].decrypt \in Nodes \cup {NoNode}
BY DEF TypeOK

LEMMA CallFacts ==
    ASSUME TypeOK
    PROVE  /\ call.pc \in {"idle", "decrypt"} \cup {"encrypt", "reset", "load", "open", "act"}
           /\ call.b \in Blocks \cup {NoBlock}
           /\ call.decrypt \in BOOLEAN /\ call.flush \in BOOLEAN
           /\ call.newD \in BOOLEAN /\ call.newE \in BOOLEAN
           /\ lru \in Orders /\ Len(lru) = N
BY OrderFacts DEF TypeOK

LEMMA SealType ==
    ASSUME NEW x \in Buffer, NEW b \in Blocks \cup {NoBlock}
    PROVE  Seal(b, x) \in Buffer /\ Open(b, x) \in Buffer /\ Filled(b, Blank) \in Buffer
<1>1. \A c \in Cells : x[c] \in Cell BY DEF Buffer
<1>2. \A c \in Cells : x[c].key \in Blocks \cup {NoBlock} /\ x[c].val \in Values \cup {Blank, NoValue}
  BY <1>1 DEF Cell
<1> QED BY <1>2 DEF Seal, Open, Filled, Buffer, Cell

LEMMA ReadType ==
    ASSUME TypeOK, NEW b \in Blocks
    PROVE  readblk(b) \in Buffer
<1>1. \A x \in Buffer : Zeros(b) \in Buffer BY SealType DEF Zeros
<1>2. platter[b] \in Buffer BY DEF TypeOK
<1> QED BY <1>1, <1>2 DEF readblk

\* The partner of a C(D) that still has the block of the C(D).
LEMMA PartnerFacts ==
    ASSUME TypeOK, Linked, Partnered, NEW n \in Nodes, is_decrypted(n),
           is_me(node[n].encrypted, node[n].blk)
    PROVE  /\ node[n].encrypted \in Nodes /\ node[n].encrypted # n
           /\ ~is_decrypted(node[n].encrypted)
           /\ node[n].blk \in Blocks
           /\ index[node[n].blk].encrypt = node[n].encrypted
           /\ index[node[n].blk].decrypt = n
<1> DEFINE e == node[n].encrypted
<1>1. e \in Nodes /\ e # n /\ node[n].blk \in Blocks
  BY NodeFacts DEF is_decrypted, Linked, Partnered
<1>2. node[e].blk = node[n].blk BY DEF is_me
<1>3. index[node[n].blk].decrypt = n BY <1>1, SNCacheAssumption DEF Linked
<1>4. ~is_decrypted(e) BY <1>1, <1>2, <1>3, SNCacheAssumption DEF Linked
<1>5. index[node[n].blk].encrypt = e BY <1>1, <1>2, <1>4, SNCacheAssumption DEF Linked
<1> QED BY <1>1, <1>3, <1>4, <1>5

LEMMA DirtyFacts ==
    ASSUME TypeOK, Linked, Partnered, Sealable, NEW n \in Nodes, is_updated(n)
    PROVE  /\ node[n].blk \in Blocks
           /\ is_decrypted(n) =>
                /\ node[n].encrypted \in Nodes /\ node[n].encrypted # n
                /\ ~is_decrypted(node[n].encrypted)
                /\ Holds(node[n].encrypted, node[n].blk) /\ Older(n)
                /\ index[node[n].blk].encrypt = node[n].encrypted
                /\ index[node[n].blk].decrypt = n
<1>1. node[n].blk \in Blocks BY NodeFacts DEF Linked, is_updated
<1>2. is_decrypted(n) => Holds(node[n].encrypted, node[n].blk) /\ Older(n) BY DEF Sealable
<1> QED BY <1>1, <1>2, PartnerFacts DEF Holds

LEMMA DirtyAnchored ==
    ASSUME TypeOK, CallInv, NEW n \in Nodes, is_decrypted(n), is_updated(n)
    PROVE  Anchored(n)
BY DirtyFacts DEF CallInv, Anchored, Holds

\* What sealing does to each node.
LEMMA SealedNode ==
    ASSUME TypeOK, NEW n \in Nodes, node[n].encrypted \in Nodes, node[n].encrypted # n,
           node[n].blk \in Blocks
    PROVE  /\ SealedInto(n) \in [Nodes -> Node]
           /\ \A m \in Nodes :
                /\ SealedInto(n)[m].blk = node[m].blk
                /\ SealedInto(n)[m].encrypted = node[m].encrypted
                /\ SealedInto(n)[m].status = IF m = n THEN "inited"
                                             ELSE IF m = node[n].encrypted THEN "updated"
                                             ELSE node[m].status
                /\ SealedInto(n)[m].data = IF m = node[n].encrypted
                                           THEN Seal(node[n].blk, node[n].data)
                                           ELSE node[m].data
<1> DEFINE e == node[n].encrypted
           x == Seal(node[n].blk, node[n].data)
           s == SealedInto(n)
<1>1. node \in [Nodes -> Node] BY DEF TypeOK
<1>2. x \in Buffer BY NodeFacts, SealType
<1>3. s[n] = [node[n] EXCEPT !.status = "inited"] BY <1>1 DEF SealedInto
<1>4. s[e] = [node[e] EXCEPT !.status = "updated", !.data = x] BY <1>1 DEF SealedInto
<1>5. \A m \in Nodes \ {n, e} : s[m] = node[m] BY <1>1 DEF SealedInto
<1>6. s = [m \in Nodes |-> s[m]] BY <1>1 DEF SealedInto
<1>7. node[n] \in Node /\ node[e] \in Node BY <1>1
<1>8. /\ s[n] \in Node /\ s[n].blk = node[n].blk /\ s[n].encrypted = node[n].encrypted
      /\ s[n].status = "inited" /\ s[n].data = node[n].data
  BY ONLY <1>3, <1>7 DEF Node, NodeStatus
<1>9. /\ s[e] \in Node /\ s[e].blk = node[e].blk /\ s[e].encrypted = node[e].encrypted
      /\ s[e].status = "updated" /\ s[e].data = x
  BY ONLY <1>2, <1>4, <1>7 DEF Node, NodeStatus
<1>10. \A m \in Nodes : s[m] \in Node BY <1>1, <1>5, <1>8, <1>9
<1>11. s \in [Nodes -> Node] BY <1>6, <1>10
<1> HIDE DEF s, x
<1> QED BY <1>5, <1>8, <1>9, <1>11 DEF s, x

\* A node whose status alone changes.
LEMMA StatusNode ==
    ASSUME TypeOK, NEW n \in Nodes, NEW s \in NodeStatus
    PROVE  /\ [node EXCEPT ![n].status = s] \in [Nodes -> Node]
           /\ \A m \in Nodes :
                /\ [node EXCEPT ![n].status = s][m].blk = node[m].blk
                /\ [node EXCEPT ![n].status = s][m].encrypted = node[m].encrypted
                /\ [node EXCEPT ![n].status = s][m].status = IF m = n THEN s ELSE node[m].status
                /\ [node EXCEPT ![n].status = s][m].data = node[m].data
<1>1. node \in [Nodes -> Node] BY DEF TypeOK
<1> QED BY <1>1 DEF Node

\* What flushing a node does to each node.
LEMMA FlushedNode ==
    ASSUME TypeOK, Linked, Partnered, Sealable, NEW n \in Nodes, is_updated(n), Flush(n)
    PROVE  /\ node' \in [Nodes -> Node]
           /\ platter' \in [Blocks -> Buffer] /\ bits' \subseteq Blocks
           /\ node'[n].status = "inited"
           /\ \A m \in Nodes :
                /\ node'[m].blk = node[m].blk
                /\ node'[m].encrypted = node[m].encrypted
                /\ \/ node'[m].status = node[m].status
                   \/ m = n
                   \/ is_decrypted(n) /\ m = node[n].encrypted /\ node'[m].status = "updated"
<1>1. /\ node[n].blk \in Blocks
      /\ is_decrypted(n) => node[n].encrypted \in Nodes /\ node[n].encrypted # n
  BY DirtyFacts
<1>2. /\ platter \in [Blocks -> Buffer] /\ bits \subseteq Blocks /\ node[n].data \in Buffer
  BY NodeFacts DEF TypeOK
<1>3. CASE is_decrypted(n)
  <2>1. node' = SealedInto(n) /\ platter' = platter /\ bits' = bits BY <1>3 DEF Flush
  <2> QED BY <2>1, <1>1, <1>2, <1>3, SealedNode
<1>4. CASE ~is_decrypted(n)
  <2>1. /\ node' = [node EXCEPT ![n].status = "inited"]
        /\ platter' = [platter EXCEPT ![node[n].blk] = node[n].data]
        /\ bits' = bits \cup {node[n].blk}
    BY <1>4 DEF Flush
  <2>2. "inited" \in NodeStatus BY DEF NodeStatus
  <2>3. platter' \in [Blocks -> Buffer] /\ bits' \subseteq Blocks BY <2>1, <1>1, <1>2
  <2>4. /\ node' \in [Nodes -> Node]
        /\ \A m \in Nodes :
              /\ node'[m].blk = node[m].blk
              /\ node'[m].encrypted = node[m].encrypted
              /\ node'[m].status = IF m = n THEN "inited" ELSE node[m].status
    BY <2>1, <2>2, StatusNode
  <2> QED BY <2>3, <2>4
<1> QED BY <1>3, <1>4

-----------------------------------------------------------------------------
(* Steps that leave each node its block and its partner.                   *)

\* Nodes keep what the invariant needs of them; no C(D) becomes dirty.
KeepsNodes ==
    /\ keyMap \subseteq keyMap'
    /\ \A m \in Nodes :
         /\ node'[m].blk = node[m].blk
         /\ node'[m].encrypted = node[m].encrypted
         /\ node[m].status # "uninited" => node'[m].status # "uninited"
         /\ node[m].blk = NoBlock => node'[m].status = "uninited"
         /\ is_decrypted(m) =>
              /\ node'[m].status = "updated" => is_updated(m)
              /\ node'[m].status # "uninited" => node[m].blk \in keyMap'

LEMMA FlushKeepsNodes ==
    ASSUME TypeOK, CallInv, NEW n \in Nodes, is_updated(n), Flush(n), keyMap' = keyMap
    PROVE  KeepsNodes
<1>1. /\ node[n].blk \in Blocks
      /\ is_decrypted(n) => /\ node[n].encrypted \in Nodes
                            /\ ~is_decrypted(node[n].encrypted)
                            /\ Holds(node[n].encrypted, node[n].blk)
  BY DirtyFacts DEF CallInv
<1>2. /\ node'[n].status = "inited"
      /\ \A m \in Nodes :
                /\ node'[m].blk = node[m].blk
                /\ node'[m].encrypted = node[m].encrypted
                /\ \/ node'[m].status = node[m].status
                   \/ m = n
                   \/ is_decrypted(n) /\ m = node[n].encrypted /\ node'[m].status = "updated"
  BY FlushedNode DEF CallInv
<1>3. ASSUME NEW m \in Nodes
      PROVE  /\ node[m].status # "uninited" => node'[m].status # "uninited"
             /\ node[m].blk = NoBlock => node'[m].status = "uninited"
             /\ is_decrypted(m) =>
                  /\ node'[m].status = "updated" => is_updated(m)
                  /\ node'[m].status # "uninited" => node[m].blk \in keyMap
  <2>1. /\ node[m].blk = NoBlock => node[m].status = "uninited"
        /\ is_decrypted(m) => (node[m].status # "uninited" => node[m].blk \in keyMap)
    BY DEF CallInv, Linked, Partnered
  <2>2. CASE node'[m].status = node[m].status BY <2>1, <2>2 DEF is_updated
  <2>3. CASE m = n
    <3>1. node[m].blk # NoBlock /\ node[m].status = "updated"
      BY <1>1, <2>3, SNCacheAssumption DEF is_updated
    <3>2. node'[m].status = "inited" BY <1>2, <2>3
    <3> QED BY <2>1, <3>1, <3>2 DEF is_updated
  <2>4. CASE is_decrypted(n) /\ m = node[n].encrypted /\ node'[m].status = "updated"
    <3>1. ~is_decrypted(m) /\ node[m].blk # NoBlock
      BY <1>1, <2>4, SNCacheAssumption DEF Holds, is_me
    <3> QED BY <2>4, <3>1
  <2> QED BY <1>2, <2>2, <2>3, <2>4
<1> QED BY <1>2, <1>3 DEF KeepsNodes

\* A node written to the device.
LEMMA WrittenOut ==
    ASSUME TypeOK, NEW b \in Blocks, NEW x \in Buffer, platter' = [platter EXCEPT ![b] = x],
           bits' = bits \cup {b}
    PROVE  platter' \in [Blocks -> Buffer] /\ bits' \subseteq Blocks
BY DEF TypeOK

\* ... or half of it.
LEMMA TornType ==
    ASSUME TypeOK, NEW n \in Nodes, node[n].blk \in Blocks, WriteFails(n)
    PROVE  platter' \in [Blocks -> Buffer] /\ bits' \subseteq Blocks
<1>1. PICK x \in Torn(node[n].blk, node[n].data) :
        platter' = [platter EXCEPT ![node[n].blk] = x]
  BY DEF WriteFails
<1>2. node[n].data \in Buffer /\ platter[node[n].blk] \in Buffer BY NodeFacts DEF TypeOK
<1>3. x \in Buffer BY <1>1, <1>2 DEF Torn, Buffer
<1> QED BY <1>1, <1>3, WrittenOut DEF WriteFails

LEMMA KeepsLinked ==
    ASSUME TypeOK, Linked, KeepsNodes,
           \A m \in Nodes : node[m].blk # NoBlock =>
               IF is_decrypted(m) THEN index'[node[m].blk].decrypt = index[node[m].blk].decrypt
                                  ELSE index'[node[m].blk].encrypt = index[node[m].blk].encrypt
    PROVE  Linked'
BY DEF Linked, KeepsNodes, is_decrypted

LEMMA KeepsSealable ==
    ASSUME TypeOK, Linked, Partnered, Sealable, KeepsNodes,
           \A m \in Nodes : is_decrypted(m) /\ is_updated(m) /\ is_updated(m)' => Older(m)'
    PROVE  Sealable'
<1>1. SUFFICES ASSUME NEW m \in Nodes, is_decrypted(m)', is_updated(m)'
               PROVE  Holds(node[m].encrypted, node[m].blk)' /\ Older(m)'
  BY DEF Sealable
<1>2. is_decrypted(m) /\ is_updated(m) BY <1>1 DEF KeepsNodes, is_decrypted, is_updated
<1>3. node[m].encrypted \in Nodes /\ Holds(node[m].encrypted, node[m].blk)
  BY <1>2, DirtyFacts
<1>4. Holds(node[m].encrypted, node[m].blk)' BY <1>3 DEF KeepsNodes, Holds, is_me
<1> QED BY <1>1, <1>2, <1>4

LEMMA AnchoredSealable ==
    ASSUME TypeOK, CallInv, KeepsNodes, AnchorsStay,
           \A m \in Nodes : Taken(m)' => ~is_updated(m)'
    PROVE  Sealable'
<1>1. ASSUME NEW m \in Nodes, is_decrypted(m), is_updated(m), is_updated(m)' PROVE Older(m)'
  BY <1>1, DirtyAnchored DEF AnchorsStay
<1> QED BY <1>1, KeepsSealable DEF CallInv

\* The call stays the same or ends, and neither the index nor the order changes.
LEMMA QuietNodes ==
    ASSUME TypeOK, CallInv, KeepsNodes, UNCHANGED <<index, lru>>,
           call.pc \notin {"encrypt", "reset"}, ~call'.newD, ~call'.newE
    PROVE  Linked' /\ Partnered' /\ Sealable' /\ AnchorsStay
<1>1. Linked' BY KeepsLinked DEF CallInv
<1>2. AnchorsStay
  <2>1. ASSUME NEW m \in Nodes, Anchored(m) PROVE Older(m)'
    <3>1. Before(lru, node[m].encrypted, m) BY <2>1 DEF Anchored, Older
    <3>2. node'[m].encrypted = node[m].encrypted BY DEF KeepsNodes
    <3> QED BY <3>1, <3>2 DEF Older
  <2> QED BY <2>1 DEF AnchorsStay
<1>3. Sealable'
  <2>1. \A m \in Nodes : ~Taken(m)' BY DEF Taken
  <2> QED BY <1>2, <2>1, AnchoredSealable
<1>4. ASSUME NEW m \in Nodes, is_decrypted(m)'
      PROVE  /\ node'[m].encrypted # m
             /\ node'[m].status # "uninited" => node'[m].blk \in keyMap'
             /\ \/ index'[node'[m].blk].encrypt = node'[m].encrypted
                \/ ~is_me(index[node[m].blk].encrypt, node[m].blk)'
  <2>1. is_decrypted(m) /\ node'[m].encrypted = node[m].encrypted /\ node'[m].blk = node[m].blk
    BY <1>4 DEF KeepsNodes, is_decrypted
  <2>2. node[m].blk \in Blocks BY <2>1, NodeFacts DEF CallInv, Linked
  <2>3. index[node[m].blk].encrypt \in Nodes \cup {NoNode} BY <2>2, IndexFacts
  <2>4. \/ index[node[m].blk].encrypt = node[m].encrypted
        \/ ~is_me(index[node[m].blk].encrypt, node[m].blk)
    BY <2>1 DEF CallInv, Partnered
  <2>5. node[m].encrypted # m BY <2>1 DEF CallInv, Partnered
  <2>6. node'[m].status # "uninited" => node'[m].blk \in keyMap' BY <2>1 DEF KeepsNodes
  <2> QED BY <2>1, <2>3, <2>4, <2>5, <2>6 DEF KeepsNodes, is_me
<1>5. Partnered' BY <1>4 DEF Partnered
<1> QED BY <1>1, <1>2, <1>3, <1>5

LEMMA NodesStay ==
    ASSUME TypeOK, CallInv, UNCHANGED <<node, keyMap>>
    PROVE  KeepsNodes
BY DEF KeepsNodes, CallInv, Linked, Partnered, is_updated

-----------------------------------------------------------------------------
(* Steps outside of an access.                                             *)

\* The accesses in progress.
Calls == [pc : {"idle", "decrypt", "encrypt", "reset", "load", "open", "act"},
          b : Blocks \cup {NoBlock}, decrypt : BOOLEAN, flush : BOOLEAN,
          newD : BOOLEAN, newE : BOOLEAN]

LEMMA AccessInv ==
    ASSUME TypeOK, CallInv, NEW b \in Blocks, NEW decrypt \in BOOLEAN, Access(b, decrypt)
    PROVE  TypeOK' /\ CallInv'
<1>1. /\ call = NoCall /\ visit = 0
      /\ call' = [NoCall EXCEPT !.pc = "decrypt", !.b = b, !.decrypt = decrypt]
      /\ UNCHANGED <<node, lru, index, keyMap, platter, bits, savedBits, spsc, flusher, visit>>
  BY DEF Access, Running, cacheVars, deviceVars
<1>2. /\ call' \in Calls
      /\ call'.pc = "decrypt" /\ call'.b = b /\ ~call'.newD /\ ~call'.newE
  BY ONLY <1>1, b \in Blocks, decrypt \in BOOLEAN DEF NoCall, Calls
<1>3. TypeOK' BY <1>1, <1>2 DEF TypeOK, Calls
<1>4. call.pc = "idle" BY <1>1 DEF NoCall
<1>5. Linked' /\ Partnered' /\ Sealable' BY <1>1, <1>2, <1>4, NodesStay, QuietNodes
<1>6. InCall' BY <1>1, <1>2 DEF CallInv, InCall, Found
<1> QED BY <1>3, <1>5, <1>6 DEF CallInv

LEMMA FlushTimeoutInv ==
    ASSUME TypeOK, CallInv, FlushTimeout
    PROVE  TypeOK' /\ CallInv'
<1>1. /\ UNCHANGED <<node, lru, index, keyMap, platter, bits, savedBits, flusher, call, visit>>
      /\ visit = 0
  BY DEF FlushTimeout, Running, cacheVars, deviceVars
<1>2. PICK k \in 1 .. Len(lru) :
        /\ \A i \in 1 .. k : is_updated(Visited(i))
        /\ Len(spsc) + k <= QueueCap
        /\ spsc' = spsc \o [i \in 1 .. k |-> node[Visited(i)].blk]
  BY DEF FlushTimeout
<1>3. lru \in [1 .. N -> Nodes] /\ Len(lru) = N /\ N \in Nat /\ N >= 2
  BY CallFacts, OrderFacts, NodesFact
<1>4. \A i \in 1 .. k : Visited(i) \in Nodes BY <1>2, <1>3 DEF Visited
<1>5. \A i \in 1 .. k : node[Visited(i)].blk \in Blocks BY <1>2, <1>4, DirtyFacts DEF CallInv
<1> DEFINE s == [i \in 1 .. k |-> node[Visited(i)].blk]
<1>6. s \in Seq(Blocks) /\ Len(s) = k BY <1>2, <1>3, <1>5
<1>7. spsc' \in Seq(Blocks) /\ Len(spsc') = Len(spsc) + k
  <2>1. spsc \in Seq(Blocks) BY DEF TypeOK
  <2> HIDE DEF s
  <2>2. spsc \o s \in Seq(Blocks) /\ Len(spsc \o s) = Len(spsc) + Len(s) BY <2>1, <1>6, ConcatProperties
  <2> QED BY <2>2, <1>2, <1>6 DEF s
<1>8. TypeOK' BY <1>1, <1>2, <1>7 DEF TypeOK
<1>9. CallInv' BY <1>1 DEF CallInv, Linked, Partnered, Sealable, Older, Holds, InCall, MyD, MyE,
                         is_me, is_updated, is_decrypted
<1> QED BY <1>8, <1>9

LEMMA FlushPopInv ==
    ASSUME TypeOK, CallInv, FlushPop
    PROVE  TypeOK' /\ CallInv'
<1>1. /\ UNCHANGED <<node, lru, index, keyMap, platter, bits, savedBits, call, visit>>
      /\ spsc # <<>> /\ spsc' = Tail(spsc)
      /\ flusher' = [b |-> Head(spsc), decrypt |-> TRUE]
  BY DEF FlushPop, Running, cacheVars, deviceVars
<1>2. spsc \in Seq(Blocks) /\ Len(spsc) <= QueueCap BY DEF TypeOK
<1>3. Head(spsc) \in Blocks /\ Tail(spsc) \in Seq(Blocks) /\ Len(Tail(spsc)) = Len(spsc) - 1
  BY <1>1, <1>2, HeadTailProperties
<1>4. Len(spsc') <= QueueCap BY <1>1, <1>2, <1>3, SNCacheAssumption
<1>5. TypeOK' BY <1>1, <1>3, <1>4 DEF TypeOK
<1>6. flusher'.b \in Blocks BY <1>1, <1>3
<1>7. Linked' /\ Partnered' /\ Sealable'
  BY <1>1 DEF CallInv, Linked, Partnered, Sealable, Older, Holds, MyD, MyE,
              is_me, is_updated, is_decrypted
<1>8. InCall' BY <1>1, <1>6 DEF CallInv, InCall, MyD, MyE, is_me, is_updated
<1> QED BY <1>5, <1>7, <1>8 DEF CallInv

LEMMA FlushAccessInv ==
    ASSUME TypeOK, CallInv, FlushAccess
    PROVE  TypeOK' /\ CallInv'
<1>1. /\ call = NoCall /\ visit = 0 /\ flusher.b \in Blocks
      /\ call' = [NoCall EXCEPT !.pc = "decrypt", !.b = flusher.b,
                              !.decrypt = flusher.decrypt, !.flush = TRUE]
      /\ UNCHANGED <<node, lru, index, keyMap, platter, bits, savedBits, spsc, flusher, visit>>
  BY DEF FlushAccess, Running, cacheVars, deviceVars, CallInv, InCall
<1>2. /\ call' \in Calls
      /\ call'.pc = "decrypt" /\ call'.b \in Blocks /\ ~call'.newD /\ ~call'.newE
  <2>1. PICK b, d : b = flusher.b /\ d = flusher.decrypt OBVIOUS
  <2>2. b \in Blocks /\ d \in BOOLEAN BY <1>1, <2>1 DEF TypeOK
  <2>3. call' = [NoCall EXCEPT !.pc = "decrypt", !.b = b, !.decrypt = d, !.flush = TRUE]
    BY <1>1, <2>1
  <2> QED BY ONLY <2>2, <2>3 DEF NoCall, Calls
<1>3. TypeOK' BY <1>1, <1>2 DEF TypeOK, Calls
<1>4. call.pc = "idle" BY <1>1 DEF NoCall
<1>5. Linked' /\ Partnered' /\ Sealable' BY <1>1, <1>2, <1>4, NodesStay, QuietNodes
<1>6. InCall' BY <1>1, <1>2 DEF CallInv, InCall, Found
<1> QED BY <1>3, <1>5, <1>6 DEF CallInv

-----------------------------------------------------------------------------
(* Steps of an access after it has its nodes.                              *)

LEMMA CallNext ==
    ASSUME TypeOK,
           NEW x \in {"idle", "decrypt", "encrypt", "reset", "load", "open", "act"},
           call' = [call EXCEPT !.pc = x]
    PROVE  /\ call' \in Calls /\ call'.pc = x
           /\ call'.b = call.b /\ call'.decrypt = call.decrypt /\ call'.flush = call.flush
           /\ call'.newD = call.newD /\ call'.newE = call.newE
BY DEF TypeOK, Calls

LEMMA Idle ==
    /\ NoCall \in Calls /\ NoCall.pc = "idle" /\ ~NoCall.newD /\ ~NoCall.newE /\ ~NoCall.decrypt
    /\ NoCall.b = NoBlock
BY DEF NoCall, Calls

LEMMA IdleInCall ==
    ASSUME call' = NoCall, flusher' = NoFlush \/ flusher'.b \in Blocks
    PROVE  InCall'
BY Idle DEF InCall, Found

\* While an access runs the node serves.
LEMMA RunningCall ==
    ASSUME TypeOK, CallInv, visit >= 0, call.pc # "idle"
    PROVE  visit = 0 /\ call.b \in Blocks /\ call # NoCall
<1>1. call # NoCall BY Idle
<1>2. visit \in Int BY CallFacts, NodesFact DEF TypeOK
<1> QED BY <1>1, <1>2 DEF CallInv, InCall

\* The nodes of an access whose C(E) is not new any more.
LEMMA FoundNodes ==
    ASSUME TypeOK, CallInv, call.pc \in {"load", "open", "act"}
    PROVE  /\ call.b \in Blocks /\ ~call.newD /\ ~call.newE
           /\ MyE \in Nodes /\ node[MyE].blk = call.b /\ lru[1] = MyE
           /\ ~is_decrypted(MyE)
           /\ MyD # NoNode => MyD \in Nodes /\ node[MyD].blk = call.b
           /\ call.decrypt => MyD # NoNode
<1>1. /\ call.b \in Blocks /\ ~call.newD /\ ~call.newE
      /\ MyE # NoNode /\ is_me(MyE, call.b) /\ lru[1] = MyE
      /\ MyD = NoNode \/ is_me(MyD, call.b)
      /\ call.decrypt => MyD # NoNode
  BY CallFacts DEF CallInv, InCall, Found
<1>2. MyE \in Nodes /\ MyD \in Nodes \cup {NoNode} BY <1>1, IndexFacts DEF MyE, MyD
<1>3. node[MyE].blk = call.b BY <1>1 DEF is_me
<1>4. ~is_decrypted(MyE)
  <2>1. ASSUME is_decrypted(MyE) PROVE FALSE
    <3>1. index[call.b].encrypt = MyE BY DEF MyE
    <3>2. /\ node[MyE].encrypted # MyE
          /\ index[call.b].encrypt = node[MyE].encrypted
      BY <1>1, <1>2, <1>3, <2>1, <3>1 DEF CallInv, Partnered
    <3> QED BY <3>1, <3>2
  <2> QED BY <2>1
<1> QED BY <1>1, <1>2, <1>3, <1>4 DEF is_me

LEMMA DieInv ==
    ASSUME TypeOK', visit' = -1, call' = NoCall
    PROVE  CInv'
BY DEF CInv

LEMMA LoadInv ==
    ASSUME TypeOK, CallInv, visit >= 0, Load
    PROVE  TypeOK' /\ CallInv'
<1>1. /\ call.pc = "load" /\ call' = [call EXCEPT !.pc = "open"]
      /\ UNCHANGED <<lru, index, keyMap, platter, bits, savedBits, spsc, flusher, visit>>
      /\ node' = IF node[MyE].status = "uninited"
                   THEN [node EXCEPT ![MyE].status = "inited",
                                     ![MyE].data = readblk(node[MyE].blk)]
                   ELSE node
  BY DEF Load, MyE, deviceVars
<1>2. visit = 0 BY <1>1, RunningCall
<1>3. /\ call.b \in Blocks /\ ~call.newD /\ ~call.newE
      /\ MyE \in Nodes /\ node[MyE].blk = call.b /\ lru[1] = MyE
      /\ ~is_decrypted(MyE)
      /\ MyD # NoNode => MyD \in Nodes /\ node[MyD].blk = call.b
      /\ call.decrypt => MyD # NoNode
  BY <1>1, FoundNodes
<1>4. /\ call' \in Calls /\ call'.pc = "open" /\ call'.b = call.b
      /\ call'.decrypt = call.decrypt /\ ~call'.newD /\ ~call'.newE
  BY <1>1, <1>3, CallNext
<1>5. /\ node' \in [Nodes -> Node]
      /\ node'[MyE].status # "uninited"
      /\ \A m \in Nodes :
           /\ node'[m].blk = node[m].blk /\ node'[m].encrypted = node[m].encrypted
           /\ m # MyE => node'[m] = node[m]
  <2>1. PICK e, x : e = MyE /\ x = readblk(node[MyE].blk) OBVIOUS
  <2>2. e \in Nodes /\ x \in Buffer BY <1>3, <2>1, ReadType
  <2>3. node \in [Nodes -> Node] BY DEF TypeOK
  <2>4. node' = node \/ node' = [node EXCEPT ![e].status = "inited", ![e].data = x]
    BY <1>1, <2>1
  <2>5. node' \in [Nodes -> Node]
        /\ \A m \in Nodes :
             /\ node'[m].blk = node[m].blk /\ node'[m].encrypted = node[m].encrypted
             /\ m # e => node'[m] = node[m]
    BY ONLY <2>2, <2>3, <2>4 DEF Node, NodeStatus
  <2>6. node[e].status = "uninited" => node'[e].status = "inited"
    BY <1>1, <2>1, <2>2, <2>3 DEF Node
  <2>7. node[e].status # "uninited" => node' = node BY <1>1, <2>1
  <2> QED BY <2>1, <2>5, <2>6, <2>7
<1>6. TypeOK' BY <1>1, <1>4, <1>5 DEF TypeOK, Calls
<1>7. KeepsNodes
  <2>1. \A m \in Nodes : /\ node[m].blk = NoBlock => node[m].status = "uninited"
                         /\ is_decrypted(m) => (node[m].status # "uninited" => node[m].blk \in keyMap)
    BY DEF CallInv, Linked, Partnered
  <2> QED BY <1>1, <1>3, <1>5, <2>1, SNCacheAssumption DEF KeepsNodes, is_updated
<1>8. Linked' /\ Partnered' /\ Sealable' BY <1>1, <1>4, <1>7, QuietNodes
<1>9. MyE' = MyE /\ MyD' = MyD BY <1>1, <1>4 DEF MyE, MyD
<1>10. InCall'
  BY <1>1, <1>2, <1>3, <1>4, <1>5, <1>9 DEF CallInv, InCall, Found, is_me
<1> QED BY <1>6, <1>8, <1>10 DEF CallInv

\* The end of an access, with or without an exception.
LEMMA EndInv ==
    ASSUME TypeOK, CallInv, visit >= 0, call.pc \in {"load", "open", "act"},
           KeepsNodes, call' = NoCall, UNCHANGED <<lru, index, savedBits, spsc>>,
           node' \in [Nodes -> Node], keyMap' \subseteq Blocks,
           platter' \in [Blocks -> Buffer], bits' \subseteq Blocks,
           visit' \in {visit, -1},
           flusher' \in [b : Blocks \cup {NoBlock}, decrypt : BOOLEAN],
           flusher' = NoFlush \/ flusher'.b \in Blocks
    PROVE  TypeOK' /\ CallInv'
<1>1. visit' \in -1 .. (Len(lru) + 2) BY CallFacts, NodesFact DEF TypeOK
<1>2. TypeOK' BY <1>1, Idle DEF TypeOK, Calls
<1>3. Linked' /\ Partnered' /\ Sealable' BY Idle, QuietNodes
<1>4. InCall' BY IdleInCall
<1> QED BY <1>2, <1>3, <1>4 DEF CallInv

\* What an access that ends leaves of the flusher.
LEMMA FlusherStays ==
    ASSUME TypeOK, CallInv, flusher' = flusher
    PROVE  /\ flusher' \in [b : Blocks \cup {NoBlock}, decrypt : BOOLEAN]
           /\ flusher' = NoFlush \/ flusher'.b \in Blocks
BY DEF TypeOK, CallInv, InCall

LEMMA DeviceStays ==
    ASSUME TypeOK, UNCHANGED <<platter, bits>>
    PROVE  platter' \in [Blocks -> Buffer] /\ bits' \subseteq Blocks
BY DEF TypeOK

LEMMA LoadFailsInv ==
    ASSUME TypeOK, CallInv, visit >= 0, LoadFails
    PROVE  TypeOK' /\ CallInv'
<1>1. /\ call.pc = "load" /\ call' = NoCall /\ visit' \in {visit, -1}
      /\ UNCHANGED <<node, lru, index, keyMap, platter, bits, savedBits, spsc, flusher>>
  BY DEF LoadFails, Throw, cacheVars, deviceVars
<1>2. KeepsNodes BY <1>1, NodesStay
<1>3. node' \in [Nodes -> Node] /\ keyMap' \subseteq Blocks BY <1>1 DEF TypeOK
<1> QED BY <1>1, <1>2, <1>3, FlusherStays, DeviceStays, EndInv

LEMMA ReadInv ==
    ASSUME TypeOK, CallInv, visit >= 0, Read
    PROVE  TypeOK' /\ CallInv'
<1>1. /\ call.pc = "act" /\ call' = NoCall /\ visit' \in {visit, -1}
      /\ UNCHANGED <<node, lru, index, keyMap, platter, bits, savedBits, spsc, flusher>>
  BY DEF Read, cacheVars, deviceVars
<1>2. KeepsNodes BY <1>1, NodesStay
<1>3. node' \in [Nodes -> Node] /\ keyMap' \subseteq Blocks BY <1>1 DEF TypeOK
<1> QED BY <1>1, <1>2, <1>3, FlusherStays, DeviceStays, EndInv

LEMMA TargetNode ==
    ASSUME TypeOK, CallInv, call.pc = "act"
    PROVE  Target \in Nodes /\ node[Target].blk \in Blocks
BY FoundNodes, CallFacts DEF Target, MyD, MyE

LEMMA FlushActFailsInv ==
    ASSUME TypeOK, CallInv, visit >= 0, FlushActFails
    PROVE  TypeOK' /\ CallInv'
<1>1. /\ call.pc = "act" /\ call' = NoCall /\ visit' \in {visit, -1}
      /\ UNCHANGED <<node, lru, index, keyMap, savedBits, spsc, flusher>>
      /\ WriteFails(Target)
  BY DEF FlushActFails, Throw, cacheVars
<1>2. KeepsNodes BY <1>1, NodesStay
<1>3. node' \in [Nodes -> Node] /\ keyMap' \subseteq Blocks BY <1>1 DEF TypeOK
<1>4. platter' \in [Blocks -> Buffer] /\ bits' \subseteq Blocks BY <1>1, TargetNode, TornType
<1> QED BY <1>1, <1>2, <1>3, <1>4, FlusherStays, EndInv

\* What a flush, or no flush, keeps.
LEMMA FlushedOrNot ==
    ASSUME TypeOK, CallInv, NEW n \in Nodes, keyMap' = keyMap,
           IF is_updated(n) THEN Flush(n) ELSE UNCHANGED <<node, platter, bits>>
    PROVE  /\ KeepsNodes
           /\ node' \in [Nodes -> Node]
           /\ platter' \in [Blocks -> Buffer] /\ bits' \subseteq Blocks
           /\ node'[n].status # "updated"
           /\ \A m \in Nodes : node'[m].status = "updated" =>
                \/ is_updated(m)
                \/ is_updated(n) /\ is_decrypted(n) /\ m = node[n].encrypted
<1>1. CASE is_updated(n)
  <2>1. /\ node' \in [Nodes -> Node]
        /\ platter' \in [Blocks -> Buffer] /\ bits' \subseteq Blocks
        /\ node'[n].status = "inited"
        /\ \A m \in Nodes :
                  \/ node'[m].status = node[m].status
                  \/ m = n
                  \/ is_decrypted(n) /\ m = node[n].encrypted /\ node'[m].status = "updated"
    BY <1>1, FlushedNode DEF CallInv
  <2> QED BY <1>1, <2>1, FlushKeepsNodes DEF is_updated
<1>2. CASE ~is_updated(n)
  <2>1. UNCHANGED <<node, platter, bits>> BY <1>2
  <2> QED BY <1>2, <2>1, NodesStay DEF TypeOK, is_updated
<1> QED BY <1>1, <1>2

LEMMA FlushActInv ==
    ASSUME TypeOK, CallInv, visit >= 0, FlushAct
    PROVE  TypeOK' /\ CallInv'
<1>1. /\ call.pc = "act" /\ call' = NoCall /\ visit' \in {visit, -1}
      /\ UNCHANGED <<lru, index, keyMap, savedBits, spsc>>
      /\ IF is_updated(Target) THEN Flush(Target) ELSE UNCHANGED <<node, platter, bits>>
      /\ flusher' = IF call.decrypt THEN [flusher EXCEPT !.decrypt = FALSE] ELSE NoFlush
  BY DEF FlushAct
<1>2. /\ KeepsNodes /\ node' \in [Nodes -> Node]
      /\ platter' \in [Blocks -> Buffer] /\ bits' \subseteq Blocks
  BY <1>1, TargetNode, FlushedOrNot
<1>3. keyMap' \subseteq Blocks BY <1>1 DEF TypeOK
<1>4. /\ flusher' \in [b : Blocks \cup {NoBlock}, decrypt : BOOLEAN]
      /\ flusher' = NoFlush \/ flusher'.b \in Blocks
  <2>1. flusher \in [b : Blocks \cup {NoBlock}, decrypt : BOOLEAN] BY DEF TypeOK
  <2>2. flusher = NoFlush \/ flusher.b \in Blocks BY DEF CallInv, InCall
  <2> QED BY <1>1, <2>1, <2>2 DEF NoFlush
<1> QED BY <1>1, <1>2, <1>3, <1>4, EndInv

\* What filling a C(D) and marking its C(E) clean does to each node.
Opened(d, e, x) ==
    node' = [node EXCEPT ![d].status = "inited", ![d].data = x, ![e].status = "inited"]

LEMMA OpenedNode ==
    ASSUME TypeOK, NEW d \in Nodes, NEW e \in Nodes, NEW x \in Buffer, Opened(d, e, x)
    PROVE  /\ node' \in [Nodes -> Node]
           /\ \A m \in Nodes :
                /\ node'[m].blk = node[m].blk
                /\ node'[m].encrypted = node[m].encrypted
                /\ node'[m].status = IF m \in {d, e} THEN "inited" ELSE node[m].status
                /\ node'[m].data = IF m = d THEN x ELSE node[m].data
<1>1. node \in [Nodes -> Node] BY DEF TypeOK
<1>2. PICK f : f = [node EXCEPT ![d].status = "inited", ![d].data = x] OBVIOUS
<1>3. /\ f \in [Nodes -> Node]
      /\ f[d].blk = node[d].blk /\ f[d].encrypted = node[d].encrypted
      /\ f[d].status = "inited" /\ f[d].data = x
      /\ \A m \in Nodes \ {d} : f[m] = node[m]
  BY ONLY <1>1, <1>2, d \in Nodes, x \in Buffer DEF Node, NodeStatus
<1>4. node' = [f EXCEPT ![e].status = "inited"] BY <1>2 DEF Opened
<1>5. /\ node' \in [Nodes -> Node]
      /\ node'[e].blk = f[e].blk /\ node'[e].encrypted = f[e].encrypted
      /\ node'[e].status = "inited" /\ node'[e].data = f[e].data
      /\ \A m \in Nodes \ {e} : node'[m] = f[m]
  BY ONLY <1>3, <1>4, e \in Nodes DEF Node, NodeStatus
<1> QED BY <1>3, <1>5

LEMMA OpenWritesType ==
    ASSUME TypeOK, NEW e \in Nodes, node[e].blk \in Blocks, OpenWrites(e)
    PROVE  platter' \in [Blocks -> Buffer] /\ bits' \subseteq Blocks
<1>1. node[e].data \in Buffer BY NodeFacts
<1> QED BY <1>1, WrittenOut, DeviceStays DEF OpenWrites

\* The access goes on to its action.
LEMMA ActInv ==
    ASSUME TypeOK, CallInv, visit >= 0, call.pc = "open", call' = [call EXCEPT !.pc = "act"],
           KeepsNodes, node' \in [Nodes -> Node], keyMap' \subseteq Blocks,
           platter' \in [Blocks -> Buffer], bits' \subseteq Blocks,
           UNCHANGED <<lru, index, savedBits, spsc, flusher, visit>>,
           call.decrypt => node'[MyD].status # "uninited"
    PROVE  TypeOK' /\ CallInv'
<1>1. /\ call' \in Calls /\ call'.pc = "act" /\ call'.b = call.b /\ call'.decrypt = call.decrypt
      /\ call'.newD = call.newD /\ call'.newE = call.newE
  BY CallNext
<1>2. /\ call.b \in Blocks /\ ~call.newD /\ ~call.newE
      /\ MyE \in Nodes /\ node[MyE].blk = call.b /\ lru[1] = MyE
      /\ MyD # NoNode => MyD \in Nodes /\ node[MyD].blk = call.b
      /\ call.decrypt => MyD # NoNode
  BY FoundNodes
<1>3. visit = 0 BY RunningCall
<1>4. TypeOK' BY <1>1 DEF TypeOK, Calls
<1>5. Linked' /\ Partnered' /\ Sealable' BY <1>1, <1>2, QuietNodes
<1>6. MyE' = MyE /\ MyD' = MyD BY <1>1 DEF MyE, MyD
<1>7. node'[MyE].status # "uninited" BY <1>2 DEF KeepsNodes, CallInv, InCall
<1>8. /\ node'[MyE].blk = call.b
      /\ MyD # NoNode => node'[MyD].blk = call.b
  BY <1>2 DEF KeepsNodes
<1>9. InCall' BY <1>1, <1>2, <1>3, <1>6, <1>7, <1>8 DEF CallInv, InCall, Found, is_me
<1> QED BY <1>4, <1>5, <1>9 DEF CallInv

LEMMA OpenDInv ==
    ASSUME TypeOK, CallInv, visit >= 0, OpenD
    PROVE  TypeOK' /\ CallInv'
<1>1. /\ call.pc = "open" /\ call.decrypt /\ OpenWrites(MyE)
      /\ node' = [node EXCEPT ![MyD].status = "inited",
                              ![MyD].data = Open(call.b, node[MyE].data),
                              ![MyE].status = "inited"]
      /\ keyMap' = keyMap \cup {call.b}
      /\ call' = [call EXCEPT !.pc = "act"]
      /\ UNCHANGED <<lru, index, savedBits, spsc, flusher, visit>>
  BY DEF OpenD, NeedsOpen, MyD, MyE
<1>2. /\ call.b \in Blocks /\ MyE \in Nodes /\ node[MyE].blk = call.b /\ ~is_decrypted(MyE)
      /\ MyD \in Nodes /\ node[MyD].blk = call.b
  BY <1>1, FoundNodes
<1>3. PICK x : x = Open(call.b, node[MyE].data) OBVIOUS
<1>4. x \in Buffer BY <1>2, <1>3, NodeFacts, SealType
<1>5. /\ node' \in [Nodes -> Node]
      /\ \A m \in Nodes :
           /\ node'[m].blk = node[m].blk
           /\ node'[m].encrypted = node[m].encrypted
           /\ node'[m].status = IF m \in {MyD, MyE} THEN "inited" ELSE node[m].status
  <2>1. Opened(MyD, MyE, x) BY <1>1, <1>3 DEF Opened
  <2> QED BY <1>2, <1>4, <2>1, OpenedNode
<1>6. KeepsNodes
  <2>1. \A m \in Nodes : /\ node[m].blk = NoBlock => node[m].status = "uninited"
                         /\ is_decrypted(m) => (node[m].status # "uninited" => node[m].blk \in keyMap)
    BY DEF CallInv, Linked, Partnered
  <2> QED BY <1>1, <1>2, <1>5, <2>1, SNCacheAssumption DEF KeepsNodes, is_updated
<1>7. platter' \in [Blocks -> Buffer] /\ bits' \subseteq Blocks BY <1>1, <1>2, OpenWritesType
<1>8. keyMap' \subseteq Blocks BY <1>1, <1>2 DEF TypeOK
<1>9. node'[MyD].status # "uninited" BY <1>2, <1>5
<1> QED BY <1>1, <1>5, <1>6, <1>7, <1>8, <1>9, ActInv

LEMMA OpenFailsInv ==
    ASSUME TypeOK, CallInv, visit >= 0, OpenFails
    PROVE  TypeOK' /\ CallInv'
<1>1. /\ call.pc = "open" /\ call' = NoCall /\ visit' \in {visit, -1}
      /\ UNCHANGED <<lru, index, keyMap, savedBits, spsc, flusher>>
      /\ \/ WriteFails(MyE) /\ UNCHANGED node
         \/ /\ OpenWrites(MyE)
            /\ node' = IF is_updated(MyE) THEN [node EXCEPT ![MyE].status = "inited"] ELSE node
  BY DEF OpenFails, Throw, MyE
<1>2. MyE \in Nodes /\ node[MyE].blk \in Blocks /\ ~is_decrypted(MyE) BY <1>1, FoundNodes
<1>3. platter' \in [Blocks -> Buffer] /\ bits' \subseteq Blocks
  BY <1>1, <1>2, TornType, OpenWritesType
<1>4. keyMap' \subseteq Blocks BY <1>1 DEF TypeOK
<1>5. KeepsNodes /\ node' \in [Nodes -> Node]
  <2>1. CASE node' = node BY <2>1, <1>1, NodesStay DEF TypeOK
  <2>2. CASE is_updated(MyE) /\ node' = [node EXCEPT ![MyE].status = "inited"]
    <3>1. "inited" \in NodeStatus BY DEF NodeStatus
    <3>2. /\ node' \in [Nodes -> Node]
          /\ \A m \in Nodes :
               /\ node'[m].blk = node[m].blk
               /\ node'[m].encrypted = node[m].encrypted
               /\ node'[m].status = IF m = MyE THEN "inited" ELSE node[m].status
      BY <1>2, <2>2, <3>1, StatusNode
    <3>3. \A m \in Nodes : /\ node[m].blk = NoBlock => node[m].status = "uninited"
                           /\ is_decrypted(m) => (node[m].status # "uninited" => node[m].blk \in keyMap)
      BY DEF CallInv, Linked, Partnered
    <3> QED BY <1>1, <1>2, <3>2, <3>3, SNCacheAssumption DEF KeepsNodes, is_updated
  <2> QED BY <1>1, <2>1, <2>2
<1> QED BY <1>1, <1>3, <1>4, <1>5, FlusherStays, EndInv

LEMMA SealDInv ==
    ASSUME TypeOK, CallInv, visit >= 0, SealD
    PROVE  TypeOK' /\ CallInv'
<1>1. /\ call.pc = "open" /\ ~NeedsOpen
      /\ node' = IF ~call.decrypt /\ MyD # NoNode /\ is_updated(MyD) THEN SealedInto(MyD) ELSE node
      /\ call' = [call EXCEPT !.pc = "act"]
      /\ UNCHANGED <<lru, index, keyMap, platter, bits, savedBits, spsc, flusher, visit>>
  BY DEF SealD, deviceVars, MyD
<1>2. /\ MyD # NoNode => MyD \in Nodes
      /\ call.decrypt => MyD \in Nodes
  BY <1>1, FoundNodes
<1>3. platter' \in [Blocks -> Buffer] /\ bits' \subseteq Blocks /\ keyMap' \subseteq Blocks
  BY <1>1 DEF TypeOK
<1>4. call.decrypt => node'[MyD].status # "uninited"
  BY <1>1 DEF NeedsOpen, MyD
<1>5. KeepsNodes /\ node' \in [Nodes -> Node]
  <2>1. CASE node' = node BY <2>1, <1>1, NodesStay DEF TypeOK
  <2>2. CASE MyD \in Nodes /\ is_updated(MyD) /\ node' = SealedInto(MyD)
    <3>1. CASE is_decrypted(MyD)
      <4>1. Flush(MyD) BY <1>1, <2>2, <3>1 DEF Flush
      <4> QED BY <1>1, <2>2, <4>1, FlushedOrNot
    <3>2. CASE ~is_decrypted(MyD)
      <4>1. node \in [Nodes -> Node] /\ NoNode \notin Nodes BY NodesFact DEF TypeOK
      <4>2. node[MyD].encrypted = NoNode BY <3>2 DEF is_decrypted
      <4>3. PICK x : x = Seal(node[MyD].blk, node[MyD].data) OBVIOUS
      <4>4. node' = [node EXCEPT ![MyD].status = "inited", ![NoNode].status = "updated",
                                 ![NoNode].data = x]
        BY <2>2, <4>2, <4>3 DEF SealedInto
      <4>5. node' = [node EXCEPT ![MyD].status = "inited"] BY ONLY <4>1, <4>4
      <4>6. "inited" \in NodeStatus BY DEF NodeStatus
      <4>7. /\ node' \in [Nodes -> Node]
            /\ \A m \in Nodes :
                 /\ node'[m].blk = node[m].blk
                 /\ node'[m].encrypted = node[m].encrypted
                 /\ node'[m].status = IF m = MyD THEN "inited" ELSE node[m].status
        BY <2>2, <4>5, <4>6, StatusNode
      <4>8. \A m \in Nodes : /\ node[m].blk = NoBlock => node[m].status = "uninited"
                             /\ is_decrypted(m) => (node[m].status # "uninited" => node[m].blk \in keyMap)
        BY DEF CallInv, Linked, Partnered
      <4> QED BY <1>1, <2>2, <3>2, <4>7, <4>8 DEF KeepsNodes, is_updated
    <3> QED BY <3>1, <3>2
  <2> QED BY <1>1, <1>2, <2>1, <2>2
<1> QED BY <1>1, <1>3, <1>4, <1>5, ActInv

\* A client writes v into cell c of node t.
WroteCell(t, c, v) ==
    node' = [node EXCEPT ![t].data[c] = [key |-> NoBlock, val |-> v], ![t].status = "updated"]

LEMMA WrittenNode ==
    ASSUME TypeOK, NEW t \in Nodes, NEW c \in Cells, NEW v \in Values, WroteCell(t, c, v)
    PROVE  /\ node' \in [Nodes -> Node]
           /\ node'[t].status = "updated"
           /\ node'[t].data = [node[t].data EXCEPT ![c] = [key |-> NoBlock, val |-> v]]
           /\ \A m \in Nodes :
                /\ node'[m].blk = node[m].blk
                /\ node'[m].encrypted = node[m].encrypted
                /\ m # t => node'[m] = node[m]
<1>1. node \in [Nodes -> Node] BY DEF TypeOK
<1>2. PICK x : x = [node[t].data EXCEPT ![c] = [key |-> NoBlock, val |-> v]] OBVIOUS
<1>3. x \in Buffer
  <2>1. [key |-> NoBlock, val |-> v] \in Cell BY DEF Cell
  <2>2. node[t].data \in Buffer BY NodeFacts
  <2> QED BY <1>2, <2>1, <2>2 DEF Buffer
<1>4. node' = [node EXCEPT ![t] = [node[t] EXCEPT !.data = x, !.status = "updated"]]
  BY <1>1, <1>2 DEF WroteCell
<1>5. PICK r : r = [node[t] EXCEPT !.data = x, !.status = "updated"] OBVIOUS
<1>6. r \in Node /\ r.blk = node[t].blk /\ r.encrypted = node[t].encrypted
      /\ r.status = "updated" /\ r.data = x
  BY <1>1, <1>3, <1>5 DEF Node, NodeStatus
<1>7. node' = [node EXCEPT ![t] = r] BY <1>4, <1>5
<1> QED BY <1>1, <1>2, <1>6, <1>7

LEMMA WriteInv ==
    ASSUME TypeOK, CallInv, visit >= 0, NEW c \in Cells, NEW v \in Values, Write(c, v)
    PROVE  TypeOK' /\ CallInv'
<1>1. /\ call.pc = "act" /\ call.decrypt /\ call' = NoCall
      /\ WroteCell(MyD, c, v)
      /\ UNCHANGED <<lru, index, keyMap, platter, bits, savedBits, spsc, flusher, visit>>
  BY DEF Write, Target, MyD, deviceVars, WroteCell
<1>2. /\ call.b \in Blocks /\ ~call.newD /\ ~call.newE
      /\ MyE \in Nodes /\ node[MyE].blk = call.b /\ lru[1] = MyE
      /\ MyD \in Nodes /\ node[MyD].blk = call.b
  BY <1>1, FoundNodes
<1>3. node[MyE].status # "uninited" /\ node[MyD].status # "uninited"
  BY <1>1 DEF CallInv, InCall
<1>4. /\ node' \in [Nodes -> Node]
      /\ node'[MyD].status = "updated"
      /\ \A m \in Nodes :
           /\ node'[m].blk = node[m].blk
           /\ node'[m].encrypted = node[m].encrypted
           /\ m # MyD => node'[m] = node[m]
  BY <1>1, <1>2, WrittenNode
<1>5. TypeOK' BY <1>1, <1>4, Idle DEF TypeOK, Calls
<1>6. \A m \in Nodes : node[m].status # "uninited" => node'[m].status # "uninited" BY <1>4
<1>7. Linked'
  <2>1. node[MyD].blk # NoBlock BY <1>2, SNCacheAssumption
  <2> QED BY <1>1, <1>2, <1>4, <2>1 DEF CallInv, Linked, is_decrypted
<1>8. Partnered'
  <2>1. SUFFICES ASSUME NEW m \in Nodes, is_decrypted(m)
                 PROVE  /\ node'[m].encrypted # m
                        /\ node'[m].status # "uninited" => node[m].blk \in keyMap'
                        /\ \/ index'[node[m].blk].encrypt = node[m].encrypted
                           \/ ~is_me(index[node[m].blk].encrypt, node[m].blk)'
    BY <1>4 DEF Partnered, is_decrypted
  <2>2. /\ node[m].encrypted # m /\ node[m].status # "uninited" => node[m].blk \in keyMap
        /\ \/ index[node[m].blk].encrypt = node[m].encrypted
           \/ ~is_me(index[node[m].blk].encrypt, node[m].blk)
    BY <1>1, <2>1 DEF CallInv, Partnered
  <2>3. node[m].blk \in Blocks BY <2>1, NodeFacts DEF CallInv, Linked
  <2>4. index[node[m].blk].encrypt \in Nodes \cup {NoNode} BY <2>3, IndexFacts
  <2>5. node'[m].status # "uninited" => node[m].status # "uninited" BY <1>3, <1>4
  <2> QED BY <1>1, <1>4, <2>1, <2>2, <2>4, <2>5, <1>2, <1>3 DEF is_me, CallInv, Partnered
<1>9. Sealable'
  <2>1. SUFFICES ASSUME NEW m \in Nodes, is_decrypted(m), node'[m].status = "updated"
                 PROVE  Holds(node[m].encrypted, node[m].blk)' /\ Older(m)'
    BY <1>4 DEF Sealable, is_decrypted, is_updated
  <2>2. /\ Holds(node[m].encrypted, node[m].blk) /\ node[m].encrypted \in Nodes
        /\ Before(lru, node[m].encrypted, m)
    <3>1. CASE m = MyD
      <4>1. index[node[m].blk].encrypt = MyE BY <3>1, <1>2 DEF MyE
      <4>2. node[m].encrypted = MyE /\ node[m].encrypted # m
        BY <1>1, <1>2, <2>1, <3>1, <4>1, NodesFact DEF CallInv, Partnered, is_me
      <4>3. Before(lru, MyE, m) BY <4>2, <1>2, CallFacts, FirstIsBefore
      <4>4. Holds(MyE, node[m].blk) BY <1>2, <1>3, <3>1, NodesFact DEF Holds, is_me
      <4> QED BY <4>2, <4>3, <4>4, <1>2
    <3>2. CASE m # MyD
      <4>1. is_updated(m) BY <1>4, <2>1, <3>2 DEF is_updated
      <4> QED BY <4>1, <2>1, <1>1, DirtyFacts DEF CallInv, Older
    <3> QED BY <3>1, <3>2
  <2>3. Holds(node[m].encrypted, node[m].blk)' BY <2>1, <2>2, <1>4, <1>6 DEF Holds, is_me
  <2>4. Older(m)' BY <2>1, <2>2, <1>1, <1>4, Idle DEF Older
  <2> QED BY <2>3, <2>4
<1>10. InCall' BY <1>1, IdleInCall DEF CallInv, InCall
<1> QED BY <1>5, <1>7, <1>8, <1>9, <1>10 DEF CallInv

-----------------------------------------------------------------------------
(* Steps in which an access finds or takes its nodes.                      *)

LEMMA TouchedFacts ==
    ASSUME TypeOK, CallInv, call.pc = "decrypt"
    PROVE  /\ call.b \in Blocks /\ ~call.newD /\ ~call.newE
           /\ Touched \in Orders
           /\ is_me(MyE, call.b) /\ ~is_decrypted(MyE) => Touched[1] = MyE
           /\ \A m \in Nodes : Anchored(m) => Before(Touched, node[m].encrypted, m)
<1>1. /\ call.b \in Blocks /\ ~call.newD /\ ~call.newE
  BY CallFacts DEF CallInv, InCall
<1>2. MyD \in Nodes \cup {NoNode} /\ MyE \in Nodes \cup {NoNode}
  BY <1>1, IndexFacts DEF MyD, MyE
<1> DEFINE wanted == call.decrypt /\ is_me(MyD, call.b) /\ is_decrypted(MyD)
           first == IF wanted THEN ToFront(lru, MyD) ELSE lru
           kept == is_me(MyE, call.b) /\ ~is_decrypted(MyE)
<1>3. Touched = IF kept THEN ToFront(first, MyE) ELSE first BY DEF Touched, MyD, MyE
<1>4. lru \in Orders /\ wanted => MyD \in Nodes BY <1>2, CallFacts DEF is_me
<1>5. first \in Orders BY <1>4, CallFacts, FrontIsOrder
<1>6. kept => MyE \in Nodes BY <1>2 DEF is_me
<1>7. Touched \in Orders /\ (kept => Touched[1] = MyE) BY <1>3, <1>5, <1>6, FrontIsOrder
<1>8. ASSUME NEW m \in Nodes, Anchored(m)
      PROVE  Before(Touched, node[m].encrypted, m)
  <2>1. /\ Before(lru, node[m].encrypted, m) /\ is_decrypted(m)
        /\ node[m].encrypted \in Nodes /\ node[m].encrypted # m
        /\ ~is_decrypted(node[m].encrypted)
        /\ is_me(node[m].encrypted, node[m].blk)
        /\ index[node[m].blk].encrypt = node[m].encrypted
        /\ index[node[m].blk].decrypt = m
    BY <1>8, PartnerFacts DEF CallInv, Anchored, Older
  <2>2. CASE wanted /\ m = MyD
    <3>1. node[m].blk = call.b BY <2>2 DEF is_me
    <3>2. MyE = node[m].encrypted BY <2>1, <3>1 DEF MyE
    <3>3. kept BY <2>1, <3>1, <3>2
    <3>4. Touched[1] = node[m].encrypted BY <1>7, <3>2, <3>3
    <3> QED BY <1>7, <2>1, <3>4, FirstIsBefore
  <2>3. CASE ~(wanted /\ m = MyD)
    <3>1. Before(first, node[m].encrypted, m) BY <1>4, <2>1, <2>3, CallFacts, FrontKeepsOrder
    <3>2. kept => m # MyE BY <2>1
    <3> HIDE DEF first, kept
    <3> QED BY <1>3, <1>5, <1>6, <3>1, <3>2, FrontKeepsOrder
  <2> QED BY <2>2, <2>3
<1> QED BY <1>1, <1>7, <1>8

\* The index.
Indexes == [Blocks -> [encrypt : Nodes \cup {NoNode}, decrypt : Nodes \cup {NoNode}]]

\* A pointer of the index changes.
NewDecrypt(b, n) == index' = [index EXCEPT ![b].decrypt = n]
NewEncrypt(b, n) == index' = [index EXCEPT ![b].encrypt = n]

LEMMA IndexNext ==
    ASSUME TypeOK, NEW b \in Blocks, NEW n \in Nodes \cup {NoNode}
    PROVE  /\ NewDecrypt(b, n) =>
                /\ index' \in Indexes
                /\ \A c \in Blocks : /\ index'[c].encrypt = index[c].encrypt
                                     /\ index'[c].decrypt = IF c = b THEN n ELSE index[c].decrypt
           /\ NewEncrypt(b, n) =>
                /\ index' \in Indexes
                /\ \A c \in Blocks : /\ index'[c].decrypt = index[c].decrypt
                                     /\ index'[c].encrypt = IF c = b THEN n ELSE index[c].encrypt
<1>1. index \in Indexes BY DEF TypeOK, Indexes
<1> QED BY <1>1 DEF Indexes, NewDecrypt, NewEncrypt

\* A pointer to a C(D) that has not the block any more may change.
LEMMA DecryptChanges ==
    ASSUME TypeOK, CallInv, KeepsNodes, call.pc = "decrypt", call.b \in Blocks,
           NEW n \in Nodes \cup {NoNode}, ~is_me(MyD, call.b),
           NewDecrypt(call.b, n)
    PROVE  Linked' /\ Partnered'
<1>1. \A c \in Blocks : /\ index'[c].encrypt = index[c].encrypt
                        /\ index'[c].decrypt = IF c = call.b THEN n ELSE index[c].decrypt
  BY IndexNext
<1>2. ASSUME NEW m \in Nodes, node[m].blk # NoBlock
      PROVE  IF is_decrypted(m) THEN index'[node[m].blk].decrypt = index[node[m].blk].decrypt
                                ELSE index'[node[m].blk].encrypt = index[node[m].blk].encrypt
  <2>1. node[m].blk \in Blocks BY <1>2, NodeFacts
  <2>2. is_decrypted(m) => node[m].blk # call.b
    BY <1>2, NodesFact DEF CallInv, Linked, is_me, MyD
  <2> QED BY <1>1, <2>1, <2>2
<1>3. Linked' BY <1>2, KeepsLinked DEF CallInv
<1>4. Partnered'
  <2>1. SUFFICES ASSUME NEW m \in Nodes, is_decrypted(m)
                 PROVE  /\ node[m].encrypted # m
                        /\ node'[m].status # "uninited" => node[m].blk \in keyMap'
                        /\ \/ index'[node[m].blk].encrypt = node[m].encrypted
                           \/ ~is_me(index[node[m].blk].encrypt, node[m].blk)'
    BY Zenon DEF Partnered, KeepsNodes, is_decrypted
  <2>2. node[m].blk \in Blocks BY <2>1, NodeFacts DEF CallInv, Linked
  <2>3. /\ node[m].encrypted # m
        /\ \/ index[node[m].blk].encrypt = node[m].encrypted
           \/ ~is_me(index[node[m].blk].encrypt, node[m].blk)
    BY <2>1 DEF CallInv, Partnered
  <2>4. index[node[m].blk].encrypt \in Nodes \cup {NoNode} BY <2>2, IndexFacts
  <2>5. index'[node[m].blk].encrypt = index[node[m].blk].encrypt BY <1>1, <2>2
  <2> QED BY <2>1, <2>3, <2>4, <2>5 DEF KeepsNodes, is_me
<1> QED BY <1>3, <1>4

LEMMA KeepDecryptInv ==
    ASSUME TypeOK, CallInv, visit >= 0, KeepDecrypt
    PROVE  TypeOK' /\ CallInv' /\ AnchorsStay
<1>1. /\ call.pc = "decrypt" /\ call' = [call EXCEPT !.pc = "encrypt"]
      /\ UNCHANGED <<node, keyMap, platter, bits, savedBits, spsc, flusher, visit>>
      /\ \/ /\ ~call.decrypt
            /\ IF is_me(MyD, call.b) THEN index' = index ELSE NewDecrypt(call.b, NoNode)
            /\ lru' = Touched
         \/ /\ call.decrypt /\ is_me(MyD, call.b) /\ lru' = ToFront(Touched, MyD)
            /\ index' = index
  BY DEF KeepDecrypt, MyD, NewDecrypt, deviceVars
<1>2. /\ call.b \in Blocks /\ ~call.newD /\ ~call.newE
      /\ Touched \in Orders
      /\ \A m \in Nodes : Anchored(m) => Before(Touched, node[m].encrypted, m)
  BY <1>1, TouchedFacts
<1>3. visit = 0 BY <1>1, RunningCall
<1>4. /\ call' \in Calls /\ call'.pc = "encrypt" /\ call'.b = call.b
      /\ call'.decrypt = call.decrypt /\ ~call'.newD /\ ~call'.newE
  BY <1>1, <1>2, CallNext
<1>5. MyD \in Nodes \cup {NoNode} BY <1>2, IndexFacts DEF MyD
<1>6. is_me(MyD, call.b) => MyD \in Nodes BY <1>5 DEF is_me
<1>7. lru' \in Orders /\ (call.decrypt => lru'[1] = MyD) BY <1>1, <1>2, <1>6, FrontIsOrder
<1>8. /\ index' \in Indexes
      /\ is_me(MyD, call.b) => MyD' = MyD
      /\ ~is_me(MyD, call.b) => MyD' = NoNode /\ ~call.decrypt
  <2>1. CASE index' = index BY <2>1, <1>1, <1>2, <1>4, IndexNext DEF MyD, TypeOK, Indexes
  <2>2. CASE NewDecrypt(call.b, NoNode) /\ ~is_me(MyD, call.b)
    BY <2>2, <1>1, <1>2, <1>4, IndexNext DEF MyD
  <2> QED BY <1>1, <2>1, <2>2
<1>9. visit' \in -1 .. (Len(lru') + 2) BY <1>1, <1>3, <1>7, OrderFacts, NodesFact
<1>10. TypeOK' BY <1>1, <1>4, <1>7, <1>8, <1>9 DEF TypeOK, Calls, Indexes
<1>11. KeepsNodes BY <1>1, NodesStay
<1>12. Linked' /\ Partnered'
  <2>1. CASE index' = index
    <3>1. Linked' BY <1>11, <2>1, KeepsLinked DEF CallInv
    <3>2. Partnered' BY <1>1, <2>1 DEF CallInv, Partnered, is_decrypted, is_me
    <3> QED BY <3>1, <3>2
  <2>2. CASE NewDecrypt(call.b, NoNode) /\ ~is_me(MyD, call.b)
    BY <2>2, <1>1, <1>2, <1>11, DecryptChanges
  <2> QED BY <1>1, <2>1, <2>2
<1>13. AnchorsStay
  <2>1. ASSUME NEW m \in Nodes, Anchored(m) PROVE Older(m)'
    <3>1. Before(Touched, node[m].encrypted, m) BY <1>2, <2>1
    <3>2. \/ Before(lru', node[m].encrypted, m)
          \/ is_me(MyD, call.b) /\ m = MyD
      BY <1>1, <1>2, <1>6, <3>1, FrontKeepsOrder
    <3>3. m = MyD /\ is_me(MyD, call.b) => node[m].blk = call.b BY DEF is_me
    <3> QED BY <1>1, <1>4, <3>2, <3>3 DEF Older
  <2> QED BY <2>1 DEF AnchorsStay
<1>14. Sealable'
  <2>1. \A m \in Nodes : ~Taken(m)' BY <1>4 DEF Taken
  <2> QED BY <1>11, <1>13, <2>1, AnchoredSealable
<1>15. InCall' BY <1>1, <1>2, <1>3, <1>4, <1>5, <1>7, <1>8 DEF CallInv, InCall, Found, is_me
<1> QED BY <1>10, <1>12, <1>13, <1>14, <1>15 DEF CallInv

\* The oldest node is not of the block of the access, and nobody's partner.
LEMMA OldestTouched ==
    ASSUME TypeOK, CallInv, call.pc = "decrypt", ~is_me(MyD, call.b)
    PROVE  LET n == Oldest(Touched)
           IN  /\ n \in Nodes /\ node[n].blk # call.b
               /\ \A m \in Nodes : Anchored(m) => node[m].encrypted # n
<1> DEFINE n == Oldest(Touched)
<1>1. /\ call.b \in Blocks
      /\ Touched \in Orders
      /\ is_me(MyE, call.b) /\ ~is_decrypted(MyE) => Touched[1] = MyE
      /\ \A m \in Nodes : Anchored(m) => Before(Touched, node[m].encrypted, m)
  BY TouchedFacts
<1>2. n \in Nodes /\ n # Touched[1] /\ \A m : ~Before(Touched, n, m) BY <1>1, OldestFacts
<1> HIDE DEF n
<1>3. ASSUME node[n].blk = call.b PROVE FALSE
  <2>1. node[n].blk # NoBlock BY <1>1, <1>3, SNCacheAssumption
  <2>2. CASE is_decrypted(n)
    <3>1. MyD = n BY <1>2, <1>3, <2>1, <2>2 DEF CallInv, Linked, MyD
    <3> QED BY <3>1, <1>2, <1>3, NodesFact DEF is_me
  <2>3. CASE ~is_decrypted(n)
    <3>1. MyE = n BY <1>2, <1>3, <2>1, <2>3 DEF CallInv, Linked, MyE
    <3>2. is_me(MyE, call.b) /\ ~is_decrypted(MyE) BY <3>1, <2>3, <1>2, <1>3, NodesFact DEF is_me
    <3> QED BY <1>1, <1>2, <3>1, <3>2
  <2> QED BY <2>2, <2>3
<1> QED BY <1>1, <1>2, <1>3 DEF n

LEMMA TakeDecryptInv ==
    ASSUME TypeOK, CallInv, visit >= 0, TakeDecrypt
    PROVE  TypeOK' /\ CallInv' /\ AnchorsStay
<1>1. PICK n : n = Oldest(Touched) OBVIOUS
<1>2. /\ call.pc = "decrypt" /\ call.decrypt /\ ~is_me(MyD, call.b)
      /\ NewDecrypt(call.b, n) /\ lru' = ToFront(Touched, n)
      /\ IF is_updated(n) THEN Flush(n) ELSE UNCHANGED <<node, platter, bits>>
      /\ call' = [call EXCEPT !.pc = "encrypt", !.newD = TRUE]
      /\ UNCHANGED <<keyMap, savedBits, spsc, flusher, visit>>
  BY <1>1 DEF TakeDecrypt, MyD, NewDecrypt
<1>3. /\ call.b \in Blocks /\ ~call.newD /\ ~call.newE
      /\ Touched \in Orders
      /\ \A m \in Nodes : Anchored(m) => Before(Touched, node[m].encrypted, m)
  BY <1>2, TouchedFacts
<1>4. /\ n \in Nodes /\ node[n].blk # call.b
      /\ \A m \in Nodes : Anchored(m) => node[m].encrypted # n
  BY <1>1, <1>2, OldestTouched
<1>5. visit = 0 BY <1>2, RunningCall
<1>6. /\ call' \in Calls /\ call'.pc = "encrypt" /\ call'.b = call.b
      /\ call'.decrypt = call.decrypt /\ call'.newD /\ ~call'.newE
  <2>1. call \in Calls BY DEF TypeOK, Calls
  <2> QED BY ONLY <1>2, <1>3, <2>1 DEF Calls
<1>7. lru' \in Orders /\ lru'[1] = n BY <1>2, <1>3, <1>4, FrontIsOrder
<1>8. /\ index' \in Indexes
      /\ \A c \in Blocks : /\ index'[c].encrypt = index[c].encrypt
                           /\ index'[c].decrypt = IF c = call.b THEN n ELSE index[c].decrypt
  BY <1>2, <1>3, <1>4, IndexNext
<1>9. MyD' = n BY <1>3, <1>6, <1>8 DEF MyD
<1>10. /\ KeepsNodes
       /\ node' \in [Nodes -> Node]
       /\ platter' \in [Blocks -> Buffer] /\ bits' \subseteq Blocks
       /\ node'[n].status # "updated"
  BY <1>2, <1>4, FlushedOrNot
<1>11. visit' \in -1 .. (Len(lru') + 2) BY <1>2, <1>5, <1>7, OrderFacts, NodesFact
<1>12. TypeOK' BY <1>2, <1>6, <1>7, <1>8, <1>10, <1>11 DEF TypeOK, Calls, Indexes
<1>13. Linked' /\ Partnered' BY <1>2, <1>3, <1>4, <1>10, DecryptChanges
<1>14. AnchorsStay
  <2>1. ASSUME NEW m \in Nodes, Anchored(m), m # n PROVE Older(m)'
    <3>1. Before(lru', node[m].encrypted, m) BY <1>2, <1>3, <1>4, <2>1, FrontKeepsOrder
    <3>2. node'[m].encrypted = node[m].encrypted /\ node[m].encrypted # n
      BY <1>4, <1>10, <2>1 DEF KeepsNodes
    <3> QED BY <1>6, <1>9, <3>1, <3>2 DEF Older
  <2>2. Taken(n)' BY <1>6, <1>9 DEF Taken
  <2> QED BY <2>1, <2>2 DEF AnchorsStay
<1>15. Sealable'
  <2>1. \A m \in Nodes : Taken(m)' => m = n BY <1>6, <1>9 DEF Taken
  <2> QED BY <1>10, <1>14, <2>1, AnchoredSealable DEF is_updated
<1>16. InCall'
  <2>1. node'[n].blk # call.b BY <1>4, <1>10 DEF KeepsNodes
  <2> QED BY <1>2, <1>3, <1>4, <1>5, <1>6, <1>7, <1>9, <1>10, <2>1, NodesFact
          DEF CallInv, InCall, Found, is_updated
<1> QED BY <1>12, <1>13, <1>14, <1>15, <1>16 DEF CallInv

LEMMA TakeDecryptFailsInv ==
    ASSUME TypeOK, CallInv, visit >= 0, TakeDecryptFails
    PROVE  TypeOK' /\ CallInv'
<1>1. PICK n : n = Oldest(Touched) OBVIOUS
<1>2. /\ call.pc = "decrypt" /\ call.decrypt /\ ~is_me(MyD, call.b)
      /\ NewDecrypt(call.b, n) /\ lru' = Touched /\ WriteFails(n) /\ is_updated(n)
      /\ call' = NoCall /\ visit' \in {visit, -1}
      /\ UNCHANGED <<node, keyMap, savedBits, spsc, flusher>>
  BY <1>1 DEF TakeDecryptFails, Throw, MyD, NewDecrypt
<1>3. /\ call.b \in Blocks
      /\ Touched \in Orders
      /\ \A m \in Nodes : Anchored(m) => Before(Touched, node[m].encrypted, m)
  BY <1>2, TouchedFacts
<1>4. n \in Nodes BY <1>1, <1>2, OldestTouched
<1>5. visit = 0 BY <1>2, RunningCall
<1>6. index' \in Indexes BY <1>2, <1>3, <1>4, IndexNext
<1>7. node[n].blk \in Blocks BY <1>2, <1>4, DirtyFacts DEF CallInv
<1>8. platter' \in [Blocks -> Buffer] /\ bits' \subseteq Blocks BY <1>2, <1>4, <1>7, TornType
<1>9. visit' \in -1 .. (Len(lru') + 2) BY <1>2, <1>3, <1>5, OrderFacts, NodesFact
<1>10. TypeOK' BY <1>2, <1>3, <1>6, <1>8, <1>9, Idle DEF TypeOK, Calls, Indexes
<1>11. KeepsNodes BY <1>2, NodesStay
<1>12. Linked' /\ Partnered' BY <1>2, <1>3, <1>4, <1>11, DecryptChanges
<1>13. ASSUME NEW m \in Nodes, is_decrypted(m), is_updated(m) PROVE Older(m)'
  BY <1>2, <1>3, <1>13, Idle, DirtyAnchored DEF Older
<1>14. Sealable' BY <1>11, <1>13, KeepsSealable DEF CallInv
<1>15. InCall' BY <1>2, FlusherStays, IdleInCall
<1> QED BY <1>10, <1>12, <1>14, <1>15 DEF CallInv

\* While the access has its C(D) and not yet its C(E).
LEMMA HalfWay ==
    ASSUME TypeOK, CallInv, call.pc = "encrypt"
    PROVE  /\ call.b \in Blocks /\ ~call.newE
           /\ MyD \in Nodes \cup {NoNode} /\ MyE \in Nodes \cup {NoNode}
           /\ \A m \in Nodes : Anchored(m) /\ node[m].blk = call.b =>
                 is_me(MyE, call.b) /\ node[m].encrypted = MyE
           /\ is_me(MyE, call.b) => ~is_decrypted(MyE)
<1>1. call.b \in Blocks /\ ~call.newE BY CallFacts DEF CallInv, InCall
<1>2. MyD \in Nodes \cup {NoNode} /\ MyE \in Nodes \cup {NoNode}
  BY <1>1, IndexFacts DEF MyD, MyE
<1>3. ASSUME NEW m \in Nodes, Anchored(m), node[m].blk = call.b
      PROVE  is_me(MyE, call.b) /\ node[m].encrypted = MyE
  <2>1. /\ index[node[m].blk].encrypt = node[m].encrypted
        /\ is_me(node[m].encrypted, node[m].blk)
    BY <1>3, PartnerFacts DEF CallInv, Anchored
  <2> QED BY <1>3, <2>1 DEF MyE
<1>4. ASSUME is_me(MyE, call.b), is_decrypted(MyE) PROVE FALSE
  <2>1. MyE \in Nodes /\ node[MyE].blk = call.b BY <1>2, <1>4 DEF is_me
  <2>2. index[call.b].encrypt = MyE BY DEF MyE
  <2>3. node[MyE].encrypted # MyE /\ index[call.b].encrypt = node[MyE].encrypted
    BY <1>4, <2>1, <2>2 DEF CallInv, Partnered
  <2> QED BY <2>2, <2>3
<1> QED BY <1>1, <1>2, <1>3, <1>4

LEMMA KeepEncryptInv ==
    ASSUME TypeOK, CallInv, visit >= 0, KeepEncrypt
    PROVE  TypeOK' /\ CallInv' /\ AnchorsStay
<1>1. /\ call.pc = "encrypt" /\ is_me(MyE, call.b) /\ lru' = ToFront(lru, MyE)
      /\ call' = [call EXCEPT !.pc = "reset"]
      /\ UNCHANGED <<node, index, keyMap, platter, bits, savedBits, spsc, flusher, visit>>
  BY DEF KeepEncrypt, MyE, deviceVars
<1>2. /\ call.b \in Blocks /\ ~call.newE
      /\ \A m \in Nodes : Anchored(m) /\ node[m].blk = call.b =>
            node[m].encrypted = MyE
      /\ MyE \in Nodes /\ ~is_decrypted(MyE)
  BY <1>1, HalfWay DEF is_me
<1>3. visit = 0 BY <1>1, RunningCall
<1>4. /\ call' \in Calls /\ call'.pc = "reset" /\ call'.b = call.b
      /\ call'.decrypt = call.decrypt /\ call'.newD = call.newD /\ ~call'.newE
  BY <1>1, <1>2, CallNext
<1>5. lru' \in Orders /\ lru'[1] = MyE BY <1>1, <1>2, CallFacts, FrontIsOrder
<1>6. visit' \in -1 .. (Len(lru') + 2) BY <1>1, <1>3, <1>5, OrderFacts, NodesFact
<1>7. TypeOK' BY <1>1, <1>4, <1>5, <1>6 DEF TypeOK, Calls
<1>8. KeepsNodes BY <1>1, NodesStay
<1>9. Linked' /\ Partnered'
  <2>1. Linked' BY <1>1, <1>8, KeepsLinked DEF CallInv
  <2>2. Partnered' BY <1>1 DEF CallInv, Partnered, is_decrypted, is_me
  <2> QED BY <2>1, <2>2
<1>10. MyD' = MyD /\ MyE' = MyE BY <1>1, <1>4 DEF MyD, MyE
<1>11. AnchorsStay
  <2>1. ASSUME NEW m \in Nodes, Anchored(m) PROVE Older(m)'
    <3>1. Older(m) /\ m # MyE BY <1>2, <2>1 DEF Anchored
    <3>2. Before(lru', node[m].encrypted, m)
      <4>1. CASE node[m].blk = call.b
        BY <1>2, <1>5, <2>1, <3>1, <4>1, FirstIsBefore
      <4>2. CASE node[m].blk # call.b
        BY <1>1, <1>2, <3>1, <4>2, CallFacts, FrontKeepsOrder DEF Older
      <4> QED BY <4>1, <4>2
    <3> QED BY <1>1, <1>4, <1>10, <3>1, <3>2 DEF Older
  <2> QED BY <2>1 DEF AnchorsStay
<1>12. Sealable'
  <2>1. \A m \in Nodes : Taken(m)' => call.newD /\ m = MyD BY <1>4, <1>10 DEF Taken
  <2>2. call.newD => node'[MyD].status # "updated" BY <1>1 DEF CallInv, InCall, is_updated
  <2> QED BY <1>8, <1>11, <2>1, <2>2, AnchoredSealable DEF is_updated
<1>13. InCall'
  BY <1>1, <1>2, <1>3, <1>4, <1>5, <1>10, NodesFact DEF CallInv, InCall, Found, is_me, is_updated
<1> QED BY <1>7, <1>9, <1>11, <1>12, <1>13 DEF CallInv

\* A pointer to a C(E) that has not the block any more may change.
LEMMA EncryptChanges ==
    ASSUME TypeOK, CallInv, KeepsNodes, call.pc = "encrypt", NEW n \in Nodes,
           ~is_me(MyE, call.b), NewEncrypt(call.b, n),
           \/ call'.pc = "reset" /\ call'.newE /\ call'.b = call.b
           \/ node[n].blk # call.b
    PROVE  Linked' /\ Partnered'
<1>0. call.b \in Blocks BY HalfWay
<1>1. \A c \in Blocks : /\ index'[c].decrypt = index[c].decrypt
                        /\ index'[c].encrypt = IF c = call.b THEN n ELSE index[c].encrypt
  BY <1>0, IndexNext
<1>2. ASSUME NEW m \in Nodes, node[m].blk # NoBlock
      PROVE  IF is_decrypted(m) THEN index'[node[m].blk].decrypt = index[node[m].blk].decrypt
                                ELSE index'[node[m].blk].encrypt = index[node[m].blk].encrypt
  <2>1. node[m].blk \in Blocks BY <1>2, NodeFacts
  <2>2. ~is_decrypted(m) => node[m].blk # call.b
    BY <1>2, NodesFact DEF CallInv, Linked, is_me, MyE
  <2> QED BY <1>1, <2>1, <2>2
<1>3. Linked' BY <1>2, KeepsLinked DEF CallInv
<1>4. Partnered'
  <2>1. SUFFICES ASSUME NEW m \in Nodes, is_decrypted(m)
                 PROVE  /\ node[m].encrypted # m
                        /\ node'[m].status # "uninited" => node[m].blk \in keyMap'
                        /\ \/ index'[node[m].blk].encrypt = node[m].encrypted
                           \/ ~is_me(index[node[m].blk].encrypt, node[m].blk)'
                           \/ call'.pc = "reset" /\ call'.newE /\ call'.b = node[m].blk
    BY Zenon DEF Partnered, KeepsNodes, is_decrypted
  <2>2. node[m].blk \in Blocks BY <2>1, NodeFacts DEF CallInv, Linked
  <2>3. /\ node[m].encrypted # m
        /\ \/ index[node[m].blk].encrypt = node[m].encrypted
           \/ ~is_me(index[node[m].blk].encrypt, node[m].blk)
    BY <2>1 DEF CallInv, Partnered
  <2>4. index[node[m].blk].encrypt \in Nodes \cup {NoNode} BY <2>2, IndexFacts
  <2>5. node'[n].blk = node[n].blk BY DEF KeepsNodes
  <2> QED BY <1>1, <2>1, <2>2, <2>3, <2>4, <2>5 DEF KeepsNodes, is_me
<1> QED BY <1>3, <1>4

\* The oldest node is nobody's partner, nor the C(D) of the access.
LEMMA OldestHalfWay ==
    ASSUME TypeOK, CallInv, call.pc = "encrypt", ~is_me(MyE, call.b)
    PROVE  /\ Oldest(lru) \in Nodes
           /\ call.decrypt => MyD # Oldest(lru)
           /\ \A m \in Nodes : Anchored(m) =>
                 /\ Before(lru, node[m].encrypted, m) /\ node[m].encrypted # Oldest(lru)
                 /\ node[m].blk # call.b
<1>1. /\ Oldest(lru) \in Nodes /\ Oldest(lru) # lru[1]
      /\ \A m : ~Before(lru, Oldest(lru), m)
  BY CallFacts, OldestFacts
<1>2. call.decrypt => lru[1] = MyD BY DEF CallInv, InCall
<1>3. ASSUME NEW m \in Nodes, Anchored(m)
      PROVE  /\ Before(lru, node[m].encrypted, m) /\ node[m].encrypted # Oldest(lru)
             /\ node[m].blk # call.b
  <2>1. Older(m) BY <1>3 DEF Anchored
  <2>2. node[m].blk # call.b BY <1>3, HalfWay
  <2>3. Before(lru, node[m].encrypted, m) BY <2>1, <2>2 DEF Older
  <2> QED BY <1>1, <2>2, <2>3
<1> QED BY <1>1, <1>2, <1>3

LEMMA TakeEncryptInv ==
    ASSUME TypeOK, CallInv, visit >= 0, TakeEncrypt
    PROVE  TypeOK' /\ CallInv' /\ AnchorsStay
<1>1. PICK n : n = Oldest(lru) OBVIOUS
<1>2. /\ call.pc = "encrypt" /\ ~is_me(MyE, call.b)
      /\ NewEncrypt(call.b, n) /\ lru' = ToFront(lru, n)
      /\ IF is_updated(n) THEN Flush(n) ELSE UNCHANGED <<node, platter, bits>>
      /\ call' = [call EXCEPT !.pc = "reset", !.newE = TRUE]
      /\ UNCHANGED <<keyMap, savedBits, spsc, flusher, visit>>
  BY <1>1 DEF TakeEncrypt, MyE, NewEncrypt
<1>3. /\ call.b \in Blocks /\ ~call.newE /\ MyD \in Nodes \cup {NoNode}
  BY <1>2, HalfWay
<1>4. /\ n \in Nodes /\ (call.decrypt => MyD # n)
      /\ \A m \in Nodes : Anchored(m) =>
           Before(lru, node[m].encrypted, m) /\ node[m].encrypted # n
  BY <1>1, <1>2, OldestHalfWay
<1>5. visit = 0 BY <1>2, RunningCall
<1>6. /\ call' \in Calls /\ call'.pc = "reset" /\ call'.b = call.b
      /\ call'.decrypt = call.decrypt /\ call'.newD = call.newD /\ call'.newE
  <2>1. call \in Calls BY DEF TypeOK, Calls
  <2> QED BY ONLY <1>2, <1>3, <2>1 DEF Calls
<1>7. lru' \in Orders /\ lru'[1] = n BY <1>2, <1>4, CallFacts, FrontIsOrder
<1>8. /\ index' \in Indexes
      /\ \A c \in Blocks : /\ index'[c].decrypt = index[c].decrypt
                           /\ index'[c].encrypt = IF c = call.b THEN n ELSE index[c].encrypt
  BY <1>2, <1>3, <1>4, IndexNext
<1>9. MyD' = MyD /\ MyE' = n BY <1>3, <1>6, <1>8 DEF MyD, MyE
<1>10. /\ KeepsNodes
       /\ node' \in [Nodes -> Node]
       /\ platter' \in [Blocks -> Buffer] /\ bits' \subseteq Blocks
       /\ node'[n].status # "updated"
       /\ \A m \in Nodes : node'[m].status = "updated" =>
                \/ is_updated(m)
                \/ is_updated(n) /\ is_decrypted(n) /\ m = node[n].encrypted
  BY <1>2, <1>4, FlushedOrNot
<1>11. visit' \in -1 .. (Len(lru') + 2) BY <1>2, <1>5, <1>7, OrderFacts, NodesFact
<1>12. TypeOK' BY <1>2, <1>6, <1>7, <1>8, <1>10, <1>11 DEF TypeOK, Calls, Indexes
<1>13. Linked' /\ Partnered' BY <1>2, <1>4, <1>6, <1>10, EncryptChanges
<1>14. ASSUME NEW m \in Nodes, Anchored(m) PROVE call.newD => node[m].encrypted # MyD
  BY <1>14 DEF Anchored, Older
<1>15. AnchorsStay
  <2>1. ASSUME NEW m \in Nodes, Anchored(m), m # n PROVE Older(m)'
    <3>1. Before(lru', node[m].encrypted, m)
      BY <1>2, <1>4, <2>1, CallFacts, FrontKeepsOrder
    <3>2. node'[m].encrypted = node[m].encrypted BY <2>1, <1>10 DEF KeepsNodes
    <3> QED BY <1>4, <1>6, <1>9, <1>14, <2>1, <3>1, <3>2 DEF Older
  <2>2. Taken(n)' BY <1>6, <1>9 DEF Taken
  <2> QED BY <2>1, <2>2 DEF AnchorsStay
<1>16. call.newD => MyD \in Nodes /\ ~is_updated(MyD) /\ node[MyD].blk # call.b /\ call.decrypt
  BY <1>2, <1>3, NodesFact DEF CallInv, InCall
<1>17. call.newD => node'[MyD].status # "updated"
  <2>1. is_updated(n) /\ is_decrypted(n) => Anchored(n) BY <1>4, DirtyAnchored
  <2> QED BY <1>4, <1>10, <1>14, <1>16, <2>1
<1>18. Sealable'
  <2>1. \A m \in Nodes : Taken(m)' => m = n \/ (call.newD /\ m = MyD) BY <1>6, <1>9 DEF Taken
  <2> QED BY <1>10, <1>15, <1>17, <2>1, AnchoredSealable DEF is_updated
<1>19. InCall'
  <2>1. \A m \in Nodes : node'[m].blk = node[m].blk BY <1>10 DEF KeepsNodes
  <2>2. MyD = NoNode \/ call.newD \/ is_me(MyD, call.b) BY <1>2 DEF CallInv, InCall
  <2>3. MyD = NoNode => ~call.decrypt BY <1>2 DEF CallInv, InCall
  <2>4. MyD # NoNode => MyD \in Nodes BY <1>3
  <2>5. n # NoNode BY <1>4, NodesFact
  <2> QED BY <1>2, <1>3, <1>4, <1>5, <1>6, <1>7, <1>9, <1>10, <1>16, <1>17, <2>1, <2>2, <2>3, <2>4, <2>5
          DEF CallInv, InCall, Found, is_updated, is_me
<1> QED BY <1>12, <1>13, <1>15, <1>18, <1>19 DEF CallInv

LEMMA TakeEncryptFailsInv ==
    ASSUME TypeOK, CallInv, visit >= 0, TakeEncryptFails
    PROVE  TypeOK' /\ CallInv'
<1>1. PICK n : n = Oldest(lru) OBVIOUS
<1>2. /\ call.pc = "encrypt" /\ ~is_me(MyE, call.b)
      /\ NewEncrypt(call.b, n) /\ WriteFails(n) /\ is_updated(n) /\ ~is_decrypted(n)
      /\ call' = NoCall /\ visit' \in {visit, -1}
      /\ UNCHANGED <<node, lru, keyMap, savedBits, spsc, flusher>>
  BY <1>1 DEF TakeEncryptFails, Throw, MyE, NewEncrypt
<1>3. call.b \in Blocks BY <1>2, HalfWay
<1>4. /\ n \in Nodes
      /\ \A m \in Nodes : Anchored(m) => Before(lru, node[m].encrypted, m)
  BY <1>1, <1>2, OldestHalfWay
<1>5. visit = 0 BY <1>2, RunningCall
<1>6. index' \in Indexes BY <1>2, <1>3, <1>4, IndexNext
<1>7. node[n].blk \in Blocks BY <1>2, <1>4, DirtyFacts DEF CallInv
<1>8. platter' \in [Blocks -> Buffer] /\ bits' \subseteq Blocks BY <1>2, <1>4, <1>7, TornType
<1>9. visit' \in -1 .. (Len(lru') + 2) BY <1>2, <1>5, CallFacts, NodesFact
<1>10. TypeOK' BY <1>2, <1>6, <1>8, <1>9, Idle DEF TypeOK, Calls, Indexes
<1>11. KeepsNodes BY <1>2, NodesStay
<1>12. node[n].blk # call.b
  <2>1. ASSUME node[n].blk = call.b PROVE FALSE
    <3>1. MyE = n BY <1>2, <1>3, <1>4, <2>1, SNCacheAssumption DEF CallInv, Linked, MyE
    <3> QED BY <1>2, <1>4, <2>1, <3>1, NodesFact DEF is_me
  <2> QED BY <2>1
<1>13. Linked' /\ Partnered' BY <1>2, <1>4, <1>11, <1>12, EncryptChanges
<1>14. ASSUME NEW m \in Nodes, is_decrypted(m), is_updated(m) PROVE Older(m)'
  BY <1>2, <1>4, <1>14, Idle, DirtyAnchored DEF Older
<1>15. Sealable' BY <1>11, <1>14, KeepsSealable DEF CallInv
<1>16. InCall' BY <1>2, FlusherStays, IdleInCall
<1> QED BY <1>10, <1>13, <1>15, <1>16 DEF CallInv

\* What reset_index does to one node.
LEMMA ResetType ==
    ASSUME NEW nd \in [Nodes -> Node], NEW n \in Nodes, NEW b \in Blocks,
           NEW e \in Nodes \cup {NoNode}
    PROVE  /\ ResetNode(nd, n, b, e) \in [Nodes -> Node]
           /\ \A m \in Nodes : m # n => ResetNode(nd, n, b, e)[m] = nd[m]
           /\ ResetNode(nd, n, b, e)[n].blk = b
           /\ ResetNode(nd, n, b, e)[n].status = "uninited"
           /\ ResetNode(nd, n, b, e)[n].encrypted = e
           /\ ResetNode(nd, n, b, e)[n].data = nd[n].data
<1>1. PICK r : r = [nd[n] EXCEPT !.blk = b, !.status = "uninited", !.encrypted = e] OBVIOUS
<1>2. nd[n] \in Node OBVIOUS
<1>3. /\ r \in Node /\ r.blk = b /\ r.status = "uninited" /\ r.encrypted = e
      /\ r.data = nd[n].data
  BY ONLY <1>1, <1>2, b \in Blocks, e \in Nodes \cup {NoNode} DEF Node, NodeStatus
<1>4. ResetNode(nd, n, b, e) = [nd EXCEPT ![n] = r] BY <1>1 DEF ResetNode
<1> QED BY <1>3, <1>4

\* The nodes that start over, and what becomes of each node.
ResetsD == (call.newD \/ call.newE) /\ MyD # NoNode

LEMMA ResetNodes ==
    ASSUME TypeOK, CallInv, Reset
    PROVE  /\ call.b \in Blocks /\ MyE \in Nodes /\ MyD \in Nodes \cup {NoNode}
           /\ node' \in [Nodes -> Node]
           /\ ResetsD /\ ~call.newE => MyD # MyE
           /\ \A m \in Nodes :
                /\ node'[m].data = node[m].data
                /\ IF call.newE /\ m = MyE
                   THEN /\ node'[m].blk = call.b /\ node'[m].status = "uninited"
                        /\ node'[m].encrypted = NoNode
                   ELSE IF ResetsD /\ m = MyD
                   THEN /\ node'[m].blk = call.b /\ node'[m].status = "uninited"
                        /\ node'[m].encrypted = MyE
                   ELSE node'[m] = node[m]
<1>1. PICK d, e : d = MyD /\ e = MyE OBVIOUS
<1>2. PICK first : first = IF ResetsD THEN ResetNode(node, d, call.b, e) ELSE node OBVIOUS
<1>3. call.pc = "reset" /\ node' = IF call.newE THEN ResetNode(first, e, call.b, NoNode) ELSE first
  BY <1>1, <1>2 DEF Reset, ResetsD, MyD, MyE
<1>4. call.b \in Blocks BY <1>3 DEF CallInv, InCall
<1>5. e \in Nodes /\ d \in Nodes \cup {NoNode}
  BY <1>1, <1>3, <1>4, IndexFacts DEF MyD, MyE, CallInv, InCall, Found
<1>6. ResetsD => d \in Nodes BY <1>1, <1>5 DEF ResetsD
<1>7. node \in [Nodes -> Node] BY DEF TypeOK
<1>8. /\ first \in [Nodes -> Node]
      /\ \A m \in Nodes :
           /\ first[m].data = node[m].data
           /\ IF ResetsD /\ m = d
              THEN /\ first[m].blk = call.b /\ first[m].status = "uninited"
                   /\ first[m].encrypted = e
              ELSE first[m] = node[m]
  BY <1>2, <1>4, <1>5, <1>6, <1>7, ResetType
<1>9. CASE call.newE
  <2>1. node' = ResetNode(first, e, call.b, NoNode) BY <1>3, <1>9
  <2>2. /\ node' \in [Nodes -> Node]
        /\ \A m \in Nodes : m # e => node'[m] = first[m]
        /\ node'[e].blk = call.b /\ node'[e].status = "uninited"
        /\ node'[e].encrypted = NoNode /\ node'[e].data = first[e].data
    BY <1>4, <1>5, <1>8, <2>1, ResetType
  <2> QED BY <1>1, <1>4, <1>5, <1>8, <1>9, <2>2
<1>10. CASE ~call.newE
  <2>1. ResetsD => d # e
    BY <1>1, <1>3, <1>5, <1>10 DEF ResetsD, CallInv, InCall, Found, is_me
  <2> QED BY <1>1, <1>3, <1>4, <1>5, <1>8, <1>10, <2>1
<1> QED BY <1>9, <1>10

LEMMA ResetInv ==
    ASSUME TypeOK, CallInv, visit >= 0, Reset
    PROVE  TypeOK' /\ CallInv'
<1>1. /\ call.pc = "reset"
      /\ call' = [call EXCEPT !.pc = "load", !.newD = FALSE, !.newE = FALSE]
      /\ UNCHANGED <<lru, index, keyMap, platter, bits, savedBits, spsc, flusher, visit>>
  BY DEF Reset, deviceVars
<1>2. /\ call.b \in Blocks /\ MyE \in Nodes /\ MyD \in Nodes \cup {NoNode}
      /\ node' \in [Nodes -> Node]
      /\ ResetsD /\ ~call.newE => MyD # MyE
  BY ResetNodes
<1>3. ASSUME NEW m \in Nodes
      PROVE  IF call.newE /\ m = MyE
             THEN /\ node'[m].blk = call.b /\ node'[m].status = "uninited"
                  /\ node'[m].encrypted = NoNode
             ELSE IF ResetsD /\ m = MyD
             THEN /\ node'[m].blk = call.b /\ node'[m].status = "uninited"
                  /\ node'[m].encrypted = MyE
             ELSE node'[m] = node[m]
  BY ResetNodes
<1>4. visit = 0 BY <1>1, RunningCall
<1>5. /\ call' \in Calls /\ call'.pc = "load" /\ call'.b = call.b
      /\ call'.decrypt = call.decrypt /\ ~call'.newD /\ ~call'.newE
  <2>1. call \in Calls BY DEF TypeOK, Calls
  <2> QED BY ONLY <1>1, <2>1 DEF Calls
<1>6. TypeOK' BY <1>1, <1>2, <1>5 DEF TypeOK, Calls
<1>7. MyD' = MyD /\ MyE' = MyE BY <1>1, <1>5 DEF MyD, MyE
<1>8. MyD = NoNode \/ call.newD \/ is_me(MyD, call.b) BY <1>1 DEF CallInv, InCall, Found
<1>9. call.newE \/ is_me(MyE, call.b) BY <1>1 DEF CallInv, InCall, Found
<1>10. call.b # NoBlock /\ NoNode \notin Nodes BY <1>2, SNCacheAssumption
<1>11. Linked'
  <2>1. SUFFICES ASSUME NEW m \in Nodes
                 PROVE  /\ node'[m].blk = NoBlock => node'[m].status = "uninited" /\ ~is_decrypted(m)'
                        /\ node'[m].blk # NoBlock =>
                             IF is_decrypted(m)' THEN index'[node'[m].blk].decrypt = m
                                                 ELSE index'[node'[m].blk].encrypt = m
    BY Zenon DEF Linked
  <2>2. CASE call.newE /\ m = MyE
    BY <1>1, <1>3, <1>10, <2>2 DEF is_decrypted, MyE
  <2>3. CASE ~(call.newE /\ m = MyE) /\ ResetsD /\ m = MyD
    BY <1>1, <1>2, <1>3, <1>10, <2>3 DEF is_decrypted, MyD
  <2>4. CASE ~(call.newE /\ m = MyE) /\ ~(ResetsD /\ m = MyD)
    BY <1>1, <1>3, <2>4 DEF is_decrypted, CallInv, Linked
  <2> QED BY <2>2, <2>3, <2>4
<1>12. Partnered'
  <2>1. SUFFICES ASSUME NEW m \in Nodes, is_decrypted(m)'
                 PROVE  /\ node'[m].encrypted # m
                        /\ node'[m].status # "uninited" => node'[m].blk \in keyMap'
                        /\ \/ index'[node'[m].blk].encrypt = node'[m].encrypted
                           \/ ~is_me(index[node[m].blk].encrypt, node[m].blk)'
    BY Zenon DEF Partnered
  <2>2. ~(call.newE /\ m = MyE) BY <1>3, <2>1 DEF is_decrypted
  <2>3. CASE ResetsD /\ m = MyD
    <3>1. node'[m].blk = call.b /\ node'[m].status = "uninited" /\ node'[m].encrypted = MyE
      BY <1>3, <2>2, <2>3
    <3> QED BY <1>1, <1>2, <2>2, <2>3, <3>1 DEF MyE
  <2>4. CASE ~(ResetsD /\ m = MyD)
    <3>1. node'[m] = node[m] BY <1>3, <2>2, <2>4
    <3>2. is_decrypted(m) BY <2>1, <3>1 DEF is_decrypted
    <3>3. node[m].blk \in Blocks BY <3>2, NodeFacts DEF CallInv, Linked
    <3>4. /\ node[m].encrypted # m
          /\ node[m].status # "uninited" => node[m].blk \in keyMap
          /\ \/ index[node[m].blk].encrypt = node[m].encrypted
             \/ ~is_me(index[node[m].blk].encrypt, node[m].blk)
             \/ call.newE /\ call.b = node[m].blk
      BY <3>2 DEF CallInv, Partnered
    <3>5. node[m].blk = call.b => m = MyD
      BY <1>10, <3>2 DEF CallInv, Linked, MyD
    <3>6. node[m].blk = call.b => ~call.newE /\ ~call.newD
      BY <1>10, <2>4, <3>5 DEF ResetsD
    <3>7. PICK x : x = index[node[m].blk].encrypt OBVIOUS
    <3>8. x \in Nodes \cup {NoNode} BY <3>3, <3>7, IndexFacts
    <3>9. x \in Nodes => node'[x].blk \in {node[x].blk, call.b} BY <1>3
    <3>10. CASE x = node[m].encrypted BY <1>1, <3>1, <3>4, <3>7, <3>10
    <3>11. CASE ~is_me(x, node[m].blk)
      <4>1. CASE node[m].blk # call.b
        BY <1>1, <3>1, <3>4, <3>7, <3>8, <3>9, <3>11, <4>1 DEF is_me
      <4>2. CASE node[m].blk = call.b
        <5>1. x \in Nodes => node'[x] = node[x] BY <1>3, <3>6, <4>2 DEF ResetsD
        <5> QED BY <1>1, <3>1, <3>4, <3>7, <3>8, <3>11, <5>1 DEF is_me
      <4> QED BY <4>1, <4>2
    <3> QED BY <3>4, <3>6, <3>7, <3>10, <3>11
  <2> QED BY <2>3, <2>4
<1>13. Sealable'
  <2>1. SUFFICES ASSUME NEW m \in Nodes, is_decrypted(m)', is_updated(m)'
                 PROVE  Holds(node[m].encrypted, node[m].blk)' /\ Older(m)'
    BY DEF Sealable
  <2>2. ~(call.newE /\ m = MyE) /\ ~(ResetsD /\ m = MyD) BY <1>3, <2>1 DEF is_updated
  <2>3. node'[m] = node[m] BY <1>3, <2>2
  <2>4. is_decrypted(m) /\ is_updated(m) BY <2>1, <2>3 DEF is_decrypted, is_updated
  <2>5. PICK p : p = node[m].encrypted OBVIOUS
  <2>6. /\ p \in Nodes /\ ~is_decrypted(p) /\ Holds(p, node[m].blk) /\ Older(m)
        /\ index[node[m].blk].decrypt = m
    BY <2>4, <2>5, DirtyFacts DEF CallInv
  <2>7. Before(lru, p, m) /\ ~(call.newD /\ p = MyD) /\ ~(call.newE /\ p = MyE)
    BY <1>1, <2>5, <2>6 DEF Older
  <2>8. ~(ResetsD /\ p = MyD)
    <3>1. ASSUME ResetsD, p = MyD PROVE FALSE
      <4>1. is_me(p, call.b) BY <1>8, <2>7, <3>1 DEF ResetsD
      <4>2. node[m].blk = call.b BY <2>6, <4>1 DEF Holds, is_me
      <4>3. MyD = m BY <2>6, <4>2 DEF MyD
      <4> QED BY <2>2, <3>1, <4>3
    <3> QED BY <3>1
  <2>9. node'[p] = node[p] BY <1>3, <2>6, <2>7, <2>8
  <2>10. Holds(node[m].encrypted, node[m].blk)' BY <2>3, <2>5, <2>6, <2>9 DEF Holds, is_me
  <2>11. Older(m)' BY <1>1, <1>5, <2>3, <2>5, <2>7 DEF Older
  <2> QED BY <2>10, <2>11
<1>14. InCall'
  <2>1. is_me(MyE, call.b)' BY <1>2, <1>3, <1>5, <1>7, <1>9, <1>10 DEF is_me
  <2>2. MyD = NoNode \/ is_me(MyD, call.b)'
    <3>1. CASE MyD # NoNode /\ ResetsD BY <1>2, <1>3, <1>5, <1>7, <3>1 DEF is_me
    <3>2. CASE MyD # NoNode /\ ~ResetsD
      <4>1. ~call.newD /\ ~call.newE BY <3>2 DEF ResetsD
      <4>2. node'[MyD] = node[MyD] /\ is_me(MyD, call.b) BY <1>2, <1>3, <1>8, <3>2, <4>1
      <4> QED BY <1>5, <1>7, <4>2 DEF is_me
    <3> QED BY <3>1, <3>2
  <2>3. /\ call'.b \in Blocks /\ flusher' = flusher /\ lru'[1] = MyE' /\ MyE' # NoNode
        /\ (MyD' = NoNode => ~call'.decrypt) /\ visit' = 0
    BY <1>1, <1>2, <1>4, <1>5, <1>7, <1>10 DEF CallInv, InCall, Found
  <2>4. (flusher = NoFlush \/ flusher.b \in Blocks)' BY <2>3 DEF CallInv, InCall
  <2> QED BY <1>5, <1>7, <2>1, <2>2, <2>3, <2>4 DEF InCall, Found
<1> QED BY <1>6, <1>11, <1>12, <1>13, <1>14 DEF CallInv

-----------------------------------------------------------------------------
(* The end of the process and its start.                                   *)

LEMMA CrashInv ==
    ASSUME TypeOK, Crash
    PROVE  CInv'
<1>1. /\ call' = NoCall /\ visit' = -1
      /\ UNCHANGED <<node, lru, index, keyMap, platter, bits, savedBits, spsc, flusher>>
  BY DEF Crash, cacheVars, deviceVars
<1>2. visit' \in -1 .. (Len(lru') + 2) BY <1>1, CallFacts, NodesFact
<1>3. TypeOK' BY <1>1, <1>2, Idle DEF TypeOK, Calls
<1> QED BY <1>1, <1>3, DieInv

\* A process that has just started.
LEMMA FreshInv ==
    ASSUME node' = [n \in Nodes |-> FreshNode], lru' \in Orders,
           index' = [b \in Blocks |-> [encrypt |-> NoNode, decrypt |-> NoNode]],
           keyMap' = {}, spsc' = <<>>, flusher' = NoFlush, call' = NoCall, visit' = 0,
           platter' \in [Blocks -> Buffer], bits' \subseteq Blocks, savedBits' \subseteq Blocks
    PROVE  TypeOK' /\ CallInv'
<1>1. FreshNode \in Node
  <2>1. Filled(NoBlock, Blank) \in Buffer BY DEF Filled, Buffer, Cell
  <2> QED BY <2>1 DEF FreshNode, Node, NodeStatus
<1>2. /\ FreshNode.blk = NoBlock /\ FreshNode.encrypted = NoNode
      /\ FreshNode.status = "uninited"
  BY DEF FreshNode
<1>3. visit' \in -1 .. (Len(lru') + 2) BY OrderFacts, NodesFact
<1>4. spsc' \in Seq(Blocks) /\ Len(spsc') <= QueueCap BY SNCacheAssumption
<1>5. flusher' \in [b : Blocks \cup {NoBlock}, decrypt : BOOLEAN] BY DEF NoFlush
<1>6. TypeOK' BY <1>1, <1>3, <1>4, <1>5, Idle DEF TypeOK, Calls
<1>7. \A n \in Nodes : ~is_decrypted(n)' /\ node'[n].blk = NoBlock /\ node'[n].status = "uninited"
  BY <1>2 DEF is_decrypted
<1>8. Linked' /\ Partnered' /\ Sealable' BY <1>7 DEF Linked, Partnered, Sealable
<1>9. InCall' BY IdleInCall
<1> QED BY <1>6, <1>8, <1>9 DEF CallInv

LEMMA RestartInv ==
    ASSUME TypeOK, Restart
    PROVE  CInv'
<1>1. /\ lru' \in Orders /\ platter' \in [Blocks -> Buffer]
      /\ bits' \subseteq Blocks /\ savedBits' \subseteq Blocks /\ visit' = 0
  BY DEF Restart, Boot, TypeOK
<1>2. TypeOK' /\ CallInv' BY <1>1, FreshInv DEF Restart, Boot
<1> QED BY <1>1, <1>2 DEF CInv

LEMMA InitInv ==
    ASSUME Init
    PROVE  CInv
<1>1. FreshNode \in Node
  <2>1. Filled(NoBlock, Blank) \in Buffer BY DEF Filled, Buffer, Cell
  <2> QED BY <2>1 DEF FreshNode, Node, NodeStatus
<1>2. /\ FreshNode.blk = NoBlock /\ FreshNode.encrypted = NoNode
      /\ FreshNode.status = "uninited"
  BY DEF FreshNode
<1>3. lru \in Orders /\ visit = 0 /\ call = NoCall /\ flusher = NoFlush BY DEF Init
<1>4. visit \in -1 .. (Len(lru) + 2) BY <1>3, OrderFacts, NodesFact
<1>5. spsc \in Seq(Blocks) /\ Len(spsc) <= QueueCap BY SNCacheAssumption DEF Init
<1>6. flusher \in [b : Blocks \cup {NoBlock}, decrypt : BOOLEAN] BY <1>3 DEF NoFlush
<1>7. platter \in [Blocks -> Buffer]
  <2>1. \A b \in Blocks : Zeros(b) \in Buffer BY DEF Zeros, Filled, Buffer, Cell
  <2> QED BY <2>1 DEF Init
<1>8. TypeOK BY <1>1, <1>3, <1>4, <1>5, <1>6, <1>7, Idle DEF Init, TypeOK, Calls
<1>9. \A n \in Nodes : ~is_decrypted(n) /\ node[n].blk = NoBlock /\ node[n].status = "uninited"
  BY <1>2 DEF is_decrypted, Init
<1>10. Linked /\ Partnered /\ Sealable BY <1>9 DEF Linked, Partnered, Sealable
<1>11. InCall BY <1>3, Idle DEF InCall, Found
<1> QED BY <1>3, <1>8, <1>10, <1>11 DEF CInv, CallInv

LEMMA StopInv ==
    ASSUME TypeOK, CallInv, visit >= 0, Stop \/ Close
    PROVE  TypeOK' /\ CallInv'
<1>1. /\ UNCHANGED <<node, lru, index, keyMap, platter, bits, spsc, flusher, call>>
      /\ savedBits' \in {savedBits, bits}
      /\ call = NoCall
      /\ visit' = visit + 1 /\ (visit = 0 \/ visit = Len(lru) + 1)
  <2>1. Len(lru) + 1 > 0 BY CallFacts, NodesFact
  <2> QED BY <2>1 DEF Stop, Close, cacheVars, deviceVars, CallInv, InCall, Running
<1>2. visit' \in -1 .. (Len(lru) + 2) BY <1>1, CallFacts, NodesFact
<1>3. TypeOK' BY <1>1, <1>2 DEF TypeOK
<1>4. Linked' /\ Partnered' /\ Sealable'
  BY <1>1, Idle, NodesStay, QuietNodes
<1>5. InCall' BY <1>1, FlusherStays, IdleInCall
<1> QED BY <1>3, <1>4, <1>5 DEF CallInv

LEMMA VisitedNode ==
    ASSUME TypeOK, NEW k \in 1 .. Len(lru)
    PROVE  Visited(k) \in Nodes
BY CallFacts, OrderFacts, NodesFact DEF Visited

LEMMA StopVisitInv ==
    ASSUME TypeOK, CallInv, visit >= 0, StopVisit
    PROVE  TypeOK' /\ CallInv'
<1>1. /\ visit \in 1 .. Len(lru) /\ visit' = visit + 1
      /\ IF is_updated(Visited(visit)) THEN Flush(Visited(visit)) ELSE UNCHANGED <<node, platter, bits>>
      /\ UNCHANGED <<lru, index, keyMap, savedBits, spsc, flusher, call>>
  BY DEF StopVisit
<1>2. call = NoCall
  <2>1. visit > 0 BY <1>1, CallFacts, NodesFact
  <2> QED BY <2>1 DEF CallInv, InCall
<1>3. /\ KeepsNodes /\ node' \in [Nodes -> Node]
      /\ platter' \in [Blocks -> Buffer] /\ bits' \subseteq Blocks
  BY <1>1, VisitedNode, FlushedOrNot
<1>4. visit' \in -1 .. (Len(lru') + 2) BY <1>1, CallFacts, NodesFact
<1>5. TypeOK' BY <1>1, <1>3, <1>4 DEF TypeOK
<1>6. Linked' /\ Partnered' /\ Sealable' BY <1>1, <1>2, <1>3, Idle, QuietNodes
<1>7. InCall' BY <1>1, <1>2, FlusherStays, IdleInCall
<1> QED BY <1>5, <1>6, <1>7 DEF CallInv

LEMMA StopVisitFailsInv ==
    ASSUME TypeOK, CallInv, visit >= 0, StopVisitFails
    PROVE  CInv'
<1>1. /\ visit \in 1 .. Len(lru) /\ visit' = -1
      /\ is_updated(Visited(visit)) /\ WriteFails(Visited(visit))
      /\ UNCHANGED <<node, lru, index, keyMap, savedBits, spsc, flusher, call>>
  BY DEF StopVisitFails, cacheVars
<1>2. call = NoCall
  <2>1. visit > 0 BY <1>1, CallFacts, NodesFact
  <2> QED BY <2>1 DEF CallInv, InCall
<1>3. Visited(visit) \in Nodes BY <1>1, VisitedNode
<1>4. node[Visited(visit)].blk \in Blocks BY <1>1, <1>3, DirtyFacts DEF CallInv
<1>5. platter' \in [Blocks -> Buffer] /\ bits' \subseteq Blocks BY <1>1, <1>3, <1>4, TornType
<1>6. visit' \in -1 .. (Len(lru') + 2) BY <1>1, CallFacts, NodesFact
<1>7. TypeOK' BY <1>1, <1>5, <1>6 DEF TypeOK
<1> QED BY <1>1, <1>2, <1>7, DieInv

\* Only a restart is possible after the process died.
LEMMA DeadStep ==
    ASSUME TypeOK, visit < 0, call = NoCall, Next
    PROVE  Restart
<1>1. visit = -1 /\ call.pc = "idle" BY Idle, CallFacts, NodesFact DEF TypeOK
<1>2. ~AccessStep
  BY <1>1 DEF AccessStep, KeepDecrypt, TakeDecrypt, TakeDecryptFails, KeepEncrypt, TakeEncrypt,
     TakeEncryptFails, Reset, Load, LoadFails, OpenD, OpenFails, SealD, Write, Read, FlushAct,
     FlushActFails
<1>3. Len(lru) \in Nat BY CallFacts, NodesFact
<1> QED BY <1>1, <1>2, <1>3 DEF Next, Access, FlushTimeout, FlushPop, FlushAccess, Stop, StopVisit,
           StopVisitFails, Close, Crash, Running

LEMMA AccessStepInv ==
    ASSUME TypeOK, CallInv, visit >= 0, AccessStep
    PROVE  TypeOK' /\ CallInv'
BY KeepDecryptInv, TakeDecryptInv, TakeDecryptFailsInv, KeepEncryptInv, TakeEncryptInv,
   TakeEncryptFailsInv, ResetInv, LoadInv, LoadFailsInv, OpenDInv, OpenFailsInv, SealDInv,
   WriteInv, ReadInv, FlushActInv, FlushActFailsInv DEF AccessStep

\* An access that ends the process has ended itself.
LEMMA AccessStepDies ==
    ASSUME TypeOK, CallInv, visit >= 0, AccessStep, visit' < 0
    PROVE  call' = NoCall
<1>1. visit \in Int BY CallFacts, NodesFact DEF TypeOK
<1>2. visit' # visit BY <1>1
<1> QED BY <1>2 DEF AccessStep, KeepDecrypt, TakeDecrypt, TakeDecryptFails, KeepEncrypt, TakeEncrypt,
     TakeEncryptFails, Reset, Load, LoadFails, OpenD, OpenFails, SealD, Write, Read, FlushAct,
     FlushActFails, Throw

LEMMA CInvNext ==
    ASSUME CInv, [Next]_vars
    PROVE  CInv'
<1>1. TypeOK /\ visit \in Int BY CallFacts, NodesFact DEF CInv, TypeOK
<1>2. CASE visit < 0
  <2>1. CASE Next BY <1>1, <1>2, <2>1, DeadStep, RestartInv DEF CInv
  <2>2. CASE UNCHANGED vars
    <3>1. call' = call /\ visit' = visit BY <2>2 DEF vars, threadVars
    <3>2. TypeOK' BY <1>1, <2>2 DEF TypeOK, vars, cacheVars, deviceVars, threadVars
    <3>3. call = NoCall BY <1>2 DEF CInv
    <3>4. ~(visit' >= 0) BY <1>1, <1>2, <3>1
    <3> QED BY <3>1, <3>2, <3>3, <3>4 DEF CInv
  <2> QED BY <2>1, <2>2
<1>3. CASE visit >= 0
  <2>0. CallInv BY <1>3 DEF CInv
  <2>1. CASE \E b \in Blocks, decrypt \in BOOLEAN : Access(b, decrypt)
    <3>1. TypeOK' /\ CallInv' BY <1>1, <2>0, <2>1, AccessInv
    <3>2. visit' = 0 BY <2>1 DEF Access, Running
    <3>3. ~(visit' < 0) BY <3>2
    <3> QED BY <3>1, <3>3 DEF CInv
  <2>2. CASE AccessStep BY <1>1, <1>3, <2>0, <2>2, AccessStepInv, AccessStepDies DEF CInv
  <2>3. CASE FlushTimeout \/ FlushPop \/ FlushAccess
    <3>1. TypeOK' /\ CallInv' BY <1>1, <2>0, <2>3, FlushTimeoutInv, FlushPopInv, FlushAccessInv
    <3>2. visit' = 0 BY <2>3 DEF FlushTimeout, FlushPop, FlushAccess, Running
    <3>3. ~(visit' < 0) BY <3>2
    <3> QED BY <3>1, <3>3 DEF CInv
  <2>4. CASE Stop \/ Close
    <3>1. TypeOK' /\ CallInv' BY <1>1, <1>3, <2>0, <2>4, StopInv
    <3>2. visit' = visit + 1 \/ visit' = 1 BY <2>4 DEF Stop, Close
    <3>3. ~(visit' < 0) BY <1>1, <1>3, <3>2
    <3> QED BY <3>1, <3>3 DEF CInv
  <2>5. CASE StopVisit
    <3>1. TypeOK' /\ CallInv' BY <1>1, <1>3, <2>0, <2>5, StopVisitInv
    <3>2. visit' = visit + 1 BY <2>5 DEF StopVisit
    <3>3. ~(visit' < 0) BY <1>1, <1>3, <3>2
    <3> QED BY <3>1, <3>3 DEF CInv
  <2>6. CASE StopVisitFails BY <1>1, <1>3, <2>0, <2>6, StopVisitFailsInv
  <2>7. CASE Restart BY <1>1, <2>7, RestartInv
  <2>8. CASE Crash BY <1>1, <2>8, CrashInv
  <2>9. CASE UNCHANGED vars
    <3>1. UNCHANGED <<node, lru, index, keyMap, platter, bits, savedBits, spsc, flusher, call, visit>>
      BY <2>9 DEF vars, cacheVars, deviceVars, threadVars
    <3>2. TypeOK' BY <1>1, <3>1 DEF TypeOK
    <3>3. Linked' /\ Partnered' /\ Sealable' /\ InCall'
      BY <2>0, <3>1 DEF CallInv, Linked, Partnered, Sealable, Older, Holds, InCall, MyD, MyE,
                         is_me, is_updated, is_decrypted
    <3> QED BY <1>3, <3>1, <3>2, <3>3 DEF CInv, CallInv
  <2> QED BY <2>1, <2>2, <2>3, <2>4, <2>5, <2>6, <2>7, <2>8, <2>9 DEF Next
<1> QED BY <1>1, <1>2, <1>3

(***************************************************************************)
(* The invariant of the storage node's accesses, whatever fails: the nodes *)
(* found or taken for the access in progress, and what is known of dirty   *)
(* nodes before eviction (get_cache_index, reset_index, get_node).         *)
(***************************************************************************)
THEOREM CacheInvariant == Spec => []CInv
<1>1. Init => CInv BY InitInv
<1>2. CInv /\ [Next]_vars => CInv' BY CInvNext
<1> QED BY <1>1, <1>2, PTL DEF Spec

LEMMA CInvPartner ==
    ASSUME CInv
    PROVE  DirtyHasPartner
<1>1. SUFFICES ASSUME NEW d \in Nodes, visit >= 0, is_updated(d), is_decrypted(d)
               PROVE  LET e == node[d].encrypted
                      IN  /\ e # d /\ Holds(e, node[d].blk) /\ ~is_decrypted(e)
                          /\ index[node[d].blk] = [encrypt |-> e, decrypt |-> d]
                          /\ node[d].blk \in keyMap
                          /\ \/ call.pc = "encrypt" /\ call.b = node[d].blk
                             \/ Before(lru, e, d)
  BY DEF DirtyHasPartner
<1>2. TypeOK /\ CallInv BY <1>1 DEF CInv
<1>3. /\ node[d].blk \in Blocks
      /\ node[d].encrypted \in Nodes /\ node[d].encrypted # d
      /\ ~is_decrypted(node[d].encrypted)
      /\ Holds(node[d].encrypted, node[d].blk) /\ Older(d)
      /\ index[node[d].blk].encrypt = node[d].encrypted
      /\ index[node[d].blk].decrypt = d
  BY <1>1, <1>2, DirtyFacts DEF CallInv
<1>4. index[node[d].blk] = [encrypt |-> node[d].encrypted, decrypt |-> d]
  BY <1>2, <1>3, IndexFacts
<1>5. node[d].blk \in keyMap BY <1>1, <1>2 DEF CallInv, Partnered, is_updated
<1> QED BY <1>3, <1>4, <1>5 DEF Older

(***************************************************************************)
(* A dirty C(D) can always be sealed, whichever reads, writes and MongoDB  *)
(* calls have failed, in any number of nodes: cache_node::encrypt, whose   *)
(* result flush() ignores, finds its partner and its key.                  *)
(***************************************************************************)
THEOREM DirtyCanBeSealed == Spec => []DirtyHasPartner
<1>1. CInv => DirtyHasPartner BY CInvPartner
<1> QED BY <1>1, CacheInvariant, PTL

-----------------------------------------------------------------------------
(* What nodes and device hold, when no write to the device fails.          *)

\* A buffer with content under key k (NoBlock: plain).
Keyed(x, k) == \A c \in Cells : x[c].key = k /\ x[c].val # NoValue

\* Every C(D) has its C(E), which has content if the C(D) has.
Whole ==
    \A n \in Nodes : is_decrypted(n) =>
        /\ is_me(node[n].encrypted, node[n].blk)
        /\ node[n].status # "uninited" => node[node[n].encrypted].status # "uninited"

\* A C(D) is plain; a C(E) and the device are sealed with the key of the block.
NodeKey(n) == IF is_decrypted(n) THEN NoBlock ELSE node[n].blk
Data == \A n \in Nodes : node[n].status # "uninited" => Keyed(node[n].data, NodeKey(n))
Device == \A b \in Blocks : Keyed(platter[b], b)

\* A clean C(D) is what its C(E) holds, a clean C(E) what the device holds.
Clean ==
    \A n \in Nodes : node[n].status = "inited" =>
        IF is_decrypted(n) THEN node[node[n].encrypted].data = Seal(node[n].blk, node[n].data)
                           ELSE node[n].data = readblk(node[n].blk)

Contents == Whole /\ Data /\ Device /\ Clean

\* Clean nodes, too, are taken before their partners.
Aged == \A n \in Nodes : is_decrypted(n) => Taken(n) \/ Older(n)

\* The index does not take a C(E) for the C(D) of its block.
Kinds == \A b \in Blocks : is_me(index[b].decrypt, b) => is_decrypted(index[b].decrypt)

\* No C(D) is thrown away, and none is dirty when its C(E) is read.
NotLost ==
    /\ call.newE => call.newD \/ MyD = NoNode
    /\ call.pc = "act" /\ ~call.decrypt /\ MyD # NoNode => ~is_updated(MyD)

Serving == Contents /\ Aged /\ Kinds /\ NotLost

\* flush_and_stop leaves no dirty node behind it, but for the one it begins with.
Walk ==
    /\ visit > 0 => \A i \in 2 .. Len(lru) : i < visit => ~is_updated(Visited(i))
    /\ Closed => savedBits = bits

SInv == Device /\ (visit >= 0 => Serving /\ Walk)

\* Clients see v in block b.
DirtyD(b) == \E n \in Nodes : node[n].blk = b /\ is_updated(n) /\ is_decrypted(n)
Dirty(b) == \E n \in Nodes : node[n].blk = b /\ is_updated(n)
Shows(b, v) ==
    /\ \A n \in Nodes : Holds(n, b) =>
          IF is_decrypted(n) THEN node[n].data = v
                             ELSE ~DirtyD(b) => Open(b, node[n].data) = v
    /\ ~Dirty(b) => Open(b, readblk(b)) = v

\* A step that clients do not see.
ShowsStay == \A b \in Blocks : \A v : Shows(b, v) => Shows(b, v)'

\* No node changes its block or its partner.
SameNodes ==
    \A m \in Nodes : node'[m].blk = node[m].blk /\ node'[m].encrypted = node[m].encrypted

-----------------------------------------------------------------------------
(* Facts about buffers.                                                    *)

LEMMA SealKeyed ==
    ASSUME NEW x \in Buffer, NEW b \in Blocks, Keyed(x, NoBlock)
    PROVE  Seal(b, x) \in Buffer /\ Keyed(Seal(b, x), b) /\ Open(b, Seal(b, x)) = x
<1>1. \A c \in Cells : x[c] \in Cell BY DEF Buffer
<1>2. \A c \in Cells : x[c] = [key |-> NoBlock, val |-> x[c].val] BY <1>1 DEF Cell, Keyed
<1>3. Seal(b, x) = [c \in Cells |-> [key |-> b, val |-> x[c].val]] BY DEF Seal, Keyed
<1>4. Open(b, Seal(b, x)) = [c \in Cells |-> [key |-> NoBlock, val |-> x[c].val]]
  BY <1>3 DEF Open
<1>5. x = [c \in Cells |-> x[c]] BY DEF Buffer
<1>6. Open(b, Seal(b, x)) = x BY <1>2, <1>4, <1>5
<1>7. Keyed(Seal(b, x), b) BY <1>3 DEF Keyed
<1> QED BY <1>6, <1>7, SealType

LEMMA OpenKeyed ==
    ASSUME NEW x \in Buffer, NEW b \in Blocks, Keyed(x, b)
    PROVE  Open(b, x) \in Buffer /\ Keyed(Open(b, x), NoBlock) /\ Seal(b, Open(b, x)) = x
<1>1. \A c \in Cells : x[c] \in Cell BY DEF Buffer
<1>2. \A c \in Cells : x[c] = [key |-> b, val |-> x[c].val] BY <1>1 DEF Cell, Keyed
<1>3. Open(b, x) = [c \in Cells |-> [key |-> NoBlock, val |-> x[c].val]] BY DEF Open, Keyed
<1>4. Seal(b, Open(b, x)) = [c \in Cells |-> [key |-> b, val |-> x[c].val]]
  BY <1>3 DEF Seal
<1>5. x = [c \in Cells |-> x[c]] BY DEF Buffer
<1>6. Seal(b, Open(b, x)) = x BY <1>2, <1>4, <1>5
<1>7. Keyed(Open(b, x), NoBlock) BY <1>3 DEF Keyed
<1> QED BY <1>6, <1>7, SealType

LEMMA ZerosKeyed ==
    ASSUME NEW b \in Blocks
    PROVE  Keyed(Zeros(b), b) /\ Zeros(b) \in Buffer
<1>1. Zeros(b) = [c \in Cells |-> [key |-> b, val |-> Blank]] BY DEF Zeros, Filled
<1>2. Blank # NoValue BY SNCacheAssumption
<1> QED BY <1>1, <1>2 DEF Keyed, Buffer, Cell

LEMMA ReadKeyed ==
    ASSUME TypeOK, Device, NEW b \in Blocks
    PROVE  Keyed(readblk(b), b) /\ readblk(b) \in Buffer
BY ZerosKeyed, ReadType DEF Device, readblk

\* The node of a kind that a block has is the one of the index.
LEMMA OfBlock ==
    ASSUME TypeOK, Linked, NEW n \in Nodes, NEW b \in Blocks, node[n].blk = b
    PROVE  /\ is_decrypted(n) => index[b].decrypt = n
           /\ ~is_decrypted(n) => index[b].encrypt = n
BY SNCacheAssumption DEF Linked

\* The C(E) of a C(D).
LEMMA PartnerOf ==
    ASSUME TypeOK, CallInv, Whole, NEW n \in Nodes, is_decrypted(n)
    PROVE  /\ node[n].encrypted \in Nodes /\ node[n].encrypted # n
           /\ ~is_decrypted(node[n].encrypted)
           /\ node[n].blk \in Blocks /\ node[node[n].encrypted].blk = node[n].blk
           /\ index[node[n].blk].encrypt = node[n].encrypted
           /\ index[node[n].blk].decrypt = n
<1>1. is_me(node[n].encrypted, node[n].blk) BY DEF Whole
<1> QED BY <1>1, PartnerFacts DEF CallInv, is_me

-----------------------------------------------------------------------------
(* Steps that keep the contents.                                           *)

\* What readblk finds after a node was written, or not.
LEMMA ReadNext ==
    ASSUME TypeOK, NEW n \in Nodes, node[n].blk \in Blocks,
           platter' = [platter EXCEPT ![node[n].blk] = node[n].data],
           bits' = bits \cup {node[n].blk}
    PROVE  \A b \in Blocks : readblk(b)' = IF b = node[n].blk THEN node[n].data ELSE readblk(b)
BY DEF readblk, TypeOK

LEMMA SameContents ==
    ASSUME TypeOK, Contents, UNCHANGED <<node, platter, bits>>
    PROVE  Contents' /\ ShowsStay /\ SameNodes
<1>1. \A b : readblk(b)' = readblk(b) BY DEF readblk
<1>2. Contents' BY <1>1 DEF Contents, Whole, Data, Device, Clean, is_decrypted, is_me, NodeKey
<1>3. ShowsStay
  BY <1>1 DEF ShowsStay, Shows, Holds, is_me, is_decrypted, is_updated, DirtyD, Dirty
<1> QED BY <1>2, <1>3 DEF SameNodes

LEMMA WholeStays ==
    ASSUME TypeOK, CallInv, Whole,
           \A m \in Nodes :
             /\ node'[m].blk = node[m].blk /\ node'[m].encrypted = node[m].encrypted
             /\ is_decrypted(m) /\ node'[m].status # "uninited" =>
                  node'[node[m].encrypted].status # "uninited"
    PROVE  Whole'
<1>1. SUFFICES ASSUME NEW m \in Nodes, is_decrypted(m)
               PROVE  /\ is_me(node[m].encrypted, node[m].blk)'
                      /\ node'[m].status # "uninited" => node'[node[m].encrypted].status # "uninited"
  BY Zenon DEF Whole, is_decrypted
<1>2. /\ node[m].encrypted \in Nodes /\ node[node[m].encrypted].blk = node[m].blk
  BY <1>1, PartnerOf
<1>3. node'[node[m].encrypted].blk = node[m].blk /\ node[m].encrypted # NoNode
  BY <1>2, NodesFact
<1>4. is_me(node[m].encrypted, node[m].blk)' BY <1>1, <1>3 DEF is_me
<1> QED BY <1>1, <1>4

\* A dirty C(D) is sealed into its C(E).
LEMMA SealContents ==
    ASSUME TypeOK, CallInv, Contents, NEW n \in Nodes, is_updated(n), is_decrypted(n),
           node' = SealedInto(n), UNCHANGED <<platter, bits>>
    PROVE  Contents' /\ ShowsStay /\ SameNodes
<1>1. PICK e, b : e = node[n].encrypted /\ b = node[n].blk OBVIOUS
<1>2. /\ e \in Nodes /\ e # n /\ ~is_decrypted(e) /\ b \in Blocks /\ node[e].blk = b
      /\ index[b].encrypt = e /\ index[b].decrypt = n
  BY <1>1, PartnerOf DEF Contents
<1>3. \A m \in Nodes :
        /\ node'[m].blk = node[m].blk
        /\ node'[m].encrypted = node[m].encrypted
        /\ node'[m].status = IF m = n THEN "inited" ELSE IF m = e THEN "updated" ELSE node[m].status
        /\ node'[m].data = IF m = e THEN Seal(b, node[n].data) ELSE node[m].data
  BY <1>1, <1>2, SealedNode
<1>4. node[e].status # "uninited" BY <1>1 DEF Contents, Whole, is_updated
<1>5. /\ node[n].data \in Buffer /\ Keyed(node[n].data, NoBlock)
      /\ Keyed(Seal(b, node[n].data), b) /\ Open(b, Seal(b, node[n].data)) = node[n].data
  <2>1. Keyed(node[n].data, NoBlock) BY DEF Contents, Data, NodeKey, is_updated
  <2> QED BY <1>2, <2>1, NodeFacts, SealKeyed
<1>6. \A m \in Nodes : is_decrypted(m)' <=> is_decrypted(m) BY <1>3 DEF is_decrypted
<1>7. \A m \in Nodes : node'[m].status = "uninited" <=> node[m].status = "uninited"
  BY <1>3, <1>4 DEF is_updated
<1>8. \A a : readblk(a)' = readblk(a) BY DEF readblk
<1>9. \A m \in Nodes : is_decrypted(m) /\ m # n => node[m].encrypted \in Nodes \ {e, n}
  <2>1. SUFFICES ASSUME NEW m \in Nodes, is_decrypted(m), m # n
                 PROVE  node[m].encrypted \in Nodes \ {e, n}
    OBVIOUS
  <2>2. /\ node[m].encrypted \in Nodes /\ ~is_decrypted(node[m].encrypted)
        /\ node[node[m].encrypted].blk = node[m].blk /\ index[node[m].blk].decrypt = m
    BY <2>1, PartnerOf DEF Contents
  <2> QED BY <1>2, <2>1, <2>2
<1>10. Whole'
  <2>1. \A m \in Nodes : is_decrypted(m) => node[m].encrypted \in Nodes BY PartnerOf DEF Contents
  <2>2. \A m \in Nodes : is_decrypted(m) /\ node'[m].status # "uninited" =>
                             node'[node[m].encrypted].status # "uninited"
    BY <1>7, <2>1 DEF Contents, Whole
  <2> QED BY <1>3, <2>2, WholeStays DEF Contents
<1>11. Data'
  <2>1. SUFFICES ASSUME NEW m \in Nodes, node'[m].status # "uninited"
                 PROVE  Keyed(node'[m].data, NodeKey(m)')
    BY DEF Data
  <2>2. NodeKey(m)' = NodeKey(m) BY <1>3, <1>6 DEF NodeKey
  <2>3. CASE m = e BY <1>2, <1>3, <1>5, <2>2, <2>3 DEF NodeKey
  <2>4. CASE m # e BY <1>3, <1>7, <2>1, <2>2, <2>4 DEF Contents, Data
  <2> QED BY <2>3, <2>4
<1>12. Device' BY DEF Contents, Device
<1>13. Clean'
  <2>1. SUFFICES ASSUME NEW m \in Nodes, node'[m].status = "inited"
                 PROVE  IF is_decrypted(m)
                        THEN node'[node[m].encrypted].data = Seal(node[m].blk, node'[m].data)
                        ELSE node'[m].data = readblk(node[m].blk)
    BY <1>3, <1>6, <1>8 DEF Clean
  <2>2. CASE m = n BY <1>1, <1>2, <1>3, <2>2
  <2>3. CASE m # n
    <3>1. m # e /\ node[m].status = "inited" /\ node'[m].data = node[m].data BY <1>3, <2>1, <2>3
    <3>2. CASE is_decrypted(m)
      <4>1. node'[node[m].encrypted].data = node[node[m].encrypted].data
        BY <1>3, <1>9, <2>3, <3>2
      <4> QED BY <3>1, <3>2, <4>1 DEF Contents, Clean
    <3>3. CASE ~is_decrypted(m) BY <3>1, <3>3 DEF Contents, Clean
    <3> QED BY <3>2, <3>3
  <2> QED BY <2>2, <2>3
<1>14. ShowsStay
  <2>1. SUFFICES ASSUME NEW a \in Blocks, NEW v, Shows(a, v) PROVE Shows(a, v)'
    BY DEF ShowsStay
  <2>2. \A m \in Nodes : Holds(m, a)' <=> Holds(m, a) BY <1>3, <1>7 DEF Holds, is_me
  <2>3. \A m \in Nodes : m \notin {n, e} => (is_updated(m)' <=> is_updated(m))
    BY <1>3 DEF is_updated
  <2>4. is_updated(e)' BY <1>2, <1>3 DEF is_updated
  <2>5. a # b => (DirtyD(a)' <=> DirtyD(a)) BY <1>1, <1>2, <1>3, <1>6, <2>3 DEF DirtyD
  <2>6. Dirty(a) => Dirty(a)' BY <1>1, <1>2, <1>3, <2>3, <2>4 DEF Dirty
  <2>7. a = b => node[n].data = v
    <3>1. Holds(n, b) BY <1>1, NodesFact DEF Holds, is_me, is_updated
    <3> QED BY <3>1, <2>1 DEF Shows
  <2>8. ASSUME NEW m \in Nodes, Holds(m, a)
        PROVE  IF is_decrypted(m) THEN node'[m].data = v
                                  ELSE ~DirtyD(a)' => Open(a, node'[m].data) = v
    <3>1. CASE m = e
      <4>1. a = b BY <1>2, <2>8, <3>1 DEF Holds, is_me
      <4> QED BY <1>2, <1>3, <1>5, <2>7, <3>1, <4>1
    <3>2. CASE m # e
      <4>1. node'[m].data = node[m].data BY <1>3, <3>2
      <4>2. ~is_decrypted(m) => a # b
        BY <1>2, <2>8, <3>2, OfBlock DEF Holds, is_me, CallInv
      <4> QED BY <2>1, <2>5, <2>8, <4>1, <4>2 DEF Shows
    <3> QED BY <3>1, <3>2
  <2>9. ~Dirty(a)' => Open(a, readblk(a)') = v BY <1>8, <2>1, <2>6 DEF Shows
  <2> QED BY <1>6, <2>2, <2>8, <2>9 DEF Shows
<1> QED BY <1>3, <1>10, <1>11, <1>12, <1>13, <1>14 DEF Contents, SameNodes

\* A dirty C(E) is written to the device.
WrittenTo(n) ==
    /\ platter' = [platter EXCEPT ![node[n].blk] = node[n].data]
    /\ bits' = bits \cup {node[n].blk}

LEMMA WriteContents ==
    ASSUME TypeOK, CallInv, Contents, NEW n \in Nodes, is_updated(n), ~is_decrypted(n),
           node' = [node EXCEPT ![n].status = "inited"], WrittenTo(n)
    PROVE  Contents' /\ ShowsStay /\ SameNodes
<1>1. PICK b : b = node[n].blk OBVIOUS
<1>2. b \in Blocks /\ index[b].encrypt = n
  BY <1>1, DirtyFacts, OfBlock DEF CallInv
<1>3. \A m \in Nodes :
        /\ node'[m].blk = node[m].blk
        /\ node'[m].encrypted = node[m].encrypted
        /\ node'[m].status = IF m = n THEN "inited" ELSE node[m].status
        /\ node'[m].data = node[m].data
  <2>1. node \in [Nodes -> Node] BY DEF TypeOK
  <2>2. node' = [node EXCEPT ![n].status = "inited"] OBVIOUS
  <2> QED BY ONLY <2>1, <2>2, n \in Nodes DEF Node, NodeStatus
<1>4. \A a \in Blocks : readblk(a)' = IF a = b THEN node[n].data ELSE readblk(a)
  BY <1>1, <1>2, ReadNext DEF WrittenTo
<1>5. Keyed(node[n].data, b) BY <1>1 DEF Contents, Data, NodeKey, is_updated
<1>6. \A m \in Nodes : is_decrypted(m)' <=> is_decrypted(m) BY <1>3 DEF is_decrypted
<1>7. \A m \in Nodes : node'[m].status = "uninited" <=> node[m].status = "uninited"
  BY <1>3 DEF is_updated
<1>8. Whole'
  <2>1. \A m \in Nodes : is_decrypted(m) => node[m].encrypted \in Nodes BY PartnerOf DEF Contents
  <2>2. \A m \in Nodes : is_decrypted(m) /\ node'[m].status # "uninited" =>
                             node'[node[m].encrypted].status # "uninited"
    BY <1>7, <2>1 DEF Contents, Whole
  <2> QED BY <1>3, <2>2, WholeStays DEF Contents
<1>9. Data' BY <1>3, <1>6, <1>7 DEF Contents, Data, NodeKey
<1>10. Device'
  <2>1. \A a \in Blocks : platter'[a] = IF a = b THEN node[n].data ELSE platter[a]
    BY <1>1, <1>2 DEF WrittenTo, TypeOK
  <2> QED BY <1>5, <2>1 DEF Contents, Device
<1>11. Clean'
  <2>1. SUFFICES ASSUME NEW m \in Nodes, node'[m].status = "inited"
                 PROVE  IF is_decrypted(m)
                        THEN node'[node[m].encrypted].data = Seal(node[m].blk, node'[m].data)
                        ELSE node'[m].data = readblk(node[m].blk)'
    BY <1>3, <1>6 DEF Clean
  <2>2. CASE m = n BY <1>1, <1>2, <1>3, <1>4, <2>2
  <2>3. CASE m # n
    <3>1. node[m].status = "inited" BY <1>3, <2>1, <2>3
    <3>2. CASE is_decrypted(m)
      <4>1. node[m].encrypted \in Nodes BY <3>2, PartnerOf DEF Contents
      <4> QED BY <1>3, <3>1, <3>2, <4>1 DEF Contents, Clean
    <3>3. CASE ~is_decrypted(m)
      <4>1. node[m].blk # NoBlock BY <3>1 DEF CallInv, Linked
      <4>2. node[m].blk \in Blocks BY <4>1, NodeFacts
      <4>3. node[m].blk # b BY <1>2, <2>3, <3>3, <4>2, OfBlock DEF CallInv
      <4> QED BY <1>3, <1>4, <3>1, <3>3, <4>2, <4>3 DEF Contents, Clean
    <3> QED BY <3>2, <3>3
  <2> QED BY <2>2, <2>3
<1>12. ShowsStay
  <2>1. SUFFICES ASSUME NEW a \in Blocks, NEW v, Shows(a, v) PROVE Shows(a, v)'
    BY DEF ShowsStay
  <2>2. \A m \in Nodes : Holds(m, a)' <=> Holds(m, a) BY <1>3, <1>7 DEF Holds, is_me
  <2>3. \A m \in Nodes : m # n => (is_updated(m)' <=> is_updated(m)) BY <1>3 DEF is_updated
  <2>4. \A m \in Nodes : is_decrypted(m) => (is_updated(m)' <=> is_updated(m)) BY <2>3
  <2>5. DirtyD(a)' <=> DirtyD(a) BY <1>3, <1>6, <2>4 DEF DirtyD
  <2>6. a # b => (Dirty(a)' <=> Dirty(a)) BY <1>1, <1>3, <2>3 DEF Dirty
  <2>7. ASSUME ~Dirty(a)' PROVE Open(a, readblk(a)') = v
    <3>1. CASE a = b
      <4>1. Holds(n, a) BY <1>1, <3>1, NodesFact DEF Holds, is_me, is_updated
      <4>2. ~DirtyD(a) BY <2>5, <2>7 DEF Dirty, DirtyD
      <4>3. Open(a, node[n].data) = v BY <2>1, <4>1, <4>2 DEF Shows
      <4> QED BY <1>4, <3>1, <4>3
    <3>2. CASE a # b BY <1>4, <2>1, <2>6, <2>7, <3>2 DEF Shows
    <3> QED BY <3>1, <3>2
  <2> QED BY <1>3, <1>6, <2>1, <2>2, <2>5, <2>7 DEF Shows
<1> QED BY <1>3, <1>8, <1>9, <1>10, <1>11, <1>12 DEF Contents, SameNodes

LEMMA FlushContents ==
    ASSUME TypeOK, CallInv, Contents, NEW n \in Nodes,
           IF is_updated(n) THEN Flush(n) ELSE UNCHANGED <<node, platter, bits>>
    PROVE  Contents' /\ ShowsStay /\ SameNodes
<1>1. CASE is_updated(n) /\ is_decrypted(n)
  <2>1. node' = SealedInto(n) /\ UNCHANGED <<platter, bits>> BY <1>1 DEF Flush
  <2> QED BY <1>1, <2>1, SealContents
<1>2. CASE is_updated(n) /\ ~is_decrypted(n)
  <2>1. node' = [node EXCEPT ![n].status = "inited"] /\ WrittenTo(n) BY <1>2 DEF Flush, WrittenTo
  <2> QED BY <1>2, <2>1, WriteContents
<1>3. CASE ~is_updated(n) BY <1>3, SameContents
<1> QED BY <1>1, <1>2, <1>3

\* The nodes of an access that has its C(E).
LEMMA ServedNodes ==
    ASSUME TypeOK, CallInv, Serving, call.pc \in {"load", "open", "act"}
    PROVE  /\ call.b \in Blocks /\ ~call.newD /\ ~call.newE
           /\ MyE \in Nodes /\ node[MyE].blk = call.b /\ ~is_decrypted(MyE)
           /\ index[call.b].encrypt = MyE /\ index[call.b].decrypt = MyD
           /\ MyD # NoNode => /\ MyD \in Nodes /\ node[MyD].blk = call.b
                              /\ is_decrypted(MyD) /\ node[MyD].encrypted = MyE
                              /\ MyD # MyE
           /\ call.decrypt => MyD # NoNode
<1>1. /\ call.b \in Blocks /\ ~call.newD /\ ~call.newE
      /\ MyE \in Nodes /\ node[MyE].blk = call.b /\ ~is_decrypted(MyE)
      /\ MyD # NoNode => MyD \in Nodes /\ node[MyD].blk = call.b
      /\ call.decrypt => MyD # NoNode
  BY FoundNodes
<1>2. index[call.b].encrypt = MyE /\ index[call.b].decrypt = MyD BY DEF MyE, MyD
<1>3. ASSUME MyD # NoNode PROVE is_decrypted(MyD) /\ node[MyD].encrypted = MyE
  <2>1. is_decrypted(MyD) BY <1>1, <1>2, <1>3 DEF Serving, Kinds, is_me
  <2> QED BY <1>1, <1>2, <1>3, <2>1, PartnerOf DEF Serving, Contents
<1> QED BY <1>1, <1>2, <1>3

LEMMA LoadContents ==
    ASSUME TypeOK, CallInv, Serving, Load
    PROVE  Contents' /\ ShowsStay /\ SameNodes
<1>1. /\ call.pc = "load" /\ UNCHANGED <<platter, bits>>
      /\ node' = IF node[MyE].status = "uninited"
                   THEN [node EXCEPT ![MyE].status = "inited",
                                     ![MyE].data = readblk(node[MyE].blk)]
                   ELSE node
  BY DEF Load, MyE, deviceVars
<1>2. CASE node[MyE].status # "uninited" BY <1>1, <1>2, SameContents DEF Serving
<1>3. CASE node[MyE].status = "uninited"
  <2>1. PICK e, b, x : e = MyE /\ b = call.b /\ x = readblk(call.b) OBVIOUS
  <2>2. /\ b \in Blocks /\ e \in Nodes /\ node[e].blk = b /\ ~is_decrypted(e)
        /\ index[b].encrypt = e
        /\ MyD # NoNode => MyD \in Nodes /\ is_decrypted(MyD) /\ node[MyD].encrypted = e
        /\ index[b].decrypt = MyD
    BY <1>1, <2>1, ServedNodes
  <2>3. Keyed(x, b) /\ x \in Buffer BY <2>1, <2>2, ReadKeyed DEF Serving, Contents
  <2>4. \A m \in Nodes :
          /\ node'[m].blk = node[m].blk /\ node'[m].encrypted = node[m].encrypted
          /\ node'[m].status = IF m = e THEN "inited" ELSE node[m].status
          /\ node'[m].data = IF m = e THEN x ELSE node[m].data
    <3>1. node \in [Nodes -> Node] BY DEF TypeOK
    <3>2. node' = [node EXCEPT ![e].status = "inited", ![e].data = x] BY <1>1, <1>3, <2>1, <2>2
    <3> QED BY ONLY <2>2, <2>3, <3>1, <3>2 DEF Node, NodeStatus
  <2>5. \A m \in Nodes : is_decrypted(m)' <=> is_decrypted(m) BY <2>4 DEF is_decrypted
  <2>6. \A a : readblk(a)' = readblk(a) BY <1>1 DEF readblk
  <2>7. \A m \in Nodes : is_decrypted(m) => /\ node[m].encrypted \in Nodes
                                            /\ node[m].status # "uninited" => node[m].encrypted # e
    BY <1>3, <2>1, PartnerOf DEF Serving, Contents, Whole
  <2>8. Whole' BY <2>2, <2>4, <2>7, WholeStays DEF Serving, Contents, Whole
  <2>9. Data'
    <3>1. SUFFICES ASSUME NEW m \in Nodes, node'[m].status # "uninited"
                   PROVE  Keyed(node'[m].data, NodeKey(m))
      BY <2>4, <2>5 DEF Data, NodeKey
    <3>2. CASE m = e BY <2>2, <2>3, <2>4, <3>2 DEF NodeKey
    <3>3. CASE m # e BY <2>4, <3>1, <3>3 DEF Serving, Contents, Data
    <3> QED BY <3>2, <3>3
  <2>10. Device' BY <1>1 DEF Serving, Contents, Device
  <2>11. Clean'
    <3>1. SUFFICES ASSUME NEW m \in Nodes, node'[m].status = "inited"
                   PROVE  IF is_decrypted(m)
                          THEN node'[node[m].encrypted].data = Seal(node[m].blk, node'[m].data)
                          ELSE node'[m].data = readblk(node[m].blk)
      BY <2>4, <2>5, <2>6 DEF Clean
    <3>2. CASE m = e BY <2>1, <2>2, <2>4, <3>2
    <3>3. CASE m # e
      <4>1. node[m].status = "inited" /\ node'[m].data = node[m].data BY <2>4, <3>1, <3>3
      <4>2. is_decrypted(m) => node'[node[m].encrypted].data = node[node[m].encrypted].data
        BY <2>4, <2>7, <4>1
      <4> QED BY <4>1, <4>2 DEF Serving, Contents, Clean
    <3> QED BY <3>2, <3>3
  <2>12. ShowsStay
    <3>1. SUFFICES ASSUME NEW a \in Blocks, NEW v, Shows(a, v) PROVE Shows(a, v)'
      BY DEF ShowsStay
    <3>2. \A m \in Nodes : is_updated(m)' <=> is_updated(m) BY <1>3, <2>1, <2>4 DEF is_updated
    <3>3. (DirtyD(a)' <=> DirtyD(a)) /\ (Dirty(a)' <=> Dirty(a))
      BY <2>4, <2>5, <3>2 DEF DirtyD, Dirty
    <3>4. \A m \in Nodes : m # e => (Holds(m, a)' <=> Holds(m, a)) BY <2>4 DEF Holds, is_me
    <3>5. a = b => ~Dirty(a)
      <4>1. SUFFICES ASSUME NEW m \in Nodes, node[m].blk = b, is_updated(m) PROVE FALSE
        BY DEF Dirty
      <4>2. m # e BY <1>3, <2>1, <4>1 DEF is_updated
      <4>3. is_decrypted(m) BY <2>2, <4>1, <4>2, OfBlock DEF CallInv
      <4>4. m = MyD BY <2>2, <4>1, <4>3, OfBlock DEF CallInv
      <4>5. m # NoNode BY NodesFact
      <4> QED BY <2>2, <2>7, <4>1, <4>3, <4>4, <4>5 DEF is_updated
    <3>6. a = b => Open(a, x) = v BY <2>1, <3>1, <3>5 DEF Shows
    <3>7. ASSUME NEW m \in Nodes, Holds(m, a)'
          PROVE  IF is_decrypted(m) THEN node'[m].data = v
                                    ELSE ~DirtyD(a) => Open(a, node'[m].data) = v
      <4>1. CASE m = e
        <5>1. a = b BY <2>2, <2>4, <3>7, <4>1 DEF Holds, is_me
        <5> QED BY <2>2, <2>4, <3>6, <4>1, <5>1
      <4>2. CASE m # e BY <2>4, <3>1, <3>4, <3>7, <4>2 DEF Shows
      <4> QED BY <4>1, <4>2
    <3> QED BY <2>5, <2>6, <3>1, <3>3, <3>7 DEF Shows
  <2> QED BY <2>4, <2>8, <2>9, <2>10, <2>11, <2>12 DEF Contents, SameNodes
<1> QED BY <1>2, <1>3

LEMMA OpenContents ==
    ASSUME TypeOK, CallInv, Serving, OpenD
    PROVE  Contents' /\ ShowsStay /\ SameNodes
<1>1. /\ call.pc = "open" /\ call.decrypt /\ node[MyD].status = "uninited" /\ OpenWrites(MyE)
      /\ node' = [node EXCEPT ![MyD].status = "inited",
                              ![MyD].data = Open(call.b, node[MyE].data),
                              ![MyE].status = "inited"]
  BY DEF OpenD, NeedsOpen, MyD, MyE
<1>2. PICK d, e, b, x : d = MyD /\ e = MyE /\ b = call.b /\ x = Open(call.b, node[MyE].data) OBVIOUS
<1>3. /\ b \in Blocks /\ e \in Nodes /\ node[e].blk = b /\ ~is_decrypted(e)
      /\ index[b].encrypt = e /\ index[b].decrypt = d
      /\ d \in Nodes /\ is_decrypted(d) /\ node[d].encrypted = e /\ d # e /\ node[d].blk = b
  BY <1>1, <1>2, ServedNodes
<1>4. node[e].status # "uninited" BY <1>1, <1>2 DEF CallInv, InCall
<1>5. /\ node[e].data \in Buffer /\ Keyed(node[e].data, b)
      /\ x \in Buffer /\ Keyed(x, NoBlock) /\ Seal(b, x) = node[e].data
  <2>1. Keyed(node[e].data, b) BY <1>3, <1>4 DEF Serving, Contents, Data, NodeKey
  <2> QED BY <1>2, <1>3, <2>1, NodeFacts, OpenKeyed
<1>6. /\ node' \in [Nodes -> Node]
      /\ \A m \in Nodes :
           /\ node'[m].blk = node[m].blk
           /\ node'[m].encrypted = node[m].encrypted
           /\ node'[m].status = IF m \in {d, e} THEN "inited" ELSE node[m].status
           /\ node'[m].data = IF m = d THEN x ELSE node[m].data
  <2>1. Opened(d, e, x) BY <1>1, <1>2 DEF Opened
  <2>2. d \in Nodes /\ e \in Nodes /\ x \in Buffer BY <1>3, <1>5
  <2> QED BY <2>1, <2>2, OpenedNode
<1>7. \A m \in Nodes : is_decrypted(m)' <=> is_decrypted(m) BY <1>6 DEF is_decrypted
<1>8. /\ \A a \in Blocks : readblk(a)' = IF a = b /\ is_updated(e) THEN node[e].data ELSE readblk(a)
      /\ Device'
  <2>1. CASE is_updated(e)
    <3>1. WrittenTo(e) BY <1>1, <1>2, <2>1 DEF OpenWrites, WrittenTo
    <3>2. \A a \in Blocks : platter'[a] = IF a = b THEN node[e].data ELSE platter[a]
      BY <1>3, <3>1 DEF WrittenTo, TypeOK
    <3>3. Device' BY <1>5, <3>2 DEF Serving, Contents, Device
    <3> QED BY <1>3, <2>1, <3>1, <3>3, ReadNext DEF WrittenTo
  <2>2. CASE ~is_updated(e)
    <3>1. UNCHANGED <<platter, bits>> BY <1>1, <1>2, <2>2 DEF OpenWrites
    <3> QED BY <2>2, <3>1 DEF Serving, Contents, Device, readblk
  <2> QED BY <2>1, <2>2
<1>9. \A m \in Nodes : is_decrypted(m) => node[m].encrypted \in Nodes \ {d}
  BY <1>3, PartnerOf DEF Serving, Contents
<1>10. \A m \in Nodes : m \notin {d, e} => node[m].blk # b
  BY <1>3, OfBlock DEF CallInv
<1>11. ~is_updated(d) BY <1>1, <1>2 DEF is_updated
<1>12. node[e].status = "inited" => node[e].data = readblk(b)
  BY <1>3 DEF Serving, Contents, Clean
<1>13. Whole' BY <1>3, <1>4, <1>6, <1>9, WholeStays DEF Serving, Contents, Whole
<1>14. Data'
  <2>1. SUFFICES ASSUME NEW m \in Nodes, node'[m].status # "uninited"
                 PROVE  Keyed(node'[m].data, NodeKey(m))
    BY <1>6, <1>7 DEF Data, NodeKey
  <2>2. CASE m = d BY <1>3, <1>5, <1>6, <2>2 DEF NodeKey
  <2>3. CASE m # d BY <1>4, <1>6, <2>1, <2>3 DEF Serving, Contents, Data
  <2> QED BY <2>2, <2>3
<1>15. Clean'
  <2>1. SUFFICES ASSUME NEW m \in Nodes, node'[m].status = "inited"
                 PROVE  IF is_decrypted(m)
                        THEN node'[node[m].encrypted].data = Seal(node[m].blk, node'[m].data)
                        ELSE node'[m].data = readblk(node[m].blk)'
    BY <1>6, <1>7 DEF Clean
  <2>2. CASE m = d BY <1>3, <1>5, <1>6, <2>2
  <2>3. CASE m = e
    <3>1. node[e].status \in {"inited", "updated"} BY <1>3, <1>4, NodeFacts DEF NodeStatus
    <3> QED BY <1>3, <1>6, <1>8, <1>12, <2>3, <3>1 DEF is_updated
  <2>4. CASE m \notin {d, e}
    <3>1. node[m].status = "inited" /\ node'[m].data = node[m].data BY <1>6, <2>1, <2>4
    <3>2. CASE is_decrypted(m)
      <4>1. node'[node[m].encrypted].data = node[node[m].encrypted].data BY <1>6, <1>9, <3>2
      <4> QED BY <3>1, <3>2, <4>1 DEF Serving, Contents, Clean
    <3>3. CASE ~is_decrypted(m)
      <4>1. node[m].blk # NoBlock BY <3>1 DEF CallInv, Linked
      <4>2. node[m].blk \in Blocks BY <4>1, NodeFacts
      <4> QED BY <1>6, <1>8, <1>10, <2>4, <3>1, <3>3, <4>2 DEF Serving, Contents, Clean
    <3> QED BY <3>2, <3>3
  <2> QED BY <2>2, <2>3, <2>4
<1>16. ShowsStay
  <2>1. SUFFICES ASSUME NEW a \in Blocks, NEW v, Shows(a, v) PROVE Shows(a, v)'
    BY DEF ShowsStay
  <2>2. CASE a # b
    <3>1. \A m \in Nodes : node[m].blk = a =>
            /\ node'[m].status = node[m].status /\ node'[m].data = node[m].data
      BY <1>3, <1>6, <2>2
    <3>2. \A m \in Nodes : Holds(m, a)' <=> Holds(m, a) BY <1>6, <3>1 DEF Holds, is_me
    <3>3. (DirtyD(a)' <=> DirtyD(a)) /\ (Dirty(a)' <=> Dirty(a))
      BY <1>6, <1>7, <3>1 DEF DirtyD, Dirty, is_updated
    <3>4. \A m \in Nodes : Holds(m, a) => node'[m].data = node[m].data BY <3>1 DEF Holds, is_me
    <3> QED BY <1>7, <1>8, <2>1, <2>2, <3>2, <3>3, <3>4 DEF Shows
  <2>3. CASE a = b
    <3>1. ~DirtyD(b) BY <1>3, <1>10, <1>11 DEF DirtyD
    <3>2. Holds(e, b) BY <1>3, <1>4, NodesFact DEF Holds, is_me
    <3>3. x = v BY <1>2, <1>3, <2>1, <2>3, <3>1, <3>2 DEF Shows
    <3>4. \A m \in Nodes : Holds(m, b)' => m \in {d, e} BY <1>6, <1>10 DEF Holds, is_me
    <3>5. Open(b, readblk(b)') = v
      <4>1. CASE is_updated(e) BY <1>2, <1>8, <1>3, <3>3, <4>1
      <4>2. CASE ~is_updated(e)
        <5>1. ~Dirty(b) BY <1>10, <1>11, <4>2 DEF Dirty
        <5> QED BY <1>3, <1>8, <2>1, <2>3, <4>2, <5>1 DEF Shows
      <4> QED BY <4>1, <4>2
    <3>6. Open(b, node'[e].data) = v /\ node'[d].data = v BY <1>2, <1>3, <1>6, <3>3
    <3> QED BY <1>3, <1>7, <2>3, <3>4, <3>5, <3>6 DEF Shows
  <2> QED BY <2>2, <2>3
<1> QED BY <1>6, <1>8, <1>13, <1>14, <1>15, <1>16 DEF Contents, SameNodes

LEMMA NoWriteFails ==
    ASSUME "write" \notin Faults, NEW n
    PROVE  ~WriteFails(n)
BY DEF WriteFails

LEMMA OpenFailsContents ==
    ASSUME TypeOK, CallInv, Serving, OpenFails, "write" \notin Faults
    PROVE  Contents' /\ ShowsStay /\ SameNodes
<1>1. /\ call.pc = "open" /\ OpenWrites(MyE)
      /\ node' = IF is_updated(MyE) THEN [node EXCEPT ![MyE].status = "inited"] ELSE node
  BY NoWriteFails DEF OpenFails, MyE
<1>2. MyE \in Nodes /\ ~is_decrypted(MyE) BY <1>1, ServedNodes
<1>3. CASE is_updated(MyE)
  <2>1. WrittenTo(MyE) BY <1>1, <1>3 DEF OpenWrites, WrittenTo
  <2> QED BY <1>1, <1>2, <1>3, <2>1, WriteContents DEF Serving
<1>4. CASE ~is_updated(MyE)
  BY <1>1, <1>4, SameContents DEF OpenWrites, Serving
<1> QED BY <1>3, <1>4

LEMMA SealDContents ==
    ASSUME TypeOK, CallInv, Serving, SealD
    PROVE  Contents' /\ ShowsStay /\ SameNodes
<1>1. /\ call.pc = "open" /\ UNCHANGED <<platter, bits>>
      /\ node' = IF ~call.decrypt /\ MyD # NoNode /\ is_updated(MyD) THEN SealedInto(MyD) ELSE node
  BY DEF SealD, deviceVars, MyD
<1>2. MyD # NoNode => MyD \in Nodes /\ is_decrypted(MyD) BY <1>1, ServedNodes
<1>3. CASE ~call.decrypt /\ MyD # NoNode /\ is_updated(MyD)
  BY <1>1, <1>2, <1>3, SealContents DEF Serving
<1>4. CASE ~(~call.decrypt /\ MyD # NoNode /\ is_updated(MyD))
  BY <1>1, <1>4, SameContents DEF Serving
<1> QED BY <1>3, <1>4

\* The nodes that start over were clean, and are nobody else's partners.
LEMMA ResetContents ==
    ASSUME TypeOK, CallInv, Serving, Reset
    PROVE  Contents' /\ ShowsStay
<1>1. call.pc = "reset" /\ UNCHANGED <<platter, bits>> BY DEF Reset, deviceVars
<1>2. /\ call.b \in Blocks /\ MyE \in Nodes /\ MyD \in Nodes \cup {NoNode}
      /\ ResetsD /\ ~call.newE => MyD # MyE
  BY ResetNodes
<1>3. ASSUME NEW m \in Nodes
      PROVE  /\ node'[m].data = node[m].data
             /\ IF call.newE /\ m = MyE
                THEN /\ node'[m].blk = call.b /\ node'[m].status = "uninited"
                     /\ node'[m].encrypted = NoNode
                ELSE IF ResetsD /\ m = MyD
                THEN /\ node'[m].blk = call.b /\ node'[m].status = "uninited"
                     /\ node'[m].encrypted = MyE
                ELSE node'[m] = node[m]
  BY ResetNodes
<1> DEFINE Over(m) == (call.newE /\ m = MyE) \/ (ResetsD /\ m = MyD)
<1>4. \A m \in Nodes : Over(m) => ~is_updated(m) /\ Taken(m)
  <2>1. ResetsD => call.newD BY DEF Serving, NotLost, ResetsD
  <2> QED BY <2>1 DEF CallInv, InCall, Taken
<1>5. \A m \in Nodes : ~Over(m) => node'[m] = node[m] BY <1>3
<1>6. \A m \in Nodes : Over(m) => node'[m].status = "uninited" BY <1>3
<1>7. \A m \in Nodes : Taken(m) => Over(m)
  <2>1. call.newD => MyD # NoNode BY <1>1 DEF CallInv, InCall, Found
  <2> QED BY <2>1 DEF Taken, ResetsD
<1>8. \A m \in Nodes : is_decrypted(m) /\ ~Over(m) =>
        /\ node[m].encrypted \in Nodes /\ ~Over(node[m].encrypted)
        /\ ~is_decrypted(node[m].encrypted)
        /\ node[node[m].encrypted].blk = node[m].blk
  <2>1. SUFFICES ASSUME NEW m \in Nodes, is_decrypted(m), ~Over(m)
                 PROVE  node[m].encrypted \in Nodes /\ ~Over(node[m].encrypted)
    BY PartnerOf DEF Serving, Contents
  <2>2. Older(m) BY <1>7, <2>1 DEF Serving, Aged
  <2>3. node[m].encrypted \in Nodes BY <2>1, PartnerOf DEF Serving, Contents
  <2>4. ~Taken(node[m].encrypted) BY <2>2 DEF Older, Taken
  <2>5. ~Over(node[m].encrypted) BY <1>4, <2>3, <2>4
  <2> QED BY <2>3, <2>5
<1> HIDE DEF Over
<1>9. \A a : readblk(a)' = readblk(a) BY <1>1 DEF readblk
<1>10. Whole'
  <2>1. SUFFICES ASSUME NEW m \in Nodes, is_decrypted(m)'
                 PROVE  /\ is_me(node[m].encrypted, node[m].blk)'
                        /\ node'[m].status # "uninited" => node'[node'[m].encrypted].status # "uninited"
    BY DEF Whole
  <2>2. CASE Over(m)
    <3>1. /\ node'[m].blk = call.b /\ node'[m].status = "uninited"
          /\ node'[m].encrypted = MyE
      BY <1>3, <2>1, <2>2 DEF Over, is_decrypted
    <3>2. node'[MyE].blk = call.b
      <4>1. CASE call.newE BY <1>2, <1>3, <4>1
      <4>2. CASE ~call.newE
        <5>1. is_me(MyE, call.b) BY <1>1, <4>2 DEF CallInv, InCall, Found
        <5> QED BY <1>2, <1>3, <4>2, <5>1 DEF is_me
      <4> QED BY <4>1, <4>2
    <3> QED BY <1>2, <3>1, <3>2, NodesFact DEF is_me
  <2>3. CASE ~Over(m)
    <3>1. node'[m] = node[m] BY <1>5, <2>3
    <3>2. is_decrypted(m) BY <2>1, <3>1 DEF is_decrypted
    <3>3. node[m].encrypted \in Nodes /\ node'[node[m].encrypted] = node[node[m].encrypted]
      BY <1>5, <1>8, <2>3, <3>2
    <3> QED BY <3>1, <3>2, <3>3 DEF Serving, Contents, Whole, is_me
  <2> QED BY <2>2, <2>3
<1>11. Data' /\ Device' BY <1>1, <1>5, <1>6 DEF Serving, Contents, Data, Device, NodeKey, is_decrypted
<1>12. Clean'
  <2>1. SUFFICES ASSUME NEW m \in Nodes, node'[m].status = "inited"
                 PROVE  IF is_decrypted(m)'
                        THEN node'[node'[m].encrypted].data = Seal(node'[m].blk, node'[m].data)
                        ELSE node'[m].data = readblk(node'[m].blk)
    BY <1>9 DEF Clean
  <2>2. ~Over(m) /\ node'[m] = node[m] BY <1>5, <1>6, <2>1
  <2>3. is_decrypted(m) => node'[node[m].encrypted] = node[node[m].encrypted]
    BY <1>5, <1>8, <2>2
  <2> QED BY <2>1, <2>2, <2>3 DEF Serving, Contents, Clean, is_decrypted
<1>13. ShowsStay
  <2>1. SUFFICES ASSUME NEW a \in Blocks, NEW v, Shows(a, v) PROVE Shows(a, v)'
    BY DEF ShowsStay
  <2>2. ASSUME NEW m \in Nodes, Holds(m, a)'
        PROVE  node'[m] = node[m] /\ Holds(m, a)
    <3>1. ~Over(m) BY <1>6, <2>2 DEF Holds
    <3> QED BY <1>5, <2>2, <3>1 DEF Holds, is_me
  <2>3. \A m \in Nodes : is_updated(m) => node'[m] = node[m] BY <1>4, <1>5
  <2>4. DirtyD(a) => DirtyD(a)' BY <2>3 DEF DirtyD, is_updated, is_decrypted
  <2>5. Dirty(a) => Dirty(a)' BY <2>3 DEF Dirty, is_updated
  <2>6. \A m \in Nodes : Holds(m, a)' => (is_decrypted(m)' <=> is_decrypted(m))
    BY <2>2 DEF is_decrypted
  <2> QED BY <1>9, <2>1, <2>2, <2>4, <2>5, <2>6 DEF Shows
<1> QED BY <1>10, <1>11, <1>12, <1>13 DEF Contents

\* A client writes v into cell c.
Changed(x, c, v) == [x EXCEPT ![c] = [key |-> NoBlock, val |-> v]]

LEMMA ClientWrites ==
    ASSUME TypeOK, CallInv, Serving, NEW c \in Cells, NEW v \in Values, Write(c, v)
    PROVE  /\ Contents' /\ SameNodes
           /\ \A a \in Blocks : \A x, y :
                 Shows(a, x) /\ y = (IF a = call.b THEN Changed(x, c, v) ELSE x) => Shows(a, y)'
<1>1. /\ call.pc = "act" /\ call.decrypt /\ UNCHANGED <<platter, bits>>
      /\ WroteCell(MyD, c, v)
  BY DEF Write, Target, MyD, deviceVars, WroteCell
<1>2. PICK d, b : d = MyD /\ b = call.b OBVIOUS
<1>3. /\ b \in Blocks /\ d \in Nodes /\ is_decrypted(d) /\ node[d].blk = b
      /\ index[b].decrypt = d
  BY <1>1, <1>2, ServedNodes
<1>4. node[d].status # "uninited" BY <1>1, <1>2 DEF CallInv, InCall
<1>5. /\ node'[d].status = "updated"
      /\ node'[d].data = Changed(node[d].data, c, v)
      /\ \A m \in Nodes :
           /\ node'[m].blk = node[m].blk
           /\ node'[m].encrypted = node[m].encrypted
           /\ m # d => node'[m] = node[m]
  <2>1. WroteCell(d, c, v) BY <1>1, <1>2
  <2> QED BY <1>3, <2>1, WrittenNode DEF Changed
<1>6. \A m \in Nodes : is_decrypted(m)' <=> is_decrypted(m) BY <1>5 DEF is_decrypted
<1>7. \A a : readblk(a)' = readblk(a) BY <1>1 DEF readblk
<1>8. \A m \in Nodes : is_decrypted(m) => node[m].encrypted \in Nodes \ {d}
  BY <1>3, PartnerOf DEF Serving, Contents
<1>9. Whole' BY <1>3, <1>4, <1>5, <1>8, WholeStays DEF Serving, Contents, Whole
<1>10. Data'
  <2>1. SUFFICES ASSUME NEW m \in Nodes, node'[m].status # "uninited"
                 PROVE  Keyed(node'[m].data, NodeKey(m))
    BY <1>5, <1>6 DEF Data, NodeKey
  <2>2. CASE m = d
    <3>1. Keyed(node[d].data, NoBlock) BY <1>3, <1>4 DEF Serving, Contents, Data, NodeKey
    <3>2. node[d].data \in Buffer /\ v # NoValue BY <1>3, NodeFacts, SNCacheAssumption
    <3>3. Keyed(Changed(node[d].data, c, v), NoBlock) BY <3>1, <3>2 DEF Keyed, Changed, Buffer
    <3> QED BY <1>3, <1>5, <2>2, <3>3 DEF NodeKey
  <2>3. CASE m # d BY <1>5, <2>1, <2>3 DEF Serving, Contents, Data
  <2> QED BY <2>2, <2>3
<1>11. Device' BY <1>1 DEF Serving, Contents, Device
<1>12. Clean'
  <2>1. SUFFICES ASSUME NEW m \in Nodes, node'[m].status = "inited"
                 PROVE  IF is_decrypted(m)
                        THEN node'[node[m].encrypted].data = Seal(node[m].blk, node'[m].data)
                        ELSE node'[m].data = readblk(node[m].blk)
    BY <1>5, <1>6, <1>7 DEF Clean
  <2>2. m # d /\ node'[m] = node[m] BY <1>5, <2>1
  <2>3. is_decrypted(m) => node'[node[m].encrypted] = node[node[m].encrypted] BY <1>5, <1>8
  <2> QED BY <2>1, <2>2, <2>3 DEF Serving, Contents, Clean
<1>13. ASSUME NEW a \in Blocks, NEW x, NEW y, Shows(a, x),
              y = (IF a = call.b THEN Changed(x, c, v) ELSE x)
       PROVE  Shows(a, y)'
  <2>1. CASE a # b
    <3>1. \A m \in Nodes : node[m].blk = a => node'[m] = node[m] BY <1>3, <1>5, <2>1
    <3>2. \A m \in Nodes : Holds(m, a)' <=> Holds(m, a) BY <1>5, <3>1 DEF Holds, is_me
    <3>3. (DirtyD(a)' <=> DirtyD(a)) /\ (Dirty(a)' <=> Dirty(a))
      BY <1>5, <1>6, <3>1 DEF DirtyD, Dirty, is_updated
    <3>4. \A m \in Nodes : Holds(m, a) => node'[m].data = node[m].data BY <3>1 DEF Holds, is_me
    <3>5. y = x BY <1>2, <1>13, <2>1
    <3> QED BY <1>6, <1>7, <1>13, <3>2, <3>3, <3>4, <3>5 DEF Shows
  <2>2. CASE a = b
    <3>1. DirtyD(a)' /\ Dirty(a)' BY <1>3, <1>5, <1>6, <2>2 DEF DirtyD, Dirty, is_updated
    <3>2. Holds(d, a) BY <1>3, <1>4, <2>2, NodesFact DEF Holds, is_me
    <3>3. node'[d].data = y BY <1>2, <1>3, <1>5, <1>13, <2>2, <3>2 DEF Shows
    <3>4. ASSUME NEW m \in Nodes, Holds(m, a)', is_decrypted(m) PROVE m = d
      BY <1>3, <1>5, <2>2, <3>4, OfBlock DEF Holds, is_me, CallInv
    <3> QED BY <1>6, <3>1, <3>3, <3>4 DEF Shows
  <2> QED BY <2>1, <2>2
<1> QED BY <1>5, <1>9, <1>10, <1>11, <1>12, <1>13 DEF Contents, SameNodes

-----------------------------------------------------------------------------
(* Each step keeps what the node serves from.                              *)

LEMMA AgedStays ==
    ASSUME TypeOK, Serving, AnchorsStay, SameNodes, \A m \in Nodes : Taken(m) => Taken(m)'
    PROVE  Aged'
<1>1. SUFFICES ASSUME NEW m \in Nodes, is_decrypted(m)' PROVE Taken(m)' \/ Older(m)'
  BY DEF Aged
<1>2. is_decrypted(m) BY <1>1 DEF SameNodes, is_decrypted
<1>3. Taken(m) \/ Anchored(m) BY <1>2 DEF Serving, Contents, Whole, Aged, Anchored
<1> QED BY <1>3 DEF AnchorsStay

LEMMA KindsStay ==
    ASSUME TypeOK, TypeOK', Serving, SameNodes,
           \A b \in Blocks : index'[b].decrypt = index[b].decrypt \/ ~is_me(index'[b].decrypt, b)
    PROVE  Kinds'
<1>1. SUFFICES ASSUME NEW b \in Blocks, NEW d, d = index'[b].decrypt, d # NoNode, node'[d].blk = b
               PROVE  node'[d].encrypted # NoNode
  BY DEF Kinds, is_me, is_decrypted
<1>2. d \in Nodes BY <1>1 DEF TypeOK
<1>3. node[d].blk = b /\ node'[d].encrypted = node[d].encrypted BY <1>1, <1>2 DEF SameNodes
<1>4. index[b].decrypt = d BY <1>1, <1>3 DEF is_me
<1>5. is_decrypted(d) BY <1>1, <1>3, <1>4 DEF Serving, Kinds, is_me
<1> QED BY <1>3, <1>5 DEF is_decrypted

\* Nothing is taken: outside of an access, and after it has its nodes.
LEMMA QuietServes ==
    ASSUME TypeOK, TypeOK', CallInv, Serving, Contents', SameNodes, UNCHANGED <<index, lru>>,
           call.pc \notin {"encrypt", "reset"}, ~call'.newD, ~call'.newE,
           call'.pc = "act" /\ ~call'.decrypt /\ MyD' # NoNode => ~is_updated(MyD)'
    PROVE  Serving'
<1>1. \A m \in Nodes : ~Taken(m) BY DEF CallInv, InCall, Taken
<1>2. AnchorsStay
  <2>1. ASSUME NEW m \in Nodes, Anchored(m) PROVE Older(m)'
    <3>1. Before(lru, node[m].encrypted, m) BY <2>1 DEF Anchored, Older
    <3>2. node'[m].encrypted = node[m].encrypted BY DEF SameNodes
    <3> QED BY <3>1, <3>2 DEF Older
  <2> QED BY <2>1 DEF AnchorsStay
<1>3. Aged' BY <1>1, <1>2, AgedStays
<1>4. Kinds' BY KindsStay
<1>5. NotLost' BY DEF NotLost
<1> QED BY <1>3, <1>4, <1>5 DEF Serving

\* An access begins, or ends without having changed a node.
LEMMA BeginEndServes ==
    ASSUME TypeOK, TypeOK', CallInv, Serving, UNCHANGED <<node, index, lru, platter, bits>>,
           call.pc \notin {"encrypt", "reset"}, call'.pc # "act", ~call'.newD, ~call'.newE
    PROVE  Serving' /\ ShowsStay
<1>1. Contents' /\ ShowsStay /\ SameNodes BY SameContents DEF Serving
<1> QED BY <1>1, QuietServes

LEMMA StandStill ==
    ASSUME TypeOK, Serving, UNCHANGED <<node, index, lru, platter, bits, call>>
    PROVE  Serving' /\ ShowsStay
<1>1. Contents' /\ ShowsStay BY SameContents DEF Serving
<1>2. Aged'
  BY DEF Serving, Aged, Taken, Older, MyD, MyE, is_decrypted
<1>3. Kinds' /\ NotLost' BY DEF Serving, Kinds, NotLost, MyD, MyE, is_me, is_decrypted, is_updated
<1> QED BY <1>1, <1>2, <1>3 DEF Serving

LEMMA OutsideServes ==
    ASSUME TypeOK, TypeOK', CallInv, Serving,
           \/ \E b \in Blocks, decrypt \in BOOLEAN : Access(b, decrypt)
           \/ FlushTimeout \/ FlushPop \/ FlushAccess \/ Stop \/ Close
    PROVE  Serving' /\ ShowsStay
<1>1. CASE \E b \in Blocks, decrypt \in BOOLEAN : Access(b, decrypt)
  <2>1. PICK b \in Blocks, decrypt \in BOOLEAN : Access(b, decrypt) BY <1>1
  <2>2. /\ call = NoCall /\ UNCHANGED <<node, index, lru, platter, bits>>
        /\ call' = [NoCall EXCEPT !.pc = "decrypt", !.b = b, !.decrypt = decrypt]
    BY <2>1 DEF Access, cacheVars, deviceVars
  <2>3. call'.pc = "decrypt" /\ ~call'.newD /\ ~call'.newE
    BY ONLY <2>2 DEF NoCall
  <2> QED BY <2>2, <2>3, Idle, BeginEndServes
<1>2. CASE FlushAccess
  <2>2. /\ call = NoCall /\ UNCHANGED <<node, index, lru, platter, bits>>
        /\ call' = [NoCall EXCEPT !.pc = "decrypt", !.b = flusher.b,
                                  !.decrypt = flusher.decrypt, !.flush = TRUE]
    BY <1>2 DEF FlushAccess, cacheVars, deviceVars
  <2>3. call'.pc = "decrypt" /\ ~call'.newD /\ ~call'.newE
    BY ONLY <2>2 DEF NoCall
  <2> QED BY <2>2, <2>3, Idle, BeginEndServes
<1>3. CASE FlushTimeout \/ FlushPop \/ Stop \/ Close
  BY <1>3, StandStill DEF FlushTimeout, FlushPop, Stop, Close, cacheVars, deviceVars
<1> QED BY <1>1, <1>2, <1>3

LEMMA KeepDecryptServes ==
    ASSUME TypeOK, CallInv, visit >= 0, Serving, KeepDecrypt
    PROVE  Serving' /\ ShowsStay
<1>1. TypeOK' /\ AnchorsStay BY KeepDecryptInv
<1>2. /\ call.pc = "decrypt" /\ call' = [call EXCEPT !.pc = "encrypt"]
      /\ UNCHANGED <<node, platter, bits>>
      /\ index' = index \/ NewDecrypt(call.b, NoNode)
  BY DEF KeepDecrypt, NewDecrypt, deviceVars
<1>3. call.b \in Blocks /\ ~call.newD /\ ~call.newE BY <1>2, TouchedFacts
<1>4. call'.pc = "encrypt" /\ ~call'.newD /\ ~call'.newE BY <1>2, <1>3, CallNext
<1>5. Contents' /\ ShowsStay /\ SameNodes BY <1>2, SameContents DEF Serving
<1>6. Aged' BY <1>1, <1>3, <1>5, AgedStays DEF Taken
<1>7. Kinds'
  <2>1. \A b \in Blocks : index'[b].decrypt \in {index[b].decrypt, NoNode}
    BY <1>2, <1>3, IndexNext
  <2> QED BY <1>1, <1>5, <2>1, KindsStay DEF is_me
<1>8. NotLost' BY <1>4 DEF NotLost
<1> QED BY <1>5, <1>6, <1>7, <1>8 DEF Serving

LEMMA TakeDecryptServes ==
    ASSUME TypeOK, CallInv, visit >= 0, Serving, TakeDecrypt
    PROVE  Serving' /\ ShowsStay
<1>1. TypeOK' /\ AnchorsStay BY TakeDecryptInv
<1>2. PICK n : n = Oldest(Touched) OBVIOUS
<1>3. /\ call.pc = "decrypt" /\ ~is_me(MyD, call.b) /\ NewDecrypt(call.b, n)
      /\ IF is_updated(n) THEN Flush(n) ELSE UNCHANGED <<node, platter, bits>>
      /\ call' = [call EXCEPT !.pc = "encrypt", !.newD = TRUE]
  BY <1>2 DEF TakeDecrypt, MyD, NewDecrypt
<1>4. call.b \in Blocks /\ ~call.newD /\ ~call.newE BY <1>3, TouchedFacts
<1>5. n \in Nodes /\ node[n].blk # call.b BY <1>2, <1>3, OldestTouched
<1>6. call'.pc = "encrypt" /\ ~call'.newE
  <2>1. call \in Calls BY DEF TypeOK, Calls
  <2> QED BY ONLY <1>3, <1>4, <2>1 DEF Calls
<1>7. Contents' /\ ShowsStay /\ SameNodes BY <1>3, <1>5, FlushContents DEF Serving
<1>8. Aged' BY <1>1, <1>4, <1>7, AgedStays DEF Taken
<1>9. Kinds'
  <2>1. \A b \in Blocks : index'[b].decrypt = index[b].decrypt \/ ~is_me(index'[b].decrypt, b)
    BY <1>3, <1>4, <1>5, IndexNext DEF is_me
  <2> QED BY <1>1, <1>7, <2>1, KindsStay
<1>10. NotLost' BY <1>6 DEF NotLost
<1> QED BY <1>7, <1>8, <1>9, <1>10 DEF Serving

LEMMA KeepEncryptServes ==
    ASSUME TypeOK, CallInv, visit >= 0, Serving, KeepEncrypt
    PROVE  Serving' /\ ShowsStay
<1>1. TypeOK' /\ AnchorsStay BY KeepEncryptInv
<1>2. /\ call.pc = "encrypt" /\ call' = [call EXCEPT !.pc = "reset"]
      /\ UNCHANGED <<node, index, platter, bits>>
  BY DEF KeepEncrypt, deviceVars
<1>3. ~call.newE BY <1>2, HalfWay
<1>4. call'.pc = "reset" /\ call'.b = call.b /\ call'.newD = call.newD /\ ~call'.newE
  BY <1>2, <1>3, CallNext
<1>5. Contents' /\ ShowsStay /\ SameNodes BY <1>2, SameContents DEF Serving
<1>6. Aged' BY <1>1, <1>2, <1>3, <1>4, <1>5, AgedStays DEF Taken, MyD
<1>7. Kinds' BY <1>1, <1>2, <1>5, KindsStay
<1>8. NotLost' BY <1>4 DEF NotLost
<1> QED BY <1>5, <1>6, <1>7, <1>8 DEF Serving

LEMMA TakeEncryptServes ==
    ASSUME TypeOK, CallInv, visit >= 0, Serving, TakeEncrypt
    PROVE  Serving' /\ ShowsStay
<1>1. TypeOK' /\ AnchorsStay BY TakeEncryptInv
<1>2. PICK n : n = Oldest(lru) OBVIOUS
<1>3. /\ call.pc = "encrypt" /\ ~is_me(MyE, call.b) /\ NewEncrypt(call.b, n)
      /\ IF is_updated(n) THEN Flush(n) ELSE UNCHANGED <<node, platter, bits>>
      /\ call' = [call EXCEPT !.pc = "reset", !.newE = TRUE]
  BY <1>2 DEF TakeEncrypt, MyE, NewEncrypt
<1>4. call.b \in Blocks /\ ~call.newE /\ MyD \in Nodes \cup {NoNode} BY <1>3, HalfWay
<1>5. n \in Nodes BY <1>2, <1>3, OldestHalfWay
<1>6. call'.pc = "reset" /\ call'.b = call.b /\ call'.newD = call.newD
  <2>1. call \in Calls BY DEF TypeOK, Calls
  <2> QED BY ONLY <1>3, <2>1 DEF Calls
<1>7. Contents' /\ ShowsStay /\ SameNodes BY <1>3, <1>5, FlushContents DEF Serving
<1>8. \A b \in Blocks : index'[b].decrypt = index[b].decrypt BY <1>3, <1>4, <1>5, IndexNext
<1>9. MyD' = MyD BY <1>4, <1>6, <1>8 DEF MyD
<1>10. Aged' BY <1>1, <1>4, <1>6, <1>7, <1>9, AgedStays DEF Taken
<1>11. Kinds' BY <1>1, <1>7, <1>8, KindsStay
<1>12. NotLost'
  <2>1. ASSUME ~call.newD, MyD # NoNode PROVE FALSE
    <3>1. is_me(MyD, call.b) BY <1>3, <2>1 DEF CallInv, InCall
    <3>2. MyD \in Nodes /\ node[MyD].blk = call.b /\ is_decrypted(MyD)
      BY <1>4, <2>1, <3>1 DEF is_me, Serving, Kinds, MyD
    <3>3. /\ node[MyD].encrypted \in Nodes /\ node[node[MyD].encrypted].blk = call.b
          /\ MyE = node[MyD].encrypted
      BY <3>2, PartnerOf DEF Serving, Contents, MyE
    <3> QED BY <1>3, <3>3, NodesFact DEF is_me
  <2> QED BY <1>6, <1>9, <2>1 DEF NotLost
<1> QED BY <1>7, <1>10, <1>11, <1>12 DEF Serving

LEMMA ResetServes ==
    ASSUME TypeOK, CallInv, visit >= 0, Serving, Reset
    PROVE  Serving' /\ ShowsStay
<1>1. TypeOK' BY ResetInv
<1>2. /\ call.pc = "reset" /\ UNCHANGED <<index, lru>>
      /\ call' = [call EXCEPT !.pc = "load", !.newD = FALSE, !.newE = FALSE]
  BY DEF Reset
<1>3. call'.pc = "load" /\ call'.b = call.b /\ ~call'.newD /\ ~call'.newE
  <2>1. call \in Calls BY DEF TypeOK, Calls
  <2> QED BY ONLY <1>2, <2>1 DEF Calls
<1>4. /\ call.b \in Blocks /\ MyE \in Nodes /\ MyD \in Nodes \cup {NoNode}
      /\ ResetsD /\ ~call.newE => MyD # MyE
  BY ResetNodes
<1>5. ASSUME NEW m \in Nodes
      PROVE  IF call.newE /\ m = MyE
             THEN /\ node'[m].blk = call.b /\ node'[m].encrypted = NoNode
             ELSE IF ResetsD /\ m = MyD
             THEN /\ node'[m].blk = call.b /\ node'[m].encrypted = MyE
             ELSE node'[m] = node[m]
  BY ResetNodes
<1>6. lru[1] = MyE BY <1>2 DEF CallInv, InCall, Found
<1>7. ResetsD => call.newD BY DEF Serving, NotLost, ResetsD
<1>8. call.newD => MyD # NoNode /\ (call.newE => MyD # MyE)
  BY <1>2 DEF CallInv, InCall, Found
<1>9. Contents' /\ ShowsStay BY ResetContents
<1>10. Aged'
  <2>1. SUFFICES ASSUME NEW m \in Nodes, is_decrypted(m)'
                 PROVE  Before(lru, node'[m].encrypted, m)
    BY <1>2, <1>3 DEF Aged, Older
  <2>2. CASE ResetsD /\ m = MyD
    <3>1. node'[m].encrypted = MyE /\ m # MyE BY <1>4, <1>5, <1>7, <1>8, <2>2
    <3> QED BY <1>6, <3>1, CallFacts, FirstIsBefore
  <2>3. CASE ~(ResetsD /\ m = MyD)
    <3>1. ~(call.newE /\ m = MyE) BY <1>5, <2>1 DEF is_decrypted
    <3>2. node'[m] = node[m] BY <1>5, <2>3, <3>1
    <3>3. is_decrypted(m) BY <2>1, <3>2 DEF is_decrypted
    <3>4. ~Taken(m) BY <1>8, <2>3, <3>1 DEF Taken, ResetsD
    <3> QED BY <1>2, <3>2, <3>3, <3>4 DEF Serving, Aged, Older
  <2> QED BY <2>2, <2>3
<1>11. Kinds'
  <2>1. SUFFICES ASSUME NEW b \in Blocks, NEW d, d = index[b].decrypt, d # NoNode, node'[d].blk = b
                 PROVE  node'[d].encrypted # NoNode
    BY <1>2 DEF Kinds, is_me, is_decrypted
  <2>2. d \in Nodes BY <2>1, IndexFacts
  <2>3. CASE b = call.b
    <3>1. d = MyD BY <2>1, <2>3 DEF MyD
    <3>2. CASE ResetsD BY <1>4, <1>5, <1>7, <1>8, <2>2, <3>1, <3>2, NodesFact
    <3>3. CASE ~ResetsD
      <4>1. ~call.newE BY <2>1, <3>1, <3>3 DEF ResetsD
      <4>2. node'[d] = node[d] BY <1>5, <2>2, <3>3, <4>1
      <4> QED BY <2>1, <4>2 DEF Serving, Kinds, is_me, is_decrypted
    <3> QED BY <3>2, <3>3
  <2>4. CASE b # call.b
    <3>1. node'[d] = node[d] BY <1>5, <2>1, <2>2, <2>4
    <3> QED BY <2>1, <3>1 DEF Serving, Kinds, is_me, is_decrypted
  <2> QED BY <2>3, <2>4
<1>12. NotLost' BY <1>3 DEF NotLost
<1> QED BY <1>9, <1>10, <1>11, <1>12 DEF Serving

LEMMA LoadServes ==
    ASSUME TypeOK, CallInv, visit >= 0, Serving, Load
    PROVE  Serving' /\ ShowsStay
<1>1. TypeOK' BY LoadInv
<1>2. /\ call.pc = "load" /\ UNCHANGED <<index, lru>> /\ call' = [call EXCEPT !.pc = "open"]
  BY DEF Load
<1>3. ~call.newD /\ ~call.newE BY <1>2, FoundNodes
<1>4. call'.pc = "open" /\ ~call'.newD /\ ~call'.newE BY <1>2, <1>3, CallNext
<1>5. Contents' /\ ShowsStay /\ SameNodes BY LoadContents
<1> QED BY <1>1, <1>2, <1>4, <1>5, QuietServes

\* An access ends.
LEMMA EndServes ==
    ASSUME TypeOK, TypeOK', CallInv, Serving, Contents', SameNodes, UNCHANGED <<index, lru>>,
           call.pc \in {"load", "open", "act"}, call' = NoCall
    PROVE  Serving'
<1>1. call'.pc = "idle" /\ ~call'.newD /\ ~call'.newE BY Idle
<1> QED BY <1>1, QuietServes

LEMMA LoadFailsServes ==
    ASSUME TypeOK, CallInv, visit >= 0, Serving, LoadFails \/ Read
    PROVE  Serving' /\ ShowsStay
<1>1. TypeOK' BY LoadFailsInv, ReadInv
<1>2. /\ call.pc \in {"load", "open", "act"} /\ call' = NoCall
      /\ UNCHANGED <<node, index, lru, platter, bits>>
  BY DEF LoadFails, Read, Throw, cacheVars, deviceVars
<1>3. Contents' /\ ShowsStay /\ SameNodes BY <1>2, SameContents DEF Serving
<1> QED BY <1>1, <1>2, <1>3, EndServes

LEMMA OpenDServes ==
    ASSUME TypeOK, CallInv, visit >= 0, Serving, OpenD
    PROVE  Serving' /\ ShowsStay
<1>1. TypeOK' BY OpenDInv
<1>2. /\ call.pc = "open" /\ call.decrypt /\ UNCHANGED <<index, lru>>
      /\ call' = [call EXCEPT !.pc = "act"]
  BY DEF OpenD, NeedsOpen
<1>3. ~call.newD /\ ~call.newE BY <1>2, FoundNodes
<1>4. call'.pc = "act" /\ call'.decrypt /\ ~call'.newD /\ ~call'.newE BY <1>2, <1>3, CallNext
<1>5. Contents' /\ ShowsStay /\ SameNodes BY OpenContents
<1> QED BY <1>1, <1>2, <1>4, <1>5, QuietServes

LEMMA OpenFailsServes ==
    ASSUME TypeOK, CallInv, visit >= 0, Serving, OpenFails, "write" \notin Faults
    PROVE  Serving' /\ ShowsStay
<1>1. TypeOK' BY OpenFailsInv
<1>2. call.pc = "open" /\ call' = NoCall /\ UNCHANGED <<index, lru>> BY DEF OpenFails, Throw
<1>3. Contents' /\ ShowsStay /\ SameNodes BY OpenFailsContents
<1> QED BY <1>1, <1>2, <1>3, EndServes

LEMMA SealDServes ==
    ASSUME TypeOK, CallInv, visit >= 0, Serving, SealD
    PROVE  Serving' /\ ShowsStay
<1>1. TypeOK' BY SealDInv
<1>2. /\ call.pc = "open" /\ UNCHANGED <<index, lru>> /\ call' = [call EXCEPT !.pc = "act"]
      /\ node' = IF ~call.decrypt /\ MyD # NoNode /\ is_updated(MyD) THEN SealedInto(MyD) ELSE node
  BY DEF SealD, MyD
<1>3. /\ ~call.newD /\ ~call.newE /\ call.b \in Blocks
      /\ MyD # NoNode => /\ MyD \in Nodes /\ is_decrypted(MyD) /\ node[MyD].encrypted = MyE
                         /\ node[MyD].blk = call.b /\ MyD # MyE
      /\ MyE \in Nodes
  BY <1>2, ServedNodes
<1>4. /\ call'.pc = "act" /\ call'.b = call.b /\ call'.decrypt = call.decrypt
      /\ ~call'.newD /\ ~call'.newE
  BY <1>2, <1>3, CallNext
<1>5. Contents' /\ ShowsStay /\ SameNodes BY SealDContents
<1>6. MyD' = MyD BY <1>2, <1>4 DEF MyD
<1>7. ASSUME ~call.decrypt, MyD # NoNode PROVE node'[MyD].status # "updated"
  <2>1. CASE is_updated(MyD)
    <3>1. node' = SealedInto(MyD) BY <1>2, <1>7, <2>1
    <3>2. SealedInto(MyD)[MyD].status = "inited" BY <1>3, <1>7, SealedNode
    <3> QED BY <3>1, <3>2
  <2>2. CASE ~is_updated(MyD) BY <1>2, <2>2 DEF is_updated
  <2> QED BY <2>1, <2>2
<1>8. call'.pc = "act" /\ ~call'.decrypt /\ MyD' # NoNode => ~is_updated(MyD)'
  BY <1>4, <1>6, <1>7 DEF is_updated
<1> QED BY <1>1, <1>2, <1>4, <1>5, <1>8, QuietServes

LEMMA WriteServes ==
    ASSUME TypeOK, CallInv, visit >= 0, Serving, NEW c \in Cells, NEW v \in Values, Write(c, v)
    PROVE  Serving'
<1>1. TypeOK' BY WriteInv
<1>2. call.pc = "act" /\ call' = NoCall /\ UNCHANGED <<index, lru>> BY DEF Write
<1>3. Contents' /\ SameNodes BY ClientWrites
<1> QED BY <1>1, <1>2, <1>3, EndServes

LEMMA FlushActServes ==
    ASSUME TypeOK, CallInv, visit >= 0, Serving, FlushAct
    PROVE  Serving' /\ ShowsStay
<1>1. TypeOK' BY FlushActInv
<1>2. /\ call.pc = "act" /\ call' = NoCall /\ UNCHANGED <<index, lru>>
      /\ IF is_updated(Target) THEN Flush(Target) ELSE UNCHANGED <<node, platter, bits>>
  BY DEF FlushAct
<1>3. PICK n : n = Target OBVIOUS
<1>4. n \in Nodes BY <1>2, <1>3, TargetNode
<1>5. IF is_updated(n) THEN Flush(n) ELSE UNCHANGED <<node, platter, bits>> BY <1>2, <1>3
<1>6. Contents' /\ ShowsStay /\ SameNodes BY <1>4, <1>5, FlushContents DEF Serving
<1> QED BY <1>1, <1>2, <1>6, EndServes

LEMMA StopVisitServes ==
    ASSUME TypeOK, CallInv, visit >= 0, Serving, StopVisit
    PROVE  Serving' /\ ShowsStay /\ SameNodes
<1>1. TypeOK' BY StopVisitInv
<1>2. /\ visit \in 1 .. Len(lru) /\ UNCHANGED <<index, lru, call>>
      /\ IF is_updated(Visited(visit)) THEN Flush(Visited(visit)) ELSE UNCHANGED <<node, platter, bits>>
  BY DEF StopVisit
<1>3. call = NoCall
  <2>1. visit > 0 BY <1>2, CallFacts, NodesFact
  <2> QED BY <2>1 DEF CallInv, InCall
<1>4. call.pc = "idle" /\ ~call.newD /\ ~call.newE BY <1>3, Idle
<1>5. PICK n : n = Visited(visit) OBVIOUS
<1>6. n \in Nodes BY <1>2, <1>5, VisitedNode
<1>7. IF is_updated(n) THEN Flush(n) ELSE UNCHANGED <<node, platter, bits>> BY <1>2, <1>5
<1>8. Contents' /\ ShowsStay /\ SameNodes BY <1>6, <1>7, FlushContents DEF Serving
<1> QED BY <1>1, <1>2, <1>4, <1>8, QuietServes

\* No write to the device fails.
LEMMA NoFailedWrite ==
    ASSUME "write" \notin Faults
    PROVE  ~TakeDecryptFails /\ ~TakeEncryptFails /\ ~FlushActFails /\ ~StopVisitFails
BY NoWriteFails DEF TakeDecryptFails, TakeEncryptFails, FlushActFails, StopVisitFails

\* A step of an access is a client's write or one that clients do not see.
LEMMA AccessStepServes ==
    ASSUME TypeOK, CallInv, visit >= 0, Serving, AccessStep, "write" \notin Faults
    PROVE  /\ Serving'
           /\ (\E c \in Cells, v \in Values : Write(c, v)) \/ ShowsStay
<1>1. CASE \E c \in Cells, v \in Values : Write(c, v) BY <1>1, WriteServes
<1>2. CASE ~(\E c \in Cells, v \in Values : Write(c, v))
  BY <1>2, NoFailedWrite, KeepDecryptServes, TakeDecryptServes, KeepEncryptServes,
     TakeEncryptServes, ResetServes, LoadServes, LoadFailsServes, OpenDServes, OpenFailsServes,
     SealDServes, FlushActServes DEF AccessStep
<1> QED BY <1>1, <1>2

-----------------------------------------------------------------------------
(* The walk of flush_and_stop, and all steps together.                     *)

LEMMA WalkBegins ==
    ASSUME TypeOK, TypeOK', visit' \in {-1, 0, 1}
    PROVE  Walk'
<1>1. Len(lru') = N /\ N >= 2 /\ N \in Nat BY OrderFacts, NodesFact DEF TypeOK
<1>2. ~Closed' BY <1>1 DEF Closed
<1>3. \A i \in 2 .. Len(lru') : ~(i < visit') BY <1>1
<1> QED BY <1>2, <1>3 DEF Walk

\* The partner of a C(D) is visited after it.
LEMMA VisitedLater ==
    ASSUME TypeOK, NEW k \in 1 .. Len(lru), NEW i \in 2 .. Len(lru), i < k
    PROVE  ~Before(lru, Visited(i), Visited(k))
<1>1. /\ DOMAIN lru = 1 .. N /\ Len(lru) = N /\ N \in Nat /\ N >= 2
      /\ \A p, q \in 1 .. N : lru[p] = lru[q] => p = q
  BY OrderFacts, NodesFact DEF TypeOK
<1>2. Visited(i) = lru[N + 2 - i] /\ Visited(k) = lru[N + 2 - k] BY <1>1 DEF Visited
<1>3. N + 2 - i \in 1 .. N /\ N + 2 - k \in 1 .. N /\ ~(N + 2 - i < N + 2 - k) BY <1>1
<1>4. SUFFICES ASSUME NEW p \in 1 .. N, NEW q \in 1 .. N, p < q,
                      lru[p] = lru[N + 2 - i], lru[q] = lru[N + 2 - k]
               PROVE  FALSE
  BY <1>1, <1>2 DEF Before
<1>5. p = N + 2 - i /\ q = N + 2 - k BY <1>1, <1>3, <1>4
<1> QED BY <1>3, <1>4, <1>5

LEMMA StopVisitWalks ==
    ASSUME TypeOK, CallInv, visit >= 0, Walk, StopVisit
    PROVE  Walk'
<1>1. PICK k, n : k = visit /\ n = Visited(visit) OBVIOUS
<1>2. /\ k \in 1 .. Len(lru) /\ visit' = k + 1
      /\ IF is_updated(n) THEN Flush(n) ELSE UNCHANGED <<node, platter, bits>>
      /\ UNCHANGED <<lru, keyMap, call>>
  BY <1>1 DEF StopVisit
<1>3. Len(lru) \in Nat /\ k \in Int BY <1>2, CallFacts, NodesFact
<1>4. call.pc = "idle"
  <2>1. visit > 0 BY <1>1, <1>2, <1>3
  <2> QED BY <2>1, Idle DEF CallInv, InCall
<1>5. n \in Nodes BY <1>1, <1>2, VisitedNode
<1>6. /\ node'[n].status # "updated"
      /\ \A m \in Nodes : node'[m].status = "updated" =>
           \/ is_updated(m)
           \/ is_updated(n) /\ is_decrypted(n) /\ m = node[n].encrypted
  BY <1>2, <1>5, FlushedOrNot
<1>7. is_updated(n) /\ is_decrypted(n) => Before(lru, node[n].encrypted, n)
  BY <1>4, <1>5, DirtyFacts DEF CallInv, Older
<1>8. ~Closed' BY <1>2, <1>3 DEF Closed
<1>9. ASSUME NEW i \in 2 .. Len(lru), i < k + 1 PROVE node'[Visited(i)].status # "updated"
  <2>1. CASE i = k BY <1>1, <1>6, <2>1
  <2>2. CASE i < k
    <3>1. ~is_updated(Visited(i)) BY <1>1, <1>2, <1>3, <2>2 DEF Walk
    <3>2. i \in 1 .. Len(lru) BY <1>3
    <3>3. Visited(i) \in Nodes BY <3>2, VisitedNode
    <3>4. ~Before(lru, Visited(i), n) BY <1>1, <1>2, <2>2, VisitedLater
    <3> QED BY <1>6, <1>7, <3>1, <3>3, <3>4
  <2> QED BY <1>3, <1>9, <2>1, <2>2
<1>10. \A i : Visited(i)' = Visited(i) BY <1>2 DEF Visited
<1> QED BY <1>2, <1>8, <1>9, <1>10 DEF Walk, is_updated

LEMMA CloseWalks ==
    ASSUME TypeOK, visit >= 0, Walk, Close
    PROVE  Walk'
<1>1. /\ visit = Len(lru) + 1 /\ savedBits' = bits /\ visit' = visit + 1
      /\ UNCHANGED <<node, lru, bits>>
  BY DEF Close, cacheVars
<1>2. Len(lru) \in Nat BY CallFacts, NodesFact
<1>3. \A i : Visited(i)' = Visited(i) /\ (is_updated(i)' <=> is_updated(i))
  BY <1>1 DEF Visited, is_updated
<1>4. \A i \in 2 .. Len(lru) : ~is_updated(Visited(i)) BY <1>1, <1>2 DEF Walk
<1> QED BY <1>1, <1>3, <1>4 DEF Walk, is_updated, Visited

\* The process has just started.
Fresh ==
    /\ node = [n \in Nodes |-> FreshNode]
    /\ index = [b \in Blocks |-> [encrypt |-> NoNode, decrypt |-> NoNode]]
    /\ call = NoCall /\ visit = 0 /\ lru \in Orders

LEMMA FreshServes == Fresh /\ Device => SInv
<1>1. SUFFICES ASSUME Fresh, Device PROVE SInv OBVIOUS
<1>2. \A n \in Nodes : ~is_decrypted(n) /\ node[n].status = "uninited"
  <2>1. FreshNode.encrypted = NoNode /\ FreshNode.status = "uninited" BY DEF FreshNode
  <2> QED BY <1>1, <2>1 DEF Fresh, is_decrypted
<1>3. \A b \in Blocks : index[b].decrypt = NoNode BY <1>1 DEF Fresh
<1>4. Contents BY <1>1, <1>2 DEF Contents, Whole, Data, Clean
<1>5. Aged /\ Kinds BY <1>2, <1>3 DEF Aged, Kinds, is_me
<1>6. NotLost BY <1>1, Idle DEF Fresh, NotLost
<1>7. Walk
  <2>1. Len(lru) \in Nat BY <1>1, OrderFacts, NodesFact DEF Fresh
  <2> QED BY <1>1, <2>1 DEF Fresh, Walk, Closed
<1> QED BY <1>1, <1>4, <1>5, <1>6, <1>7 DEF SInv, Serving

LEMMA FreshServesNext == Fresh' /\ Device' => SInv'
<1>1. Fresh /\ Device => SInv BY FreshServes
<1> QED BY <1>1, PTL

\* A step of a node that serves: a client's write, the end of the process, or a
\* step that clients do not see.
LEMMA StepServes ==
    ASSUME CInv, SInv, visit >= 0, Next, ~Restart, ~Crash, "write" \notin Faults
    PROVE  /\ TypeOK' /\ CallInv' /\ Serving' /\ Walk' /\ Up
           /\ (\E c \in Cells, v \in Values : Write(c, v)) \/ ShowsStay
<1>1. TypeOK /\ CallInv /\ Serving /\ Walk BY DEF CInv, SInv
<1>2. TypeOK' BY CInvNext DEF CInv
<1>0. 0 \in 0 .. (Len(lru) + 1) /\ Len(lru) \in Nat BY <1>1, CallFacts, NodesFact
<1>3. CASE AccessStep
  <2>1. visit' \in {-1, 0, 1} /\ visit = 0
    <3>1. call.pc # "idle"
      BY <1>3 DEF AccessStep, KeepDecrypt, TakeDecrypt, TakeDecryptFails, KeepEncrypt,
         TakeEncrypt, TakeEncryptFails, Reset, Load, LoadFails, OpenD, OpenFails, SealD, Write,
         Read, FlushAct, FlushActFails
    <3>2. visit = 0 BY <1>1, <3>1, RunningCall
    <3> QED BY <1>3, <3>2 DEF AccessStep, KeepDecrypt, TakeDecrypt, TakeDecryptFails,
         KeepEncrypt, TakeEncrypt, TakeEncryptFails, Reset, Load, LoadFails, OpenD, OpenFails,
         SealD, Write, Read, FlushAct, FlushActFails, Throw
  <2> QED BY <1>0, <1>1, <1>2, <1>3, <2>1, WalkBegins, AccessStepServes, AccessStepInv DEF Up
<1>4. CASE \/ \E b \in Blocks, decrypt \in BOOLEAN : Access(b, decrypt)
           \/ FlushTimeout \/ FlushPop \/ FlushAccess \/ Stop
  <2>1. visit' \in {-1, 0, 1} /\ visit = 0
    BY <1>4 DEF Access, FlushTimeout, FlushPop, FlushAccess, Stop, Running
  <2>2. CallInv'
    BY <1>1, <1>4, AccessInv, FlushTimeoutInv, FlushPopInv, FlushAccessInv, StopInv
  <2> QED BY <1>0, <1>1, <1>2, <1>4, <2>1, <2>2, WalkBegins, OutsideServes DEF Up
<1>5. CASE Close
  <2>1. CallInv' BY <1>1, <1>5, StopInv
  <2>2. Up BY <1>0, <1>5 DEF Close, Up
  <2> QED BY <1>1, <1>2, <1>5, <2>1, <2>2, CloseWalks, OutsideServes
<1>6. CASE StopVisit
  <2>1. CallInv' BY <1>1, <1>6, StopVisitInv
  <2>2. Up BY <1>0, <1>6 DEF StopVisit, Up
  <2> QED BY <1>1, <1>2, <1>6, <2>1, <2>2, StopVisitWalks, StopVisitServes
<1>7. ~StopVisitFails BY NoFailedWrite
<1> QED BY <1>2, <1>3, <1>4, <1>5, <1>6, <1>7 DEF Next

LEMMA RestartServes ==
    ASSUME CInv, SInv, Restart
    PROVE  SInv'
<1>1. /\ Fresh' /\ platter' = platter
  BY DEF Restart, Boot, Fresh, CInv, TypeOK
<1>2. Device' BY <1>1 DEF SInv, Device
<1> QED BY <1>1, <1>2, FreshServesNext

LEMMA SInvNext ==
    ASSUME CInv, SInv, [Next]_vars, "write" \notin Faults
    PROVE  SInv'
<1>1. visit \in Int BY CallFacts, NodesFact DEF CInv, TypeOK
<1>2. CASE Restart BY <1>2, RestartServes
<1>3. CASE Crash
  <2>1. visit' = -1 /\ platter' = platter BY <1>3 DEF Crash, deviceVars
  <2> QED BY <2>1 DEF SInv, Device
<1>4. CASE UNCHANGED vars
  <2>1. UNCHANGED <<node, lru, index, platter, bits, savedBits, call, visit>>
    BY <1>4 DEF vars, cacheVars, deviceVars, threadVars
  <2>2. Device' BY <2>1 DEF SInv, Device
  <2>3. visit >= 0 => Serving' BY <2>1, StandStill DEF SInv, CInv
  <2>4. Walk => Walk' BY <2>1 DEF Walk, Closed, Visited, is_updated
  <2> QED BY <2>1, <2>2, <2>3, <2>4 DEF SInv
<1>5. CASE Next /\ ~Restart /\ ~Crash
  <2>1. visit >= 0 BY <1>1, <1>5, DeadStep DEF CInv
  <2> QED BY <1>5, <2>1, StepServes DEF SInv, Serving, Contents
<1> QED BY <1>2, <1>3, <1>4, <1>5

LEMMA SInvInit ==
    ASSUME Init
    PROVE  SInv
<1>1. Fresh BY DEF Init, Fresh
<1>2. Device BY ZerosKeyed DEF Init, Device
<1> QED BY <1>1, <1>2, FreshServes

-----------------------------------------------------------------------------
(* What clients see.                                                       *)

ContentShown == \A b \in Blocks : \A v : Shows(b, v) <=> v = Content(b)

LEMMA ContentTyped ==
    ASSUME TypeOK, NEW b \in Blocks
    PROVE  Content(b) \in Buffer
<1>1. index[b].decrypt \in Nodes \cup {NoNode} /\ index[b].encrypt \in Nodes \cup {NoNode}
  BY IndexFacts
<1>2. \A n \in Nodes : node[n].data \in Buffer /\ Open(b, node[n].data) \in Buffer
  BY NodeFacts, SealType
<1>3. Open(b, readblk(b)) \in Buffer BY ReadType, SealType
<1> QED BY <1>1, <1>2, <1>3 DEF Content, Holds, is_me

\* The content of a block by the nodes it has.
LEMMA ContentCases ==
    ASSUME TypeOK, CallInv, Serving, NEW b \in Blocks
    PROVE  /\ \A n \in Nodes : Holds(n, b) /\ is_decrypted(n) =>
                /\ Content(b) = node[n].data
                /\ ~is_updated(n) =>
                     /\ Holds(node[n].encrypted, b) /\ ~is_decrypted(node[n].encrypted)
                     /\ Open(b, node[node[n].encrypted].data) = node[n].data
           /\ \A n \in Nodes : Holds(n, b) /\ ~is_decrypted(n) =>
                /\ \A m \in Nodes : Holds(m, b) /\ is_decrypted(m) => node[m].encrypted = n
                /\ (\A m \in Nodes : ~(Holds(m, b) /\ is_decrypted(m))) =>
                                         Content(b) = Open(b, node[n].data)
                /\ ~is_updated(n) => node[n].data = readblk(b)
           /\ (\A n \in Nodes : ~Holds(n, b)) => Content(b) = Open(b, readblk(b))
<1>1. index[b].decrypt \in Nodes \cup {NoNode} /\ index[b].encrypt \in Nodes \cup {NoNode}
  BY IndexFacts
<1>2. \A n \in Nodes : Holds(n, b) => /\ node[n].blk = b /\ node[n].status # "uninited"
                                      /\ ~is_updated(n) => node[n].status = "inited"
  BY NodeFacts DEF Holds, is_me, is_updated, NodeStatus
<1>3. \A n \in Nodes : Holds(n, b) /\ is_decrypted(n) => index[b].decrypt = n
  BY <1>2, OfBlock DEF CallInv
<1>4. \A n \in Nodes : Holds(n, b) /\ ~is_decrypted(n) => index[b].encrypt = n
  BY <1>2, OfBlock DEF CallInv
<1>5. ASSUME NEW n \in Nodes, Holds(n, b), is_decrypted(n)
      PROVE  /\ Content(b) = node[n].data
             /\ node[n].encrypted = index[b].encrypt
             /\ ~is_updated(n) =>
                  /\ Holds(node[n].encrypted, b) /\ ~is_decrypted(node[n].encrypted)
                  /\ Open(b, node[node[n].encrypted].data) = node[n].data
  <2>1. Content(b) = node[n].data BY <1>3, <1>5 DEF Content
  <2>2. /\ node[n].encrypted \in Nodes /\ ~is_decrypted(node[n].encrypted)
        /\ node[node[n].encrypted].blk = b /\ index[b].encrypt = node[n].encrypted
        /\ node[node[n].encrypted].status # "uninited"
    BY <1>2, <1>5, PartnerOf DEF Serving, Contents, Whole
  <2>3. Holds(node[n].encrypted, b) BY <2>2, NodesFact DEF Holds, is_me
  <2>4. Keyed(node[n].data, NoBlock) /\ node[n].data \in Buffer
    BY <1>2, <1>5, NodeFacts DEF Serving, Contents, Data, NodeKey
  <2>5. ~is_updated(n) => node[node[n].encrypted].data = Seal(b, node[n].data)
    BY <1>2, <1>5 DEF Serving, Contents, Clean
  <2> QED BY <2>1, <2>2, <2>3, <2>4, <2>5, SealKeyed
<1>6. ASSUME NEW n \in Nodes, Holds(n, b), ~is_decrypted(n)
      PROVE  /\ \A m \in Nodes : Holds(m, b) /\ is_decrypted(m) => node[m].encrypted = n
             /\ (\A m \in Nodes : ~(Holds(m, b) /\ is_decrypted(m))) =>
                                         Content(b) = Open(b, node[n].data)
             /\ ~is_updated(n) => node[n].data = readblk(b)
  <2>1. index[b].encrypt = n BY <1>4, <1>6
  <2>2. (\A m \in Nodes : ~(Holds(m, b) /\ is_decrypted(m))) =>
            ~(Holds(index[b].decrypt, b) /\ is_decrypted(index[b].decrypt))
    BY <1>1 DEF Holds, is_me
  <2>3. (\A m \in Nodes : ~(Holds(m, b) /\ is_decrypted(m))) => Content(b) = Open(b, node[n].data)
    BY <1>6, <2>1, <2>2 DEF Content
  <2>4. ~is_updated(n) => node[n].data = readblk(b)
    BY <1>2, <1>6 DEF Serving, Contents, Clean
  <2> QED BY <1>5, <2>1, <2>3, <2>4
<1>7. ASSUME \A n \in Nodes : ~Holds(n, b) PROVE Content(b) = Open(b, readblk(b))
  <2>1. ~Holds(index[b].decrypt, b) /\ ~Holds(index[b].encrypt, b)
    BY <1>1, <1>7 DEF Holds, is_me
  <2> QED BY <2>1 DEF Content
<1> QED BY <1>5, <1>6, <1>7

LEMMA ContentIsShown == TypeOK /\ CallInv /\ Serving => ContentShown
<1>1. SUFFICES ASSUME TypeOK, CallInv, Serving, NEW b \in Blocks, NEW v
               PROVE  Shows(b, v) <=> v = Content(b)
  BY DEF ContentShown
<1>2. \A n \in Nodes : is_updated(n) /\ node[n].blk = b => Holds(n, b)
  BY <1>1, NodesFact DEF Holds, is_me, is_updated
<1>3. ASSUME v = Content(b) PROVE Shows(b, v)
  <2>1. ASSUME NEW n \in Nodes, Holds(n, b)
        PROVE  IF is_decrypted(n) THEN node[n].data = v
                                  ELSE ~DirtyD(b) => Open(b, node[n].data) = v
    <3>1. CASE is_decrypted(n) BY <1>1, <1>3, <2>1, <3>1, ContentCases
    <3>2. CASE ~is_decrypted(n) /\ ~DirtyD(b)
      <4>1. CASE \E m \in Nodes : Holds(m, b) /\ is_decrypted(m)
        <5>1. PICK m \in Nodes : Holds(m, b) /\ is_decrypted(m) BY <4>1
        <5>2. ~is_updated(m) BY <3>2, <5>1 DEF DirtyD, Holds, is_me
        <5> QED BY <1>1, <1>3, <2>1, <3>2, <5>1, <5>2, ContentCases
      <4>2. CASE ~(\E m \in Nodes : Holds(m, b) /\ is_decrypted(m))
        BY <1>1, <1>3, <2>1, <3>2, <4>2, ContentCases
      <4> QED BY <4>1, <4>2
    <3> QED BY <3>1, <3>2
  <2>2. ASSUME ~Dirty(b) PROVE Open(b, readblk(b)) = v
    <3>1. \A n \in Nodes : Holds(n, b) => ~is_updated(n) BY <2>2 DEF Dirty, Holds, is_me
    <3>2. CASE \E m \in Nodes : Holds(m, b) /\ is_decrypted(m)
      <4>1. PICK m \in Nodes : Holds(m, b) /\ is_decrypted(m) BY <3>2
      <4>2. node[m].encrypted \in Nodes BY <1>1, <4>1, PartnerOf DEF Serving, Contents
      <4> QED BY <1>1, <1>3, <3>1, <4>1, <4>2, ContentCases
    <3>3. CASE /\ ~(\E m \in Nodes : Holds(m, b) /\ is_decrypted(m))
               /\ \E n \in Nodes : Holds(n, b)
      <4>1. PICK n \in Nodes : Holds(n, b) BY <3>3
      <4>2. ~is_decrypted(n) BY <3>3, <4>1
      <4> QED BY <1>1, <1>3, <3>1, <3>3, <4>1, <4>2, ContentCases
    <3>4. CASE \A n \in Nodes : ~Holds(n, b) BY <1>1, <1>3, <3>4, ContentCases
    <3> QED BY <3>2, <3>3, <3>4
  <2> QED BY <2>1, <2>2 DEF Shows
<1>4. ASSUME Shows(b, v) PROVE v = Content(b)
  <2>1. CASE \E m \in Nodes : Holds(m, b) /\ is_decrypted(m)
    BY <1>1, <1>4, <2>1, ContentCases DEF Shows
  <2>2. CASE ~(\E m \in Nodes : Holds(m, b) /\ is_decrypted(m))
    <3>1. ~DirtyD(b) BY <1>2, <2>2 DEF DirtyD
    <3>2. CASE \E n \in Nodes : Holds(n, b)
      <4>1. PICK n \in Nodes : Holds(n, b) BY <3>2
      <4>2. ~is_decrypted(n) BY <2>2, <4>1
      <4> QED BY <1>1, <1>4, <2>2, <3>1, <4>1, <4>2, ContentCases DEF Shows
    <3>3. CASE \A n \in Nodes : ~Holds(n, b)
      <4>1. ~Dirty(b) BY <1>2, <3>3 DEF Dirty
      <4> QED BY <1>1, <1>4, <3>3, <4>1, ContentCases DEF Shows
    <3> QED BY <3>2, <3>3
  <2> QED BY <2>1, <2>2
<1> QED BY <1>3, <1>4

LEMMA ContentIsShownNext == TypeOK' /\ CallInv' /\ Serving' => ContentShown'
<1>1. TypeOK /\ CallInv /\ Serving => ContentShown BY ContentIsShown
<1> QED BY <1>1, PTL

-----------------------------------------------------------------------------
(* The properties.                                                         *)

LEMMA Asserted ==
    ASSUME CInv, SInv
    PROVE  AccessAssertions
<1>1. CASE visit < 0
  <2>1. call.pc = "idle" BY <1>1, Idle DEF CInv
  <2> QED BY <2>1 DEF AccessAssertions
<1>2. CASE visit >= 0
  <2>1. TypeOK /\ CallInv /\ Serving BY <1>2 DEF CInv, SInv
  <2>2. ASSUME call.pc = "act" PROVE Holds(Target, call.b) /\ is_decrypted(Target) = call.decrypt
    <3>1. /\ MyE \in Nodes /\ node[MyE].blk = call.b /\ ~is_decrypted(MyE)
          /\ MyD # NoNode => MyD \in Nodes /\ node[MyD].blk = call.b /\ is_decrypted(MyD)
          /\ call.decrypt => MyD # NoNode
      BY <2>1, <2>2, ServedNodes
    <3>2. /\ node[MyE].status # "uninited"
          /\ call.decrypt => node[MyD].status # "uninited"
      BY <2>1, <2>2 DEF CallInv, InCall
    <3>3. CASE call.decrypt
      <4>1. Target = MyD BY <3>3 DEF Target, MyD
      <4>2. Holds(MyD, call.b) BY <3>1, <3>2, <3>3 DEF Holds, is_me
      <4>3. is_decrypted(MyD) = call.decrypt BY <3>1, <3>3, <2>1, CallFacts DEF is_decrypted
      <4> QED BY <4>1, <4>2, <4>3
    <3>4. CASE ~call.decrypt
      <4>1. Target = MyE BY <3>4 DEF Target, MyE
      <4>2. Holds(MyE, call.b) BY <3>1, <3>2, NodesFact DEF Holds, is_me
      <4>3. is_decrypted(MyE) = call.decrypt BY <3>1, <3>4, <2>1, CallFacts DEF is_decrypted
      <4> QED BY <4>1, <4>2, <4>3
    <3> QED BY <3>3, <3>4
  <2>3. call.pc = "load" => ~is_decrypted(index[call.b].encrypt)
    BY <2>1, FoundNodes DEF MyE
  <2>4. call.pc = "reset" =>
          /\ call.newE => ~is_updated(index[call.b].encrypt)
          /\ (call.newD \/ call.newE) /\ index[call.b].decrypt # NoNode
                => ~is_updated(index[call.b].decrypt)
    BY <2>1 DEF CallInv, InCall, Serving, NotLost, MyD, MyE
  <2> QED BY <2>2, <2>3, <2>4 DEF AccessAssertions
<1>3. visit \in Int BY CallFacts, NodesFact DEF CInv, TypeOK
<1> QED BY <1>1, <1>2, <1>3

LEMMA SealedReads ==
    ASSUME CInv, SInv
    PROVE  SealedReadIsCurrent
<1>1. SUFFICES ASSUME call.pc = "act", ~call.decrypt
               PROVE  node[Target].data = Seal(call.b, Content(call.b))
  BY DEF SealedReadIsCurrent
<1>2. visit \in Int BY CallFacts, NodesFact DEF CInv, TypeOK
<1>3. visit >= 0 BY <1>1, <1>2, Idle DEF CInv
<1>4. TypeOK /\ CallInv /\ Serving BY <1>3 DEF CInv, SInv
<1>5. PICK b, e : b = call.b /\ e = MyE OBVIOUS
<1>6. /\ b \in Blocks /\ e \in Nodes /\ node[e].blk = b /\ ~is_decrypted(e)
      /\ MyD # NoNode => /\ MyD \in Nodes /\ is_decrypted(MyD) /\ node[MyD].encrypted = e
                         /\ node[MyD].blk = b
      /\ index[b].decrypt = MyD /\ Target = e
  BY <1>1, <1>4, <1>5, ServedNodes DEF Target
<1>7. Holds(e, b)
  <2>1. node[e].status # "uninited" BY <1>1, <1>4, <1>5 DEF CallInv, InCall
  <2> QED BY <1>6, <2>1, NodesFact DEF Holds, is_me
<1>8. Keyed(node[e].data, b) /\ node[e].data \in Buffer
  BY <1>4, <1>6, <1>7, NodeFacts DEF Serving, Contents, Data, NodeKey, Holds
<1>9. CASE \E m \in Nodes : Holds(m, b) /\ is_decrypted(m)
  <2>1. PICK m \in Nodes : Holds(m, b) /\ is_decrypted(m) BY <1>9
  <2>2. m = MyD BY <1>4, <1>6, <2>1, OfBlock DEF CallInv, Holds, is_me
  <2>3. ~is_updated(m)
    <3>1. MyD # NoNode BY <2>1, <2>2, NodesFact
    <3>2. ~is_updated(MyD) BY <1>1, <1>4, <3>1 DEF Serving, NotLost
    <3> QED BY <2>2, <3>2
  <2>4. node[m].status = "inited" BY <1>4, <2>1, <2>3, NodeFacts DEF Holds, is_updated, NodeStatus
  <2>5. node[m].encrypted = e /\ node[m].blk = b BY <1>6, <2>1, <2>2, NodesFact
  <2>6. node[e].data = Seal(b, node[m].data)
    BY <1>4, <2>1, <2>4, <2>5 DEF Serving, Contents, Clean
  <2>7. Content(b) = node[m].data BY <1>4, <1>6, <2>1, ContentCases
  <2> QED BY <1>5, <1>6, <2>6, <2>7
<1>10. CASE ~(\E m \in Nodes : Holds(m, b) /\ is_decrypted(m))
  <2>1. Content(b) = Open(b, node[e].data) BY <1>4, <1>6, <1>7, <1>10, ContentCases
  <2> QED BY <1>5, <1>6, <1>8, <2>1, OpenKeyed
<1> QED BY <1>9, <1>10

LEMMA StoppedClean ==
    ASSUME CInv, SInv
    PROVE  StopWritesAllButLatest
<1>1. SUFFICES ASSUME Closed, NEW b \in Blocks, b # node[lru[1]].blk
               PROVE  OnDevice(b) = Content(b)
  BY DEF StopWritesAllButLatest
<1>2. /\ N \in Nat /\ N >= 2 /\ Len(lru) = N /\ visit = N + 2
  BY <1>1, CallFacts, NodesFact DEF CInv, Closed
<1>3. TypeOK /\ CallInv /\ Serving /\ Walk BY <1>2 DEF CInv, SInv
<1>4. ASSUME NEW n \in Nodes, node[n].blk = b PROVE ~is_updated(n)
  <2>1. PICK j \in 1 .. N : lru[j] = n BY <1>3, CallFacts, OrderFacts
  <2>2. j # 1 BY <1>1, <1>4, <2>1
  <2>3. PICK i \in 2 .. N : i = N + 2 - j BY <1>2, <2>1, <2>2
  <2>4. Visited(i) = n
    <3>1. i # 1 /\ N + 2 - i = j BY <1>2, <2>1, <2>3
    <3> QED BY <1>2, <2>1, <3>1 DEF Visited
  <2>5. i < visit /\ visit > 0 /\ i \in 2 .. Len(lru) BY <1>2, <2>3
  <2>6. ~is_updated(Visited(i)) BY <1>3, <2>5 DEF Walk
  <2> QED BY <2>4, <2>6
<1>5. ~Dirty(b) BY <1>4 DEF Dirty
<1>6. Shows(b, Content(b)) BY <1>3, ContentIsShown DEF ContentShown
<1>7. Open(b, readblk(b)) = Content(b) BY <1>5, <1>6 DEF Shows
<1>8. savedBits = bits BY <1>1, <1>3 DEF Walk
<1> QED BY <1>7, <1>8 DEF OnDevice, readblk

-----------------------------------------------------------------------------
(* The cache implements BlockStore.                                        *)

LEMMA DiskTyped == CInv /\ SInv => OnDisk \in [Blocks -> [Cells -> Values \cup {Blank}]]
<1>1. SUFFICES ASSUME CInv, SInv, NEW b \in Blocks
               PROVE  Plain(OnDevice(b)) \in [Cells -> Values \cup {Blank}]
  BY DEF OnDisk
<1>2. platter[b] \in Buffer /\ Keyed(platter[b], b)
  BY <1>1 DEF CInv, TypeOK, SInv, Device
<1>3. OnDevice(b) \in Buffer /\ Keyed(OnDevice(b), NoBlock)
  BY <1>2, ZerosKeyed, OpenKeyed DEF OnDevice
<1>4. \A c \in Cells : OnDevice(b)[c] \in Cell /\ OnDevice(b)[c].val # NoValue
  BY <1>3 DEF Buffer, Keyed
<1>5. \A c \in Cells : OnDevice(b)[c].val \in Values \cup {Blank} BY <1>4 DEF Cell
<1> QED BY <1>5 DEF Plain

LEMMA DiskTypedNext == CInv' /\ SInv' => (OnDisk \in [Blocks -> [Cells -> Values \cup {Blank}]])'
<1>1. CInv /\ SInv => OnDisk \in [Blocks -> [Cells -> Values \cup {Blank}]] BY DiskTyped
<1> QED BY <1>1, PTL

LEMMA InitStored ==
    ASSUME Init
    PROVE  Store!Init
<1>1. Len(lru) \in Nat /\ visit = 0 BY OrderFacts, NodesFact DEF Init
<1>2. Up BY <1>1 DEF Up
<1>3. ASSUME NEW b \in Blocks
      PROVE  Plain(Content(b)) = [c \in Cells |-> Blank] /\ Plain(OnDevice(b)) = [c \in Cells |-> Blank]
  <2>1. Open(b, Zeros(b)) = [c \in Cells |-> [key |-> NoBlock, val |-> Blank]]
    BY DEF Open, Zeros, Filled
  <2>2. Plain(Open(b, Zeros(b))) = [c \in Cells |-> Blank] BY <2>1 DEF Plain
  <2>3. ~Holds(NoNode, b) BY DEF Holds, is_me
  <2>4. index[b].decrypt = NoNode /\ index[b].encrypt = NoNode BY DEF Init
  <2>5. readblk(b) = Zeros(b) BY DEF Init, readblk
  <2>6. OnDevice(b) = Open(b, Zeros(b)) BY DEF Init, OnDevice
  <2>7. Content(b) = Open(b, Zeros(b)) BY <2>3, <2>4, <2>5 DEF Content
  <2> QED BY <2>2, <2>6, <2>7
<1> QED BY <1>2, <1>3 DEF Store!Init, Store!Empty, Stored, OnDisk

\* The node serves again what is on the device.
LEMMA RestartStored ==
    ASSUME CInv, Restart
    PROVE  Store!Start
<1>1. /\ visit \in {-1, Len(lru) + 2} /\ visit' = 0 /\ lru' = lru
      /\ index' = [b \in Blocks |-> [encrypt |-> NoNode, decrypt |-> NoNode]]
      /\ bits' = savedBits /\ UNCHANGED <<platter, savedBits>>
  BY DEF Restart, Boot
<1>2. Len(lru) \in Nat BY CallFacts, NodesFact DEF CInv
<1>3. ~Up /\ Up' BY <1>1, <1>2 DEF Up
<1>4. ASSUME NEW b \in Blocks
      PROVE  Content(b)' = OnDevice(b) /\ OnDevice(b)' = OnDevice(b)
  <2>1. index'[b].decrypt = NoNode /\ index'[b].encrypt = NoNode BY <1>1
  <2>2. ~Holds(NoNode, b)' BY DEF Holds, is_me
  <2>3. Content(b)' = Open(b, readblk(b)') BY <2>1, <2>2 DEF Content
  <2>4. readblk(b)' = IF b \in savedBits THEN platter[b] ELSE Zeros(b) BY <1>1 DEF readblk
  <2> QED BY <1>1, <2>3, <2>4 DEF OnDevice
<1>5. Stored' = OnDisk /\ OnDisk' = OnDisk BY <1>4 DEF Stored, OnDisk
<1> QED BY <1>3, <1>5 DEF Store!Start

\* The process dies, or died after it had stopped.
LEMMA CrashStored ==
    ASSUME CInv, Crash
    PROVE  \/ Up /\ ~Up' /\ UNCHANGED <<Stored, OnDisk>>
           \/ UNCHANGED <<Stored, OnDisk, Up>>
<1>1. visit' = -1 /\ UNCHANGED <<node, lru, index, platter, bits, savedBits>>
  BY DEF Crash, cacheVars, deviceVars
<1>2. Stored' = Stored
  BY <1>1 DEF Stored, Content, Holds, is_me, is_decrypted, readblk
<1>3. OnDisk' = OnDisk BY <1>1 DEF OnDisk, OnDevice
<1>4. Len(lru) \in Nat BY CallFacts, NodesFact DEF CInv
<1>5. ~Up' BY <1>1, <1>4 DEF Up
<1> QED BY <1>2, <1>3, <1>5 DEF Up

LEMMA WriteStored ==
    ASSUME CInv, SInv, CInv', SInv', "write" \notin Faults,
           NEW c \in Cells, NEW v \in Values, Write(c, v)
    PROVE  \E b \in Blocks : Store!Write(b, c, v)
<1>1. visit \in Int BY CallFacts, NodesFact DEF CInv, TypeOK
<1>2. /\ call.pc = "act" /\ UNCHANGED <<lru, platter, bits, savedBits, visit>>
  BY DEF Write, deviceVars
<1>3. visit >= 0 BY <1>1, <1>2, Idle DEF CInv
<1>4. TypeOK /\ CallInv /\ Serving BY <1>3 DEF CInv, SInv
<1>5. TypeOK' /\ CallInv' /\ Serving' BY <1>2, <1>3 DEF CInv, SInv
<1>6. call.b \in Blocks /\ visit = 0 BY <1>2, <1>3, <1>4, Idle, RunningCall
<1>7. Up /\ Up'
  <2>1. Len(lru) \in Nat BY <1>4, CallFacts, NodesFact
  <2> QED BY <1>2, <1>6, <2>1 DEF Up
<1>8. OnDisk' = OnDisk BY <1>2 DEF OnDisk, OnDevice
<1>9. ContentShown /\ ContentShown' BY <1>4, <1>5, ContentIsShown, ContentIsShownNext
<1>10. ASSUME NEW a \in Blocks
       PROVE  Content(a)' = IF a = call.b THEN Changed(Content(a), c, v) ELSE Content(a)
  <2>1. PICK x : x = Content(a) OBVIOUS
  <2>2. PICK y : y = IF a = call.b THEN Changed(x, c, v) ELSE x OBVIOUS
  <2>3. Shows(a, x) BY <1>9, <2>1 DEF ContentShown
  <2>4. Shows(a, y)' BY <1>4, <2>2, <2>3, ClientWrites
  <2>5. y = Content(a)' BY <1>9, <2>4 DEF ContentShown
  <2> QED BY <2>1, <2>2, <2>5
<1>11. ASSUME NEW x \in Buffer
       PROVE  Plain(Changed(x, c, v)) = [Plain(x) EXCEPT ![c] = v]
  BY DEF Buffer, Plain, Changed
<1>12. PICK b : b = call.b OBVIOUS
<1>13. Stored' = [Stored EXCEPT ![b][c] = v]
  <2>1. Stored' = [a \in Blocks |-> IF a = b THEN [Plain(Content(a)) EXCEPT ![c] = v]
                                             ELSE Plain(Content(a))]
    BY <1>4, <1>10, <1>11, <1>12, ContentTyped DEF Stored
  <2>2. [Stored EXCEPT ![b][c] = v] = [a \in Blocks |-> IF a = b THEN [Plain(Content(a)) EXCEPT ![c] = v]
                                                                 ELSE Plain(Content(a))]
    BY DEF Stored
  <2> QED BY <2>1, <2>2
<1> QED BY <1>6, <1>7, <1>8, <1>12, <1>13 DEF Store!Write

\* What clients do not see is a step of the store that saves, or its end.
LEMMA QuietStored ==
    ASSUME TypeOK, TypeOK', CallInv, CallInv', Serving, Serving', ShowsStay
    PROVE  Stored' = Stored
<1>1. ContentShown /\ ContentShown' BY ContentIsShown, ContentIsShownNext
<1>2. ASSUME NEW b \in Blocks PROVE Content(b)' = Content(b)
  <2>1. PICK x : x = Content(b) OBVIOUS
  <2>2. Shows(b, x) BY <1>1, <2>1 DEF ContentShown
  <2>3. Shows(b, x)' BY <2>2 DEF ShowsStay
  <2>4. x = Content(b)' BY <1>1, <2>3 DEF ContentShown
  <2> QED BY <2>1, <2>4
<1> QED BY <1>2 DEF Stored

LEMMA StepStored ==
    ASSUME CInv, SInv, CInv', SInv', [Next]_vars, "write" \notin Faults
    PROVE  [Store!Next]_Store!vars
<1>1. visit \in Int BY CallFacts, NodesFact DEF CInv, TypeOK
<1>2. OnDisk' \in [Blocks -> [Cells -> Values \cup {Blank}]] BY DiskTypedNext
<1>3. CASE Restart BY <1>3, RestartStored DEF Store!Next
<1>4. CASE Crash
  <2>1. CASE Up /\ ~Up' /\ UNCHANGED <<Stored, OnDisk>>
    <3>1. Store!End BY <1>2, <2>1 DEF Store!End
    <3> QED BY <3>1 DEF Store!Next
  <2>2. CASE UNCHANGED <<Stored, OnDisk, Up>> BY <2>2 DEF Store!vars
  <2> QED BY <1>4, <2>1, <2>2, CrashStored
<1>5. CASE UNCHANGED vars
  <2>1. UNCHANGED <<node, lru, index, platter, bits, savedBits, visit>>
    BY <1>5 DEF vars, cacheVars, deviceVars, threadVars
  <2>2. Stored' = Stored BY <2>1 DEF Stored, Content, Holds, is_me, is_decrypted, readblk
  <2>3. OnDisk' = OnDisk BY <2>1 DEF OnDisk, OnDevice
  <2>4. Up' = Up BY <2>1 DEF Up
  <2> QED BY <2>2, <2>3, <2>4 DEF Store!vars
<1>6. CASE \E c \in Cells, v \in Values : Write(c, v)
  BY <1>6, WriteStored DEF Store!Next
<1>7. CASE /\ Next /\ ~Restart /\ ~Crash
           /\ ~(\E c \in Cells, v \in Values : Write(c, v))
  <2>1. visit >= 0 BY <1>1, <1>7, DeadStep DEF CInv
  <2>2. TypeOK' /\ CallInv' /\ Serving' /\ ShowsStay /\ Up BY <1>7, <2>1, StepServes
  <2>3. Stored' = Stored BY <2>1, <2>2, QuietStored DEF CInv, SInv
  <2>4. CASE Up'
    <3>1. Up' = Up BY <2>2, <2>4 DEF Up
    <3>2. Store!Save BY <1>2, <2>3, <3>1 DEF Store!Save
    <3> QED BY <3>2 DEF Store!Next
  <2>5. CASE ~Up'
    <3>1. Up' = FALSE BY <2>5 DEF Up
    <3>2. Store!End BY <1>2, <2>2, <2>3, <3>1 DEF Store!End
    <3> QED BY <3>2 DEF Store!Next
  <2> QED BY <2>4, <2>5
<1> QED BY <1>3, <1>4, <1>5, <1>6, <1>7

(***************************************************************************)
(* The invariant while no write to the device fails: nodes and device hold *)
(* the content of their blocks, each under its key, a clean node what the  *)
(* next place on the path C(D) -> C(E) -> device holds.                    *)
(***************************************************************************)
THEOREM ContentInvariant ==
    ASSUME "write" \notin Faults
    PROVE  Spec => [](CInv /\ SInv)
<1>1. Init => CInv /\ SInv BY InitInv, SInvInit
<1>2. CInv /\ SInv /\ [Next]_vars => (CInv /\ SInv)' BY CInvNext, SInvNext
<1> QED BY <1>1, <1>2, PTL DEF Spec

(***************************************************************************)
(* The assertions of get_node and reset_index hold on every access,        *)
(* however blocks, stale pointers and failed reads follow each other.      *)
(***************************************************************************)
THEOREM AccessesAreSound ==
    ASSUME "write" \notin Faults
    PROVE  Spec => []AccessAssertions
<1>1. CInv /\ SInv => AccessAssertions BY Asserted
<1> QED BY <1>1, ContentInvariant, PTL

(***************************************************************************)
(* cache2blk never writes plain content, or that of another block, to the  *)
(* device.                                                                 *)
(***************************************************************************)
THEOREM DeviceStaysSealed ==
    ASSUME "write" \notin Faults
    PROVE  Spec => []DeviceIsSealed
<1>1. SInv => DeviceIsSealed BY DEF SInv, Device, Keyed, DeviceIsSealed
<1> QED BY <1>1, ContentInvariant, PTL

(***************************************************************************)
(* A read of the sealed block (get_node for C(E)) returns what was last    *)
(* written through C(D).                                                   *)
(***************************************************************************)
THEOREM SealedReadsAreCurrent ==
    ASSUME "write" \notin Faults
    PROVE  Spec => []SealedReadIsCurrent
<1>1. CInv /\ SInv => SealedReadIsCurrent BY SealedReads
<1> QED BY <1>1, ContentInvariant, PTL

(***************************************************************************)
(* The walk of flush_and_stop brings every block to the device but that of *)
(* _latest, whatever the order of the list and the state of each node.     *)
(***************************************************************************)
THEOREM StopSavesAllButLatest ==
    ASSUME "write" \notin Faults
    PROVE  Spec => []StopWritesAllButLatest
<1>1. CInv /\ SInv => StopWritesAllButLatest BY StoppedClean
<1> QED BY <1>1, ContentInvariant, PTL

(***************************************************************************)
(* The cache implements BlockStore: no step of access() but a client's     *)
(* write, no flush, no stop and no crash changes what clients see.         *)
(***************************************************************************)
THEOREM CacheImplementsBlockStore ==
    ASSUME "write" \notin Faults
    PROVE  Spec => ImplementsBlockStore
<1>1. Init => Store!Init BY InitStored
<1>2. /\ CInv /\ SInv /\ (CInv /\ SInv)' /\ [Next]_vars => [Store!Next]_Store!vars
  BY StepStored
<1> QED BY <1>1, <1>2, ContentInvariant, PTL DEF Spec, ImplementsBlockStore, Store!Spec
=============================================================================
