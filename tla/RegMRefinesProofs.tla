------------------------- MODULE RegMRefinesProofs -------------------------
(***************************************************************************)
(* RegM implements SpaceAlloc, for every number of volumes and callers and *)
(* every block size: the initial states map to initial states, and under   *)
(* SpaceInv every step maps to a step of the pool or to a stutter.         *)
(***************************************************************************)
EXTENDS RegMRefines, RegMProofs

-----------------------------------------------------------------------------
(* Bytes as pairs of a volume and a position.                              *)

LEMMA ByteOf ==
    ASSUME NEW x, NEW b
    PROVE  b \in Bytes(x) <=>
             \E p \in BeginPos(x) .. (EndPos(x) - 1) : b = <<x.VolumeId, p>>
BY DEF Bytes

LEMMA KnownByte ==
    ASSUME NEW b
    PROVE  b \in KnownBytes <=>
             \E v \in VolumeIds : \E p \in 0 .. (volumeCol[v].BlkCount * BlkSize - 1) :
                 b = <<v, p>>
BY DEF KnownBytes

LEMMA AboveByte ==
    ASSUME NEW b
    PROVE  b \in AboveBytes <=>
             \E v \in VolumeIds :
                \E p \in volumeCol[v].CurPosition ..
                           (volumeCol[v].CurPosition + volumeCol[v].Reserved - 1) :
                   b = <<v, p>>
BY DEF AboveBytes

LEMMA UnlockedByte ==
    ASSUME NEW b
    PROVE  b \in UnlockedBytes <=> \E x \in chipCol : ~x.Lock /\ b \in Bytes(x)
BY Zenon DEF UnlockedBytes

\* Apart means without a common byte.
LEMMA ApartBytes ==
    ASSUME NEW x, NEW y, Apart(x, y), Owner(x), Owner(y), NEW b \in Bytes(x)
    PROVE  b \notin Bytes(y)
<1>1. /\ BeginPos(x) \in Nat /\ EndPos(x) \in Nat
      /\ BeginPos(y) \in Nat /\ EndPos(y) \in Nat
  BY NoExtentFacts DEF Owner
<1>2. PICK p \in BeginPos(x) .. (EndPos(x) - 1) : b = <<x.VolumeId, p>> BY ByteOf
<1>3. ASSUME NEW q \in BeginPos(y) .. (EndPos(y) - 1), b = <<y.VolumeId, q>> PROVE FALSE
  BY <1>1, <1>2, <1>3 DEF Apart
<1> QED BY <1>3, ByteOf

LEMMA NoExtentBytes == Bytes(NoExtent) = {}
BY NoExtentFacts DEF Bytes

LEMMA NextKnownByte ==
    ASSUME NEW b
    PROVE  b \in KnownBytes' <=>
             \E v \in VolumeIds : \E p \in 0 .. (volumeCol'[v].BlkCount * BlkSize - 1) :
                 b = <<v, p>>
BY DEF KnownBytes

LEMMA NextAboveByte ==
    ASSUME NEW b
    PROVE  b \in AboveBytes' <=>
             \E v \in VolumeIds :
                \E p \in volumeCol'[v].CurPosition ..
                           (volumeCol'[v].CurPosition + volumeCol'[v].Reserved - 1) :
                   b = <<v, p>>
BY DEF AboveBytes

LEMMA NextUnlockedByte ==
    ASSUME NEW b
    PROVE  b \in UnlockedBytes' <=> \E x \in chipCol' : ~x.Lock /\ b \in Bytes(x)
BY Zenon DEF UnlockedBytes, Bytes, BeginPos, EndPos

-----------------------------------------------------------------------------
(* The steps of the pool.                                                  *)

\* What the three mapped variables depend on in the volumes.
SizesKept ==
    \A v \in VolumeIds : /\ volumeCol'[v].CurPosition = volumeCol[v].CurPosition
                         /\ volumeCol'[v].Reserved = volumeCol[v].Reserved
                         /\ volumeCol'[v].BlkCount = volumeCol[v].BlkCount

LEMMA PoolKept ==
    ASSUME SizesKept PROVE KnownBytes' = KnownBytes /\ AboveBytes' = AboveBytes
<1>1. \A b : b \in KnownBytes' <=> b \in KnownBytes
  <2> TAKE b
  <2>1. b \in KnownBytes <=> \E v \in VolumeIds :
            \E p \in 0 .. (volumeCol[v].BlkCount * BlkSize - 1) : b = <<v, p>>
    BY KnownByte
  <2>2. b \in KnownBytes' <=> \E v \in VolumeIds :
            \E p \in 0 .. (volumeCol'[v].BlkCount * BlkSize - 1) : b = <<v, p>>
    BY NextKnownByte
  <2> QED BY <2>1, <2>2 DEF SizesKept
<1>2. \A b : b \in AboveBytes' <=> b \in AboveBytes
  <2> TAKE b
  <2>1. b \in AboveBytes <=> \E v \in VolumeIds :
            \E p \in volumeCol[v].CurPosition ..
                       (volumeCol[v].CurPosition + volumeCol[v].Reserved - 1) : b = <<v, p>>
    BY AboveByte
  <2>2. b \in AboveBytes' <=> \E v \in VolumeIds :
            \E p \in volumeCol'[v].CurPosition ..
                       (volumeCol'[v].CurPosition + volumeCol'[v].Reserved - 1) : b = <<v, p>>
    BY NextAboveByte
  <2> QED BY <2>1, <2>2 DEF SizesKept
<1> QED BY <1>1, <1>2

\* A step that brings no unlocked chip takes bytes out of the pool, or none.
LEMMA Takes ==
    ASSUME SizesKept, UNCHANGED hold, \A x \in chipCol' : ~x.Lock => x \in chipCol
    PROVE  Abstract!Take
<1>1. KnownBytes' = KnownBytes /\ AboveBytes' = AboveBytes BY PoolKept
<1>2. UnlockedBytes' \subseteq UnlockedBytes
  <2> SUFFICES ASSUME NEW b \in UnlockedBytes' PROVE b \in UnlockedBytes OBVIOUS
  <2>1. PICK x \in chipCol' : ~x.Lock /\ b \in Bytes(x) BY NextUnlockedByte
  <2> QED BY <2>1, UnlockedByte
<1>3. FreeBytes' \subseteq FreeBytes BY <1>1, <1>2 DEF FreeBytes
<1> QED BY <1>1, <1>3 DEF Abstract!Take, Bytes

\* Handed-out bytes that no unlocked chip and no caller has are in transit.
LEMMA TransitBytes ==
    ASSUME SpaceInv, NEW y, Owner(y), y # NoExtent => HandedOut(y),
           \A x \in chipCol : ~x.Lock => Apart(x, y),
           \A c \in Callers : Apart(y, hold[c])
    PROVE  Bytes(y) \subseteq Abstract!InTransit
<1> SUFFICES ASSUME NEW b \in Bytes(y) PROVE b \in Abstract!InTransit OBVIOUS
<1>1. PICK p \in BeginPos(y) .. (EndPos(y) - 1) : b = <<y.VolumeId, p>> BY ByteOf
<1> DEFINE v == y.VolumeId
<1>2. y # NoExtent BY NoExtentBytes
<1>3. /\ v \in VolumeIds /\ HandedOut(y) /\ BeginPos(y) \in Nat /\ EndPos(y) \in Nat
      /\ EndPos(y) <= volumeCol[v].CurPosition
  BY <1>2 DEF Owner, HandedOut
<1>4. /\ volumeCol[v].CurPosition \in Nat /\ volumeCol[v].Reserved \in Nat
      /\ volumeCol[v].CurPosition + volumeCol[v].Reserved = volumeCol[v].BlkCount * BlkSize
  BY <1>3 DEF SpaceInv, TypeOK, Volume, SpaceIsHandedOut
<1>5. p \in Nat /\ p < volumeCol[v].CurPosition BY <1>3, <1>4
<1> HIDE DEF v
<1>6. b \in KnownBytes
  <2>1. p \in 0 .. (volumeCol[v].BlkCount * BlkSize - 1) BY <1>4, <1>5
  <2> QED BY <1>1, <1>3, <2>1, KnownByte DEF v
<1>7. b \notin AboveBytes
  <2>1. ASSUME NEW u \in VolumeIds,
               NEW q \in volumeCol[u].CurPosition ..
                           (volumeCol[u].CurPosition + volumeCol[u].Reserved - 1),
               b = <<u, q>>
        PROVE  FALSE
    <3>1. u = v /\ q = p BY <1>1, <2>1 DEF v
    <3> QED BY <3>1, <1>4, <1>5
  <2> QED BY <2>1, AboveByte
<1>8. b \notin UnlockedBytes
  <2>1. ASSUME NEW x \in chipCol, ~x.Lock, b \in Bytes(x) PROVE FALSE
    <3>1. Apart(x, y) /\ Owner(x) BY <2>1, Owners
    <3> QED BY <3>1, <2>1, ApartBytes
  <2> QED BY <2>1, UnlockedByte
<1>9. b \notin Abstract!Owned
  <2>1. ASSUME NEW c \in Callers, b \in Bytes(hold[c]) PROVE FALSE
    <3>1. Apart(y, hold[c]) /\ Owner(hold[c]) BY Owners
    <3> QED BY <3>1, <2>1, ApartBytes
  <2>2. Abstract!Owned = UNION {[e \in Callers |-> Bytes(hold[e])][c] : c \in Callers}
    BY DEF Abstract!Owned
  <2>3. ASSUME b \in Abstract!Owned PROVE \E c \in Callers : b \in Bytes(hold[c])
    <3>1. PICK c \in Callers : b \in [e \in Callers |-> Bytes(hold[e])][c] BY <2>2, <2>3
    <3> QED BY <3>1
  <2> QED BY <2>1, <2>3
<1> QED BY <1>6, <1>7, <1>8, <1>9 DEF Abstract!InTransit, FreeBytes

\* A step that exchanges locked chips for y, which was in transit, puts its bytes
\* into the pool.
LEMMA Puts ==
    ASSUME SpaceInv, SizesKept, UNCHANGED hold, NEW y,
           \A x \in chipCol' : ~x.Lock /\ x # y => x \in chipCol,
           \A x \in chipCol : ~x.Lock => x \in chipCol',
           Bytes(y) \subseteq Abstract!InTransit
    PROVE  Abstract!Put
<1>1. KnownBytes' = KnownBytes /\ AboveBytes' = AboveBytes BY PoolKept
<1>2. UnlockedBytes \subseteq UnlockedBytes'
  <2> SUFFICES ASSUME NEW b \in UnlockedBytes PROVE b \in UnlockedBytes' OBVIOUS
  <2>1. PICK x \in chipCol : ~x.Lock /\ b \in Bytes(x) BY UnlockedByte
  <2> QED BY <2>1, NextUnlockedByte
<1>3. UnlockedBytes' \subseteq UnlockedBytes \cup Bytes(y)
  <2> SUFFICES ASSUME NEW b \in UnlockedBytes' PROVE b \in UnlockedBytes \cup Bytes(y) OBVIOUS
  <2>1. PICK x \in chipCol' : ~x.Lock /\ b \in Bytes(x) BY NextUnlockedByte
  <2>2. CASE x = y BY <2>1, <2>2
  <2>3. CASE x # y BY <2>1, <2>3, UnlockedByte
  <2> QED BY <2>2, <2>3
<1>4. FreeBytes \subseteq FreeBytes' /\ FreeBytes' \ FreeBytes \subseteq Abstract!InTransit
  BY <1>1, <1>2, <1>3 DEF FreeBytes
<1> QED BY <1>1, <1>4 DEF Abstract!Put, Bytes

\* A volume that is not registered yet has no bytes.
Unregistered == \A v \in VolumeIds : ~volumeCol[v].exists => volumeCol[v].BlkCount = 0

LEMMA RegisterVolumeGrows ==
    ASSUME SpaceInv, Unregistered, NEW v \in VolumeIds, NEW n \in BlkCounts,
           RegisterVolume(v, n), ~volumeCol[v].exists
    PROVE  Abstract!Grow
<1>1. n * BlkSize \in Nat BY RegMAssumption, SizeAssumption
<1>2. /\ volumeCol[v].CurPosition \in Nat /\ volumeCol[v].Reserved \in Nat
      /\ volumeCol[v].CurPosition + volumeCol[v].Reserved = volumeCol[v].BlkCount * BlkSize
      /\ volumeCol[v].BlkCount * BlkSize = 0
  BY SizeAssumption DEF SpaceInv, TypeOK, Volume, SpaceIsHandedOut, Unregistered
<1>3. /\ volumeCol'[v].CurPosition = 0 /\ volumeCol'[v].Reserved = n * BlkSize
      /\ volumeCol'[v].BlkCount = n
      /\ \A u \in VolumeIds \ {v} : volumeCol'[u] = volumeCol[u]
      /\ UNCHANGED <<chipCol, hold>>
  BY DEF RegisterVolume, SpaceInv, TypeOK, handlerVars
<1> DEFINE New == {v} \X (0 .. (n * BlkSize - 1))
<1>4. \A b : b \in KnownBytes' <=> b \in KnownBytes \cup New
  <2> TAKE b
  <2>1. b \in KnownBytes <=> \E u \in VolumeIds :
            \E p \in 0 .. (volumeCol[u].BlkCount * BlkSize - 1) : b = <<u, p>>
    BY KnownByte
  <2>2. b \in KnownBytes' <=> \E u \in VolumeIds :
            \E p \in 0 .. (volumeCol'[u].BlkCount * BlkSize - 1) : b = <<u, p>>
    BY NextKnownByte
  <2>3. b \in New <=> \E p \in 0 .. (n * BlkSize - 1) : b = <<v, p>> OBVIOUS
  <2>4. 0 .. (volumeCol[v].BlkCount * BlkSize - 1) = {} BY <1>2
  <2> HIDE DEF New
  <2> QED BY <1>3, <2>1, <2>2, <2>3, <2>4
<1>5. \A b : b \in AboveBytes' <=> b \in AboveBytes \cup New
  <2> TAKE b
  <2>1. b \in AboveBytes <=> \E u \in VolumeIds :
            \E p \in volumeCol[u].CurPosition ..
                       (volumeCol[u].CurPosition + volumeCol[u].Reserved - 1) : b = <<u, p>>
    BY AboveByte
  <2>2. b \in AboveBytes' <=> \E u \in VolumeIds :
            \E p \in volumeCol'[u].CurPosition ..
                       (volumeCol'[u].CurPosition + volumeCol'[u].Reserved - 1) : b = <<u, p>>
    BY NextAboveByte
  <2>3. b \in New <=> \E p \in 0 .. (n * BlkSize - 1) : b = <<v, p>> OBVIOUS
  <2>4. volumeCol[v].CurPosition .. (volumeCol[v].CurPosition + volumeCol[v].Reserved - 1) = {}
    BY <1>2
  <2>5. volumeCol'[v].CurPosition .. (volumeCol'[v].CurPosition + volumeCol'[v].Reserved - 1)
            = 0 .. (n * BlkSize - 1)
    BY <1>1, <1>3
  <2> HIDE DEF New
  <2> QED BY <1>3, <2>1, <2>2, <2>3, <2>4, <2>5
<1>6. KnownBytes \cap New = {}
  <2> SUFFICES ASSUME NEW b \in KnownBytes, b \in New PROVE FALSE OBVIOUS
  <2>1. PICK u \in VolumeIds : \E p \in 0 .. (volumeCol[u].BlkCount * BlkSize - 1) : b = <<u, p>>
    BY KnownByte
  <2>2. u = v BY <2>1
  <2>3. 0 .. (volumeCol[v].BlkCount * BlkSize - 1) = {} BY <1>2
  <2> QED BY <2>1, <2>2, <2>3
<1>7. \A b : b \in UnlockedBytes' <=> b \in UnlockedBytes
  BY <1>3, UnlockedByte, NextUnlockedByte
<1> HIDE DEF New
<1>8. KnownBytes' = KnownBytes \cup New BY <1>4
<1>9. FreeBytes' = FreeBytes \cup New BY <1>5, <1>7 DEF FreeBytes
<1> QED BY <1>3, <1>6, <1>8, <1>9 DEF Abstract!Grow, Bytes

LEMMA ReserveTakes ==
    ASSUME SpaceInv, NEW c \in Callers, NEW v \in VolumeIds, Reserve(c, v)
    PROVE  Abstract!Take
<1> DEFINE a == req[c].alloc_size
<1>1. /\ a \in Nat /\ volumeCol[v].CurPosition \in Nat /\ volumeCol[v].Reserved \in Nat
      /\ volumeCol[v].Reserved >= a
  BY DEF SpaceInv, TypeOK, Volume, Request, Reserve
<1>2. /\ volumeCol'[v].CurPosition = volumeCol[v].CurPosition + a
      /\ volumeCol'[v].Reserved = volumeCol[v].Reserved - a
      /\ volumeCol'[v].BlkCount = volumeCol[v].BlkCount
      /\ \A u \in VolumeIds \ {v} : volumeCol'[u] = volumeCol[u]
      /\ UNCHANGED <<chipCol, hold>>
  BY DEF Reserve, SpaceInv, TypeOK, Volume
<1> HIDE DEF a
<1>3. \A b : b \in KnownBytes' <=> b \in KnownBytes
  <2> TAKE b
  <2>1. b \in KnownBytes <=> \E u \in VolumeIds :
            \E p \in 0 .. (volumeCol[u].BlkCount * BlkSize - 1) : b = <<u, p>>
    BY KnownByte
  <2>2. b \in KnownBytes' <=> \E u \in VolumeIds :
            \E p \in 0 .. (volumeCol'[u].BlkCount * BlkSize - 1) : b = <<u, p>>
    BY NextKnownByte
  <2> QED BY <1>2, <2>1, <2>2
<1>4. AboveBytes' \subseteq AboveBytes
  <2> SUFFICES ASSUME NEW b \in AboveBytes' PROVE b \in AboveBytes OBVIOUS
  <2>1. PICK u \in VolumeIds :
            \E p \in volumeCol'[u].CurPosition ..
                       (volumeCol'[u].CurPosition + volumeCol'[u].Reserved - 1) : b = <<u, p>>
    BY NextAboveByte
  <2>2. PICK p \in volumeCol'[u].CurPosition ..
                       (volumeCol'[u].CurPosition + volumeCol'[u].Reserved - 1) : b = <<u, p>>
    BY <2>1
  <2>3. p \in volumeCol[u].CurPosition .. (volumeCol[u].CurPosition + volumeCol[u].Reserved - 1)
    BY <1>1, <1>2, <2>2
  <2> QED BY <2>2, <2>3, AboveByte
<1>5. \A b : b \in UnlockedBytes' <=> b \in UnlockedBytes
  BY <1>2, UnlockedByte, NextUnlockedByte
<1>6. KnownBytes' = KnownBytes /\ FreeBytes' \subseteq FreeBytes
  BY <1>3, <1>4, <1>5 DEF FreeBytes
<1> QED BY <1>2, <1>6 DEF Abstract!Take, Bytes

\* ShrinkChip: the rest of the chip becomes selectable again.
LEMMA ShrinkPuts ==
    ASSUME SpaceInv, NEW c \in Callers, ShrinkChip(c) PROVE Abstract!Put
<1>1. pc[c] = "shrink" /\ doc[c].Size - req[c].alloc_size > 0 BY DEF ShrinkChip
<1>2. PICK d, a, m : /\ d = doc[c] /\ a = req[c].alloc_size /\ m = MyChip(c)
                     /\ Cuttable(d, a, m) /\ d.Size - a > 0
  BY <1>1, LockedChip
<1>3. PICK r : r = Shrunk(d, a) OBVIOUS
<1>4. m \in chipCol /\ m.Lock BY <1>2 DEF Cuttable
<1>5. chipCol' = (chipCol \ {m}) \cup {r} /\ UNCHANGED <<volumeCol, hold>>
  BY <1>2, <1>3, <1>4 DEF ShrinkChip, MyChip
<1>6. HandedOut(r) /\ Owner(r) /\ PartOf(r, m)
  <2>1. PICK t : t = TailOf(d, a) OBVIOUS
  <2> QED BY <1>2, <1>3, <2>1, RestOfMine
<1>7. \A x, y : Apart(x, y) <=> Apart(y, x) BY DEF Apart
<1>8. \A x \in chipCol : ~x.Lock => Apart(x, r)
  <2>1. \A x \in chipCol : ~x.Lock => Owner(x) /\ Apart(x, m)
    BY <1>4, Owners DEF SpaceInv, NoSharedSpace
  <2> QED BY <1>6, <2>1 DEF PartOf
<1>9. \A e \in Callers : Apart(r, hold[e])
  <2>1. \A e \in Callers : Owner(hold[e]) /\ Apart(hold[e], m)
    BY <1>4, <1>7, Owners DEF SpaceInv, NoSharedSpace
  <2> QED BY <1>6, <1>7, <2>1 DEF PartOf
<1>10. Bytes(r) \subseteq Abstract!InTransit BY <1>6, <1>8, <1>9, TransitBytes
<1>11. SizesKept BY <1>5 DEF SizesKept
<1>12. /\ \A x \in chipCol' : ~x.Lock /\ x # r => x \in chipCol
       /\ \A x \in chipCol : ~x.Lock => x \in chipCol'
  BY <1>4, <1>5
<1> QED BY <1>5, <1>10, <1>11, <1>12, Puts

\* InsertChip: the merged extent becomes a chip.
LEMMA InsertPuts ==
    ASSUME SpaceInv, NEW c \in Callers, InsertChip(c) PROVE Abstract!Put
<1>1. PICK w : w = work[c] OBVIOUS
<1>2. PICK d : d = ChipOf(w, calc_object_size(w)) OBVIOUS
<1>3. chipCol' = chipCol \cup {d} /\ UNCHANGED <<volumeCol, hold>>
  BY <1>1, <1>2 DEF InsertChip
<1>4. w # NoExtent => HandedOut(w)
  BY <1>1 DEF SpaceInv, SpaceIsHandedOut
<1>5. Owner(w) BY <1>1, Owners
<1>6. \A x, y : Apart(x, y) <=> Apart(y, x) BY DEF Apart
<1>7. \A x \in chipCol : ~x.Lock => Apart(x, w) BY <1>1 DEF SpaceInv, NoSharedSpace
<1>8. \A e \in Callers : Apart(w, hold[e]) BY <1>1 DEF SpaceInv, NoSharedSpace
<1>9. Bytes(w) \subseteq Abstract!InTransit BY <1>4, <1>5, <1>7, <1>8, TransitBytes
<1>10. d.VolumeId = w.VolumeId /\ BeginPos(d) = BeginPos(w) /\ EndPos(d) = EndPos(w)
  BY <1>2 DEF ChipOf, BeginPos, EndPos
<1>11. Bytes(d) = Bytes(w) BY <1>10 DEF Bytes
<1>12. SizesKept BY <1>3 DEF SizesKept
<1>13. /\ \A x \in chipCol' : ~x.Lock /\ x # d => x \in chipCol
       /\ \A x \in chipCol : ~x.Lock => x \in chipCol'
  BY <1>3
<1> QED BY <1>3, <1>9, <1>11, <1>12, <1>13, Puts

\* What the bytes of the callers are after a step of caller c.
LEMMA OwnAfter ==
    ASSUME SpaceInv, NEW c \in Callers, NEW h, hold' = [hold EXCEPT ![c] = h]
    PROVE  /\ [d \in Callers |-> Bytes(hold[d])]'
                = [[d \in Callers |-> Bytes(hold[d])] EXCEPT ![c] = Bytes(h)]
           /\ [d \in Callers |-> Bytes(hold[d])]'[c] = Bytes(h)
<1>1. \A d \in Callers : hold'[d] = IF d = c THEN h ELSE hold[d] BY DEF SpaceInv, TypeOK
<1>2. [d \in Callers |-> Bytes(hold[d])]' = [d \in Callers |-> Bytes(hold'[d])]
  BY DEF Bytes, BeginPos, EndPos
<1>3. [d \in Callers |-> Bytes(hold'[d])]
        = [[d \in Callers |-> Bytes(hold[d])] EXCEPT ![c] = Bytes(h)]
  <2>1. \A d \in Callers : Bytes(hold'[d]) = IF d = c THEN Bytes(h) ELSE Bytes(hold[d])
    BY <1>1
  <2>2. /\ DOMAIN [d \in Callers |-> Bytes(hold[d])] = Callers
        /\ \A d \in Callers : [e \in Callers |-> Bytes(hold[e])][d] = Bytes(hold[d])
    OBVIOUS
  <2> QED BY <2>1, <2>2, Zenon
<1> QED BY <1>2, <1>3

\* Reply: the extent becomes the caller's.
LEMMA ReplyGrants ==
    ASSUME SpaceInv, NEW c \in Callers, Reply(c) PROVE Abstract!Grant(c)
<1>1. PICK w : w = work[c] OBVIOUS
<1>2. /\ hold[c] = NoExtent /\ hold' = [hold EXCEPT ![c] = w]
      /\ UNCHANGED <<volumeCol, chipCol>>
  BY <1>1 DEF Reply, SpaceInv, HandlerLocals, LocalsOf
<1>3. w # NoExtent => HandedOut(w) BY <1>1 DEF SpaceInv, SpaceIsHandedOut
<1>4. Owner(w) BY <1>1, Owners
<1>5. \A x \in chipCol : ~x.Lock => Apart(x, w) BY <1>1 DEF SpaceInv, NoSharedSpace
<1>6. \A e \in Callers : Apart(w, hold[e]) BY <1>1 DEF SpaceInv, NoSharedSpace
<1>7. Bytes(w) \subseteq Abstract!InTransit BY <1>3, <1>4, <1>5, <1>6, TransitBytes
<1>8. [d \in Callers |-> Bytes(hold[d])][c] = {} BY <1>2, NoExtentBytes
<1>9. KnownBytes' = KnownBytes /\ FreeBytes' = FreeBytes
  BY <1>2 DEF KnownBytes, FreeBytes, UnlockedBytes, AboveBytes, Bytes
<1> QED BY <1>2, <1>7, <1>8, <1>9, OwnAfter DEF Abstract!Grant

\* CallAddBlkChip: the caller keeps a part of its bytes.
LEMMA CallAddBlkChipGivesBack ==
    ASSUME SpaceInv, NEW c \in Callers, NEW newPos \in Nat, CallAddBlkChip(c, newPos)
    PROVE  Abstract!GiveBack(c)
<1>1. PICK x, h : x = hold[c] /\ h = PrefixOf(x, newPos) OBVIOUS
<1>2. /\ newPos < calc_object_size(x) /\ hold' = [hold EXCEPT ![c] = h]
      /\ UNCHANGED <<volumeCol, chipCol>>
  BY <1>1 DEF CallAddBlkChip
<1>3. x \in Extent /\ x.BeginOffset < BlkSize
  BY <1>1 DEF SpaceInv, TypeOK, HandlerLocals, LocalsOf
<1>4. /\ BeginPos(x) \in Nat /\ EndPos(x) \in Nat
      /\ calc_object_size(x) = EndPos(x) - BeginPos(x)
  BY <1>3, Positions DEF Extent
<1>5. Bytes(h) \subseteq Bytes(x)
  <2>1. CASE newPos = 0 BY <1>1, <2>1, NoExtentBytes DEF PrefixOf
  <2>2. CASE newPos # 0
    <3>1. /\ h.VolumeId = x.VolumeId /\ BeginPos(h) = BeginPos(x)
          /\ EndPos(h) = BeginPos(x) + newPos
      BY <1>1, <1>3, <2>2, PrefixFacts
    <3>2. EndPos(h) <= EndPos(x) BY <1>2, <1>4, <3>1
    <3> SUFFICES ASSUME NEW b \in Bytes(h) PROVE b \in Bytes(x) OBVIOUS
    <3>3. PICK p \in BeginPos(h) .. (EndPos(h) - 1) : b = <<h.VolumeId, p>> BY ByteOf
    <3>4. p \in BeginPos(x) .. (EndPos(x) - 1) BY <1>4, <3>1, <3>2
    <3> QED BY <3>1, <3>3, <3>4, ByteOf
  <2> QED BY <2>1, <2>2
<1>6. [d \in Callers |-> Bytes(hold[d])][c] = Bytes(x) BY <1>1
<1>7. KnownBytes' = KnownBytes /\ FreeBytes' = FreeBytes
  BY <1>2 DEF KnownBytes, FreeBytes, UnlockedBytes, AboveBytes, Bytes
<1> QED BY <1>2, <1>5, <1>6, <1>7, OwnAfter DEF Abstract!GiveBack

-----------------------------------------------------------------------------
(* The refinement.                                                         *)

LEMMA RefinesInit == Init => Abstract!Init
<1> SUFFICES ASSUME Init PROVE Abstract!Init OBVIOUS
<1>1. /\ chipCol = {}
      /\ \A c \in Callers : hold[c] = NoExtent
      /\ \A v \in VolumeIds : /\ volumeCol[v].BlkCount = 0 /\ volumeCol[v].CurPosition = 0
                              /\ volumeCol[v].Reserved = 0
  BY DEF Init
<1>2. 0 .. (0 * BlkSize - 1) = {} /\ 0 .. (0 + 0 - 1) = {} BY SizeAssumption
<1>3. KnownBytes = {} BY <1>1, <1>2, KnownByte
<1>4. FreeBytes = {}
  <2>1. AboveBytes = {} BY <1>1, <1>2, AboveByte
  <2>2. UnlockedBytes = {} BY <1>1, UnlockedByte
  <2> QED BY <2>1, <2>2 DEF FreeBytes
<1>5. [c \in Callers |-> Bytes(hold[c])] = [c \in Callers |-> {}]
  BY <1>1, NoExtentBytes
<1> QED BY <1>3, <1>4, <1>5 DEF Abstract!Init

\* A document is only changed in these steps.
LEMMA UnregisteredKept ==
    ASSUME SpaceInv, Unregistered, [Next]_vars PROVE Unregistered'
<1>1. volumeCol \in [VolumeIds -> Volume] BY DEF SpaceInv, TypeOK
<1>2. ASSUME UNCHANGED volumeCol PROVE Unregistered' BY <1>2 DEF Unregistered
<1>3. ASSUME NEW v \in VolumeIds, NEW n \in BlkCounts, RegisterVolume(v, n) PROVE Unregistered'
  BY <1>1, <1>2, <1>3 DEF RegisterVolume, Unregistered
<1>4. ASSUME NEW v \in VolumeIds, NEW online, volumeCol' = [volumeCol EXCEPT ![v].isOnline = online]
      PROVE  Unregistered'
  <2>1. \A u \in VolumeIds : volumeCol'[u].exists = volumeCol[u].exists
    BY <1>1, <1>4 DEF Volume
  <2>2. \A u \in VolumeIds : volumeCol'[u].BlkCount = volumeCol[u].BlkCount
    BY <1>1, <1>4 DEF Volume
  <2> QED BY <2>1, <2>2 DEF Unregistered
<1>5. ASSUME NEW c \in Callers, NEW v \in VolumeIds, Reserve(c, v) PROVE Unregistered'
  <2>1. \A u \in VolumeIds : volumeCol'[u].exists = volumeCol[u].exists
    BY <1>1, <1>5 DEF Volume, Reserve
  <2>2. \A u \in VolumeIds : volumeCol'[u].BlkCount = volumeCol[u].BlkCount
    BY <1>1, <1>5 DEF Volume, Reserve
  <2> QED BY <2>1, <2>2 DEF Unregistered
<1> QED BY <1>2, <1>3, <1>4, <1>5, NextVolumes

\* Steps that leave the owners and the sizes alone and free no chip.
LEMMA QuietTakes ==
    ASSUME SpaceInv, UNCHANGED <<volumeCol, hold>>,
           \A x \in chipCol' : ~x.Lock => x \in chipCol
    PROVE  Abstract!Take
<1>1. SizesKept BY DEF SizesKept
<1> QED BY <1>1, Takes

LEMMA OnlineTakes ==
    ASSUME SpaceInv, NEW v \in VolumeIds, NEW online,
           volumeCol' = [volumeCol EXCEPT ![v].isOnline = online], UNCHANGED <<chipCol, hold>>
    PROVE  Abstract!Take
<1>1. SizesKept BY DEF SizesKept, SpaceInv, TypeOK, Volume
<1> QED BY <1>1, Takes

LEMMA RefinesAllocate ==
    ASSUME SpaceInv, NEW c \in Callers, AllocateStep(c) PROVE Abstract!Next
<1>1. ASSUME NEW d \in chipCol, LockChip(c, d) PROVE Abstract!Take
  <2>1. LockedForm(d, req[c].alloc_size).Lock = TRUE
    BY LockedFacts DEF SpaceInv, TypeOK, Request
  <2> QED BY <1>1, <2>1, QuietTakes DEF LockChip
<1>2. ASSUME ShrinkChip(c) PROVE Abstract!Put BY <1>2, ShrinkPuts
<1>3. ASSUME NEW v \in VolumeIds, Reserve(c, v) PROVE Abstract!Take BY <1>3, ReserveTakes
<1>4. ASSUME Reply(c) PROVE Abstract!Grant(c) BY <1>4, ReplyGrants
<1>5. ASSUME \/ DeleteChip(c) \/ NoChipFits(c) \/ GetVolumeCount(c) \/ GetVolumeId(c)
             \/ GetVolumeIdOfEmpty(c) \/ ReserveMisses(c) \/ NoSpace(c)
      PROVE  Abstract!Take
  BY <1>5, QuietTakes DEF DeleteChip, NoChipFits, GetVolumeCount, GetVolumeId,
                          GetVolumeIdOfEmpty, ReserveMisses, NoSpace
<1> QED BY <1>1, <1>2, <1>3, <1>4, <1>5 DEF AllocateStep, Abstract!Next

LEMMA RefinesAdd ==
    ASSUME SpaceInv, NEW c \in Callers, AddStep(c) PROVE Abstract!Next
<1>1. ASSUME InsertChip(c) PROVE Abstract!Put BY <1>1, InsertPuts
<1>2. ASSUME ~InsertChip(c) PROVE Abstract!Take
  BY <1>2, QuietTakes DEF AddStep, MergeForward, MergeBackward, ForwardDone, BackwardDone
<1> QED BY <1>1, <1>2 DEF Abstract!Next

LEMMA RefinesNext ==
    ASSUME SpaceInv, Unregistered, [Next]_vars
    PROVE  [Abstract!Next]_(Abstract!vars)
<1>1. ASSUME NEW v \in VolumeIds, NEW n \in BlkCounts, RegisterVolume(v, n)
      PROVE  Abstract!Next
  <2>1. CASE volumeCol[v].exists
    BY <1>1, <2>1, QuietTakes DEF RegisterVolume, handlerVars, Abstract!Next
  <2>2. CASE ~volumeCol[v].exists
    BY <1>1, <2>2, RegisterVolumeGrows DEF Abstract!Next
  <2> QED BY <2>1, <2>2
<1>2. ASSUME NEW v \in VolumeIds,
             RegisterOnline(v) \/ Command(v)
      PROVE  Abstract!Next
  BY <1>2, OnlineTakes DEF RegisterOnline, Command, ManageMessage,
         ManageMessageFails, handlerVars, Abstract!Next
<1>3. ASSUME NEW r \in Rebuilders,
             RebuildRead(r) \/ RebuildWrite(r) \/ RebuildFails(r)
      PROVE  Abstract!Next
  BY <1>3, QuietTakes DEF RebuildRead, RebuildWrite, RebuildFails, handlerVars, Abstract!Next
<1>4. ASSUME NEW c \in Callers, NEW size \in Sizes, CallAllocateBlks(c, size)
      PROVE  Abstract!Next
  BY <1>4, QuietTakes DEF CallAllocateBlks, Abstract!Next
<1>5. ASSUME NEW c \in Callers, NEW newPos \in SizesOf(hold[c]), CallAddBlkChip(c, newPos)
      PROVE  Abstract!Next
  <2>1. hold[c] \in Extent BY DEF SpaceInv, TypeOK
  <2>2. calc_object_size(hold[c]) = EndPos(hold[c]) - BeginPos(hold[c])
        /\ EndPos(hold[c]) \in Nat /\ BeginPos(hold[c]) \in Nat
    BY <2>1, Positions DEF Extent
  <2>3. newPos \in Nat BY <2>2 DEF SizesOf
  <2> QED BY <1>5, <2>3, CallAddBlkChipGivesBack DEF Abstract!Next
<1>6. ASSUME NEW c \in Callers, AllocateStep(c) PROVE Abstract!Next BY <1>6, RefinesAllocate
<1>7. ASSUME NEW c \in Callers, AddStep(c) PROVE Abstract!Next BY <1>7, RefinesAdd
<1>8. ASSUME Crash \/ \E c \in Callers : HandlerFails(c) PROVE Abstract!Next
  BY <1>8, QuietTakes DEF Crash, HandlerFails, Abstract!Next
<1>9. ASSUME UNCHANGED vars PROVE UNCHANGED Abstract!vars
  BY <1>9 DEF vars, Abstract!vars, KnownBytes, FreeBytes, UnlockedBytes, AboveBytes, Bytes
<1> QED BY <1>1, <1>2, <1>3, <1>4, <1>5, <1>6, <1>7, <1>8, <1>9 DEF Next, Command

(***************************************************************************)
(* RegM implements SpaceAlloc: whatever the number of volumes, callers and *)
(* block size, and whichever MongoDB calls fail, the handlers of regm only *)
(* move bytes between free, in transit and owned, and a byte is granted    *)
(* only when it is neither free nor owned.                                 *)
(***************************************************************************)
THEOREM RegMImplementsSpaceAlloc == Spec => ImplementsSpaceAlloc
<1>1. Init => Unregistered BY DEF Init, Unregistered
<1>2. SpaceInv /\ Unregistered /\ [Next]_vars => Unregistered' BY UnregisteredKept
<1>3. SpaceInv /\ Unregistered /\ [Next]_vars => [Abstract!Next]_(Abstract!vars)
  BY RefinesNext
<1> QED BY <1>1, <1>2, <1>3, RefinesInit, SpaceInvariant, PTL
        DEF Spec, ImplementsSpaceAlloc, Abstract!Spec
=============================================================================
