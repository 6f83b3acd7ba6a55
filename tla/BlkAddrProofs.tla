--------------------------- MODULE BlkAddrProofs ---------------------------
(***************************************************************************)
(* Facts about the address arithmetic for every block size and alignment.  *)
(***************************************************************************)
EXTENDS BlkAddr, TLAPS

\* Quotient and remainder are unique.
LEMMA DivMod ==
    ASSUME NEW b \in Nat \ {0}, NEW p \in Int, NEW q \in Int, NEW r \in Int,
           p = b * q + r, 0 <= r, r < b
    PROVE  p \div b = q /\ p % b = r
OBVIOUS

\* pos_align_x is the floor to a block boundary, also for the negative sizes
\* that AllocateBlks passes when it cuts the tail of a chip.
LEMMA PosAlignX ==
    ASSUME NEW s \in Int
    PROVE  pos_align_x(s) = BlkSize * (s \div BlkSize)
<1>1. BlkSize \in Nat \ {0} BY SizeAssumption
<1>2. s = BlkSize * (s \div BlkSize) + (s % BlkSize) /\ s % BlkSize \in 0 .. (BlkSize - 1)
  BY <1>1
<1>3. CASE s >= 0
  BY <1>1, <1>2, <1>3 DEF pos_align_x, CRem
<1>4. CASE s < 0
  <2> DEFINE t == -s
  <2>1. t \in Nat /\ t > 0 BY <1>4
  <2>2. t = BlkSize * (t \div BlkSize) + (t % BlkSize) /\ t % BlkSize \in 0 .. (BlkSize - 1)
        /\ t \div BlkSize \in Int
    BY <1>1, <2>1
  <2>3. CASE t % BlkSize = 0
    <3>1. s = BlkSize * (-(t \div BlkSize)) BY <2>2, <2>3, <1>1
    <3>2. s \div BlkSize = -(t \div BlkSize) BY <3>1, <1>1, <2>2
    <3> QED BY <1>1, <1>4, <2>3, <3>1, <3>2 DEF pos_align_x, CRem
  <2>4. CASE t % BlkSize # 0
    <3>1. s = BlkSize * (-(t \div BlkSize) - 1) + (BlkSize - (t % BlkSize)) BY <2>2, <1>1
    <3>2. s \div BlkSize = -(t \div BlkSize) - 1 BY <3>1, <1>1, <2>2, <2>4
    <3>3. pos_align_x(s) = s - (BlkSize - (t % BlkSize))
      BY <1>1, <1>4, <2>2, <2>4 DEF pos_align_x, CRem
    <3> QED BY <1>1, <2>2, <3>1, <3>2, <3>3
  <2> QED BY <2>3, <2>4
<1> QED BY <1>3, <1>4

\* The division in get_blk_index is exact.
LEMMA ExactDiv ==
    ASSUME NEW q \in Int
    PROVE  CDiv(BlkSize * q, BlkSize) = q
<1>1. BlkSize \in Nat \ {0} BY SizeAssumption
<1>2. CASE q >= 0
  <2>1. BlkSize * q >= 0 /\ (BlkSize * q) \div BlkSize = q BY <1>1, <1>2
  <2> QED BY <2>1 DEF CDiv
<1>3. CASE q < 0
  <2>1. BlkSize * q < 0 BY <1>1, <1>3
  <2>2. -(BlkSize * q) = BlkSize * (-q) BY <1>1
  <2>3. (-(BlkSize * q)) \div BlkSize = -q BY <1>1, <2>2, DivMod
  <2>4. CDiv(BlkSize * q, BlkSize) = -((-(BlkSize * q)) \div BlkSize)
    BY <1>1, <2>1 DEF CDiv
  <2> QED BY <2>3, <2>4
<1> QED BY <1>2, <1>3

\* get_blk_index and get_blk_end_offset of a flat position name that position.
LEMMA PairOfPos ==
    ASSUME NEW pos \in Nat
    PROVE  /\ get_blk_index(pos) \in Nat
           /\ get_blk_end_offset(pos) \in 0 .. (BlkSize - 1)
           /\ get_blk_begin_offset(pos) = get_blk_end_offset(pos)
           /\ get_oid_begin_pos(get_blk_index(pos), get_blk_end_offset(pos)) = pos
<1>1. BlkSize \in Nat \ {0} BY SizeAssumption
<1>2. pos = BlkSize * (pos \div BlkSize) + (pos % BlkSize) /\ pos % BlkSize \in 0 .. (BlkSize - 1)
      /\ pos \div BlkSize \in Nat
  BY <1>1
<1>3. pos_align_x(pos) = BlkSize * (pos \div BlkSize) BY PosAlignX
<1>4. get_blk_index(pos) = pos \div BlkSize BY <1>2, <1>3, ExactDiv DEF get_blk_index
<1>5. get_blk_end_offset(pos) = pos % BlkSize BY <1>1, <1>2, <1>3 DEF get_blk_end_offset
<1> QED BY <1>1, <1>2, <1>4, <1>5
        DEF get_oid_begin_pos, get_blk_begin_offset, get_blk_end_offset

\* The three argument forms: the pair moved by `size` (of either sign) is the
\* normal pair of the moved position.  Both ways of computing the offset agree.
LEMMA PairMoved ==
    ASSUME NEW index \in Nat, NEW off \in Nat, NEW size \in Int,
           get_oid_begin_pos(index, off) + size >= 0
    PROVE  /\ get_blk_index3(index, off, size) \in Nat
           /\ get_blk_end_offset3(index, off, size) \in 0 .. (BlkSize - 1)
           /\ get_blk_end_offset(get_oid_end_pos3(index, off, size))
                = get_blk_end_offset3(index, off, size)
           /\ get_oid_begin_pos(get_blk_index3(index, off, size),
                                get_blk_end_offset3(index, off, size))
                = get_oid_begin_pos(index, off) + size
<1>1. BlkSize \in Nat \ {0} BY SizeAssumption
<1> DEFINE t == off + size
           p == index * BlkSize + off + size
<1>2. /\ t = BlkSize * (t \div BlkSize) + (t % BlkSize)
      /\ t % BlkSize \in 0 .. (BlkSize - 1)
      /\ t \div BlkSize \in Int
  BY <1>1
<1>3. p \in Nat BY <1>1 DEF get_oid_begin_pos
<1>4. p = BlkSize * (index + t \div BlkSize) + (t % BlkSize) BY <1>1, <1>2
<1>5. p \div BlkSize = index + t \div BlkSize /\ p % BlkSize = t % BlkSize
  <2> DEFINE q == index + t \div BlkSize
             r == t % BlkSize
  <2>1. q \in Int /\ r \in Int /\ 0 <= r /\ r < BlkSize BY <1>1, <1>2
  <2>2. p = BlkSize * q + r BY <1>4
  <2>3. p \in Int BY <1>3
  <2> HIDE DEF p, q, r
  <2>4. p \div BlkSize = q /\ p % BlkSize = r BY <1>1, <2>1, <2>2, <2>3, DivMod
  <2> QED BY <2>4 DEF q, r
<1>6. pos_align_x(p) = BlkSize * (p \div BlkSize) BY <1>3, PosAlignX
<1>7. get_blk_index3(index, off, size) = p \div BlkSize
  <2>1. pos_align_x(off + size) = BlkSize * ((off + size) \div BlkSize) BY PosAlignX
  <2>2. CDiv(BlkSize * ((off + size) \div BlkSize), BlkSize) = (off + size) \div BlkSize
    BY <1>2, ExactDiv
  <2> QED BY <2>1, <2>2, <1>5 DEF get_blk_index3
<1>8. get_blk_end_offset3(index, off, size) = p - pos_align_x(p)
  BY DEF get_blk_end_offset3, get_oid_begin_pos
<1>9. get_blk_end_offset(get_oid_end_pos3(index, off, size)) = p - pos_align_x(p)
  BY DEF get_blk_end_offset, get_oid_end_pos3
<1>10. p - pos_align_x(p) = p % BlkSize BY <1>1, <1>3, <1>6
<1>11. p \div BlkSize \in Nat /\ p % BlkSize \in 0 .. (BlkSize - 1)
       /\ p = (p \div BlkSize) * BlkSize + (p % BlkSize)
  <2> HIDE DEF p
  <2> QED BY <1>1, <1>3
<1> HIDE DEF p, t
<1>12. get_oid_begin_pos(p \div BlkSize, p % BlkSize) = p BY <1>11 DEF get_oid_begin_pos
<1>13. p = get_oid_begin_pos(index, off) + size BY DEF p, get_oid_begin_pos
<1> QED BY <1>7, <1>8, <1>9, <1>10, <1>11, <1>12, <1>13

\* Two normal pairs for one position are equal: neighbours may be recognised by
\* comparing pairs, as the filters of AddBlkChip do.
THEOREM PairIsUnique ==
    ASSUME NEW i \in Nat, NEW o \in 0 .. (BlkSize - 1),
           NEW j \in Nat, NEW q \in 0 .. (BlkSize - 1),
           get_oid_begin_pos(i, o) = get_oid_begin_pos(j, q)
    PROVE  i = j /\ o = q
<1>1. BlkSize \in Nat \ {0} BY SizeAssumption
<1>2. i * BlkSize + o = j * BlkSize + q BY DEF get_oid_begin_pos
<1>3. (i * BlkSize + o) \div BlkSize = i /\ (i * BlkSize + o) % BlkSize = o BY <1>1
<1>4. (j * BlkSize + q) \div BlkSize = j /\ (j * BlkSize + q) % BlkSize = q BY <1>1
<1> QED BY <1>2, <1>3, <1>4

\* data_align never returns less than it is given, and a positive size stays positive.
LEMMA DataAlign ==
    ASSUME NEW s \in Nat
    PROVE  data_align(s) \in Nat /\ data_align(s) >= s
<1>1. AlignSize \in Nat \ {0} BY SizeAssumption
<1> DEFINE t == s - 1 + AlignSize
<1>2. /\ t = AlignSize * (t \div AlignSize) + (t % AlignSize)
      /\ t % AlignSize \in 0 .. (AlignSize - 1)
      /\ t \div AlignSize \in Nat
      /\ t \in Nat
  BY <1>1
<1>3. data_align(s) = AlignSize * (t \div AlignSize) BY <1>1, <1>2 DEF data_align
<1> HIDE DEF t
<1>4. AlignSize * (t \div AlignSize) \in Nat BY <1>1, <1>2
<1>5. t = s - 1 + AlignSize BY DEF t
<1> QED BY <1>1, <1>2, <1>3, <1>4, <1>5

\* Rounding a position down to the alignment does not leave its block.
LEMMA AlignKeepsBlock ==
    ASSUME NEW off \in Nat, off % AlignSize = 0, NEW offset \in Nat
    PROVE  (off + pos_align(offset)) \div BlkSize = (off + offset) \div BlkSize
<1> DEFINE A == AlignSize
           k == BlkSize \div A
           m == off \div A
           n == offset \div A
           r == offset % A
           u == (m + n) \div k
           w == (m + n) % k
<1>1. A \in Nat \ {0} /\ BlkSize \in Nat \ {0} BY SizeAssumption
<1>2. BlkSize = A * k /\ k \in Nat \ {0}
  <2>1. BlkSize = A * k + (BlkSize % A) /\ k \in Nat BY <1>1
  <2> QED BY <1>1, <2>1, SizeAssumption
<1>3. off = A * m /\ m \in Nat
  <2>1. off = A * m + (off % A) /\ m \in Nat BY <1>1
  <2> QED BY <1>1, <2>1
<1>4. offset = A * n + r /\ n \in Nat /\ r \in 0 .. (A - 1) BY <1>1
<1>5. pos_align(offset) = A * n BY <1>1, <1>4 DEF pos_align
<1> HIDE DEF k, m, n, r
<1>6. m + n = k * u + w /\ u \in Nat /\ w \in 0 .. (k - 1) BY <1>2, <1>3, <1>4
<1> HIDE DEF A, u, w
<1>7. off + pos_align(offset) = BlkSize * u + A * w
  <2>1. off + pos_align(offset) = A * (m + n) BY <1>1, <1>3, <1>4, <1>5
  <2>2. A * (m + n) = A * (k * u) + A * w BY <1>1, <1>2, <1>6
  <2>3. A * (k * u) = (A * k) * u BY <1>1, <1>2, <1>6
  <2> QED BY <1>2, <2>1, <2>2, <2>3
<1>8. A * w \in Nat /\ A * w <= BlkSize - A
  <2>1. A * w <= A * (k - 1) BY <1>1, <1>2, <1>6
  <2>2. A * (k - 1) = A * k - A BY <1>1, <1>2
  <2> QED BY <1>1, <1>2, <1>6, <2>1, <2>2
<1>9. off + offset = BlkSize * u + (A * w + r) BY <1>1, <1>3, <1>4, <1>5, <1>6, <1>7, <1>8
<1>10. A * w + r \in Nat /\ A * w + r < BlkSize BY <1>1, <1>4, <1>8
<1>11. (off + pos_align(offset)) \div BlkSize = u
  <2>1. off + pos_align(offset) \in Int BY <1>3, <1>4, <1>5, <1>1
  <2>2. A * w \in Int /\ 0 <= A * w /\ A * w < BlkSize BY <1>1, <1>8
  <2>3. u \in Int BY <1>6
  <2> QED BY <1>1, <1>7, <2>1, <2>2, <2>3, DivMod
<1>12. (off + offset) \div BlkSize = u
  <2> DEFINE x == A * w + r
             y == off + offset
  <2>1. x \in Int /\ 0 <= x /\ x < BlkSize BY <1>10
  <2>2. u \in Int /\ y \in Int BY <1>6
  <2>3. y = BlkSize * u + x BY <1>9
  <2> HIDE DEF x, y
  <2>4. y \div BlkSize = u BY <1>1, <2>1, <2>2, <2>3, DivMod
  <2> QED BY <2>4 DEF y
<1> QED BY <1>11, <1>12

\* Write and read of the API server address byte `offset` of the object at
\* (index, off) correctly, for every offset, aligned or not: the pair they send to
\* the storage node is the normal pair of the begin position plus offset.
THEOREM ObjectByteAddress ==
    ASSUME NEW index \in Nat, NEW off \in Nat, off % AlignSize = 0, NEW offset \in Nat
    PROVE  /\ object_blk_index(index, off, offset) \in Nat
           /\ object_blk_offset(index, off, offset) \in 0 .. (BlkSize - 1)
           /\ get_oid_begin_pos(object_blk_index(index, off, offset),
                                object_blk_offset(index, off, offset))
                = get_oid_begin_pos(index, off) + offset
<1>1. BlkSize \in Nat \ {0} /\ AlignSize \in Nat \ {0} BY SizeAssumption
<1>2. pos_align(offset) \in Nat
  <2>1. offset \div AlignSize \in Nat BY <1>1
  <2> QED BY <1>1, <2>1 DEF pos_align
<1>3. get_blk_index3(index, off, pos_align(offset)) = get_blk_index3(index, off, offset)
  BY <1>2, AlignKeepsBlock, PosAlignX DEF get_blk_index3
<1>4. get_oid_begin_pos(index, off) \in Nat
  <2>1. index * BlkSize \in Nat BY <1>1
  <2> QED BY <2>1 DEF get_oid_begin_pos
<1>5. get_blk_begin_offset(get_oid_begin_pos(index, off) + offset)
        = get_blk_end_offset3(index, off, offset)
  BY DEF get_blk_begin_offset, get_blk_end_offset3
<1>6. get_oid_begin_pos(index, off) + offset >= 0 BY <1>4
<1> QED BY <1>3, <1>5, <1>6, PairMoved DEF object_blk_index, object_blk_offset

(***************************************************************************)
(* complete_hash goes on at the byte after those that were hashed, but     *)
(* when that is the last byte of a block: get_index adds 1 before it       *)
(* divides, so the index is that of the next block and the offset that of  *)
(* the byte, a whole block too far.                                        *)
(***************************************************************************)
THEOREM HashContinuesAt ==
    ASSUME NEW index \in Nat, NEW off \in Nat, NEW done \in Nat
    PROVE  get_oid_begin_pos(hash_index(index, off, done), hash_offset(index, off, done))
             = get_oid_begin_pos(index, off) + done
               + (IF (off + done + 1) % BlkSize = 0 THEN BlkSize ELSE 0)
<1>1. BlkSize \in Nat \ {0} BY SizeAssumption
<1> DEFINE t == off + done
           q == t \div BlkSize
           r == t % BlkSize
<1>2. t \in Nat /\ t = BlkSize * q + r /\ q \in Nat /\ r \in 0 .. (BlkSize - 1) BY <1>1
<1>3. hash_offset(index, off, done) = r BY <1>2 DEF hash_offset, CRem
<1>4. hash_index(index, off, done) = index + ((t + 1) \div BlkSize) BY <1>2 DEF hash_index, CDiv
<1> HIDE DEF q, r
<1>5. CASE r = BlkSize - 1
  <2>1. t + 1 = BlkSize * (q + 1) + 0 BY <1>1, <1>2, <1>5
  <2>2. (t + 1) \div BlkSize = q + 1 /\ (t + 1) % BlkSize = 0
    <3>1. t + 1 \in Int /\ q + 1 \in Int /\ 0 \in Int /\ 0 <= 0 /\ 0 < BlkSize BY <1>1, <1>2
    <3> HIDE DEF t
    <3> QED BY <1>1, <2>1, <3>1, DivMod
  <2> HIDE DEF t
  <2>3. index * BlkSize + BlkSize * q + BlkSize = (index + (q + 1)) * BlkSize BY <1>1, <1>2
  <2>4. get_oid_begin_pos(hash_index(index, off, done), hash_offset(index, off, done))
          = (index + (q + 1)) * BlkSize + r
    BY <1>3, <1>4, <2>2 DEF get_oid_begin_pos
  <2>5. get_oid_begin_pos(index, off) + done = index * BlkSize + t BY <1>1 DEF get_oid_begin_pos, t
  <2>6. (off + done + 1) % BlkSize = 0 BY <2>2 DEF t
  <2> QED BY <1>1, <1>2, <2>3, <2>4, <2>5, <2>6
<1>6. CASE r # BlkSize - 1
  <2>1. t + 1 = BlkSize * q + (r + 1) /\ 0 <= r + 1 /\ r + 1 < BlkSize BY <1>1, <1>2, <1>6
  <2>2. (t + 1) \div BlkSize = q /\ (t + 1) % BlkSize = r + 1
    <3>1. t + 1 \in Int /\ q \in Int /\ r + 1 \in Int BY <1>2
    <3> HIDE DEF t
    <3> QED BY <1>1, <2>1, <3>1, DivMod
  <2> HIDE DEF t
  <2>3. index * BlkSize + BlkSize * q = (index + q) * BlkSize BY <1>1, <1>2
  <2>4. get_oid_begin_pos(hash_index(index, off, done), hash_offset(index, off, done))
          = (index + q) * BlkSize + r
    BY <1>3, <1>4, <2>2 DEF get_oid_begin_pos
  <2>5. get_oid_begin_pos(index, off) + done = index * BlkSize + t BY <1>1 DEF get_oid_begin_pos, t
  <2>6. (off + done + 1) % BlkSize # 0 BY <1>2, <2>2 DEF t
  <2> QED BY <1>1, <1>2, <2>3, <2>4, <2>5, <2>6
<1> QED BY <1>5, <1>6
=============================================================================
