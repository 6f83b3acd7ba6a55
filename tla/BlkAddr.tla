------------------------------ MODULE BlkAddr ------------------------------
(***************************************************************************)
(* The address arithmetic of utils/bfss_utils.h.  A byte of a volume has a *)
(* flat position (int64) and a pair (block index, offset inside the        *)
(* block); RegM, the storage nodes and the API servers convert between the *)
(* two all the time, and free space is merged by comparing PAIRS, so two   *)
(* different pairs must never name the same byte.                          *)
(*                                                                         *)
(* The operators keep the source's names; the C++ overloads with three     *)
(* arguments end in 3.  C's truncating division is spelled out, because    *)
(* AllocateBlks calls the arithmetic with a negative size.                 *)
(***************************************************************************)
EXTENDS Integers

CONSTANTS BlkSize,    \* blk_size, 5 MB in bfss_config.h
          AlignSize   \* blk_align_size, 16 bytes

ASSUME SizeAssumption ==
    /\ AlignSize \in Nat \ {0}
    /\ BlkSize \in Nat \ {0}
    /\ BlkSize % AlignSize = 0

-----------------------------------------------------------------------------
\* C's % and / : the quotient is truncated towards zero.
CRem(a, b) == IF a >= 0 THEN a % b ELSE -((-a) % b)
CDiv(a, b) == IF a >= 0 THEN a \div b ELSE -((-a) \div b)

\* (s - 1 + A) & -A : round up to a multiple of the (power of two) alignment.
data_align(s) == ((s - 1 + AlignSize) \div AlignSize) * AlignSize

\* p & ~(A - 1) : round down.
pos_align(p) == (p \div AlignSize) * AlignSize

\* Wrong on purpose: without the correction for a negative remainder.
pos_align_x_NoBorrow(s) == s - CRem(s, BlkSize)

\* pos_align_x<blk_size> : round down to the start of a block, also below 0.
pos_align_x(s) ==
    LET append == CRem(s, BlkSize)
    IN  IF append < 0 THEN s - (BlkSize + append) ELSE s - append

get_oid_begin_pos(index, off) == index * BlkSize + off
get_oid_end_pos(index, off) == index * BlkSize + off
get_oid_end_pos3(index, off, size) == index * BlkSize + off + size

get_blk_end_offset(pos) == pos - pos_align_x(pos)
get_blk_begin_offset(pos) == pos - pos_align_x(pos)
get_blk_index(pos) == CDiv(pos_align_x(pos), BlkSize)

get_blk_end_offset3(index, off, size) ==
    LET pos == get_oid_begin_pos(index, off) + size
    IN  pos - pos_align_x(pos)

get_blk_index3(index, off, size) ==
    index + CDiv(pos_align_x(off + size), BlkSize)

get_oid_size(bIndex, bOff, eIndex, eOff) ==
    (eIndex * BlkSize + eOff) - (bIndex * BlkSize + bOff)

\* calc_object_size: the size of an extent record, by get_oid_size.
calc_object_size(info) ==
    get_oid_size(info.BeginIndex, info.BeginOffset, info.EndIndex, info.EndOffset)

-----------------------------------------------------------------------------
\* Write and read of the API server: where byte `offset` of an object that
\* begins at (index, off) lies.  The block offset comes from the exact
\* position, the block index from the position rounded down to the alignment.
object_blk_offset(index, off, offset) ==
    get_blk_begin_offset(get_oid_begin_pos(index, off) + offset)

\* Wrong on purpose: the offset is rounded up.
object_blk_index_RoundsUp(index, off, offset) ==
    get_blk_index3(index, off, data_align(offset))

object_blk_index(index, off, offset) ==
    get_blk_index3(index, off, pos_align(offset))

-----------------------------------------------------------------------------
\* get_index and get_offset of the storage node: where complete_hash goes on
\* reading an object of which `done` bytes were hashed.
hash_index(index, off, done)  == index + CDiv(off + done + 1, BlkSize)
hash_offset(index, off, done) == CRem(off + done, BlkSize)
=============================================================================
