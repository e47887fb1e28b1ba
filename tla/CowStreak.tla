------------------------------ MODULE CowStreak ------------------------------
(***************************************************************************)
(* How the COW driver (block/cow.c) finds, for a read, which sectors come *)
(* from the COW file and which from the backing image: cow_read asks       *)
(* cow_co_is_allocated for the first sector, which reads the one 512-byte  *)
(* file sector of the bitmap holding that sector's bit, and cow_find_streak *)
(* counts how many following bits have the same value within that buffer. *)
(*                                                                         *)
(* The bitmap starts right after the header, so a sector's bit is bit      *)
(* HdrBytes*8 + sector of the file, and bitmap bytes straddle the file     *)
(* sector boundaries. Bytes keep their 8 bits; the file sector is scaled   *)
(* from 512 bytes (4096 bits, BITS_PER_BITMAP_SECTOR) to SecBits bits and  *)
(* the header from 1044 bytes to HdrBytes, keeping it unaligned.           *)
(*                                                                         *)
(* bitmap is the set of sectors whose bit is set. Writes set bits         *)
(* (cow_update_bitmap after the data is written); the read algorithm is    *)
(* checked in every reachable bitmap against the bit-by-bit reference.     *)
(***************************************************************************)
EXTENDS Integers, Sequences, FiniteSets

CONSTANTS
  N,         \* bs->total_sectors
  HdrBytes,  \* sizeof(struct cow_header_v2), scaled
  SecBits,   \* BITS_PER_BITMAP_SECTOR, scaled (a multiple of 8)
  MaxRuns    \* model bound: runs of set bits explored in the bitmap

ASSUME SecBits % 8 = 0 /\ N > 0

Sectors == 0..(N - 1)
SecBytes == SecBits \div 8

VARIABLE bitmap

MinOf(a, b) == IF a < b THEN a ELSE b

(* Byte j of the file: the header's bytes are never inspected; a bitmap   *)
(* byte holds the bits of eight consecutive sectors, least significant    *)
(* bit first (cow_set_bit: offset header + bitnum / 8, bit bitnum % 8).    *)
RECURSIVE ByteFrom(_, _, _)
ByteFrom(bm, j, b) ==
  IF b = 8 THEN 0
  ELSE (IF 8 * j + b - 8 * HdrBytes \in bm THEN 2^b ELSE 0) + ByteFrom(bm, j, b + 1)
FileByte(bm, j) == ByteFrom(bm, j, 0)

(* cow_test_bit *)
TestBit(bitnum, buf) == (buf[bitnum \div 8] \div 2^(bitnum % 8)) % 2

(* The loop of cow_find_streak: whole bytes equal to the streak value are *)
(* skipped eight bits at a time, otherwise one bit at a time.             *)
RECURSIVE StreakLoop(_, _, _, _)
StreakLoop(buf, value, bitnum, last) ==
  IF bitnum >= last THEN bitnum
  ELSE IF bitnum % 8 = 0 /\ buf[bitnum \div 8] = (IF value = 1 THEN 255 ELSE 0)
    THEN StreakLoop(buf, value, bitnum + 8, last)
  ELSE IF TestBit(bitnum, buf) = value
    THEN StreakLoop(buf, value, bitnum + 1, last)
  ELSE bitnum

(* cow_find_streak *)
FindStreak(buf, value, start, nb) ==
  LET last == MinOf(start + nb, SecBits)
  IN MinOf(StreakLoop(buf, value, start, last), last) - start

(* The 512-byte file sector of the bitmap starting at byte offset, as    *)
(* bdrv_pread reads it into cow_co_is_allocated's buffer.                 *)
BufAt(bm, offset) == [j \in 0..(SecBytes - 1) |-> FileByte(bm, offset + j)]

(* The test of the first bit and the streak count from it.                *)
Allocated(buf, bitnum, nb) ==
  [changed |-> TestBit(bitnum, buf),
   num     |-> FindStreak(buf, TestBit(bitnum, buf), bitnum, nb)]

(* Mutant: the buffer is always the first file sector of the bitmap.    *)
IsAllocatedFirstSector(bm, sector, nb) ==
  Allocated(BufAt(bm, 0), (sector + HdrBytes * 8) % SecBits, nb)

(* cow_co_is_allocated: read the file sector holding the bit and count the *)
(* streak from it; [changed, num] are the return value and *num_same.      *)
IsAllocated(bm, sector, nb) ==
  Allocated(BufAt(bm, ((sector + HdrBytes * 8) \div 8) - (((sector + HdrBytes * 8) \div 8) % SecBytes)),
            (sector + HdrBytes * 8) % SecBits, nb)

(* cow_read: per sector, 1 when it is read from the COW file, 0 when from *)
(* the backing image (or zeroes); <<-1>> marks a streak of length 0,     *)
(* on which the loop would never end. CowReadFrom is one turn of its loop *)
(* given a = cow_co_is_allocated's answer.                                *)
RECURSIVE CowRead(_, _, _), CowReadFrom(_, _, _, _)
CowReadFrom(bm, sector, nb, a) ==
  IF a.num <= 0 THEN <<-1>>
  ELSE [i \in 1..a.num |-> a.changed] \o CowRead(bm, sector + a.num, nb - a.num)
CowRead(bm, sector, nb) ==
  IF nb <= 0 THEN <<>> ELSE CowReadFrom(bm, sector, nb, IsAllocated(bm, sector, nb))

Init == bitmap = {}

(* Mutant: the bitmap loop runs while i <= nb_sectors. *)
WriteOneMore(sector, nb) == bitmap' = bitmap \cup sector..(sector + nb)

(* cow_write of nb sectors from sector, as far as the bitmap is concerned: *)
(* cow_update_bitmap sets each bit in turn.                                *)
Write(sector, nb) == bitmap' = bitmap \cup sector..(sector + nb - 1)

Next == \E s \in Sectors, n \in 1..N : s + n <= N /\ Write(s, n)

Spec == Init /\ [][Next]_bitmap

(* Model bound: the bitmap is explored while it holds at most MaxRuns      *)
(* maximal runs of set sectors; the requests themselves are unconstrained. *)
RunsBound(bm) == Cardinality({s \in bm : s - 1 \notin bm}) <= MaxRuns

BoundedNext == Next /\ RunsBound(bitmap')

BoundedSpec == Init /\ [][BoundedNext]_bitmap


-----------------------------------------------------------------------------
TypeOK == bitmap \subseteq Sectors

(* The reference: sector i of a read comes from the COW file exactly when *)
(* its bit is set.                                                         *)
ReadRef(bm, sector, nb) == [i \in 1..nb |-> IF sector + i - 1 \in bm THEN 1 ELSE 0]

(* For every request inside the disk, cow_read's split into streaks (via  *)
(* cow_co_is_allocated and cow_find_streak) ends and reads each sector    *)
(* from where its bit says: a streak is cut at the end of the 512-byte    *)
(* bitmap sector by the MIN clamp, the next turn reads the following file *)
(* sector at its aligned offset, and streaks that start mid-byte or cross *)
(* a byte count every bit.                                                 *)
ReadFromBitmap ==
  \A s \in Sectors, n \in 1..N : s + n <= N => CowRead(bitmap, s, n) = ReadRef(bitmap, s, n)
=============================================================================
