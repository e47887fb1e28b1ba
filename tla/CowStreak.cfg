\* Seventeen sectors; a 1-byte header and 2-byte bitmap sectors (a power
\* of two, as the code's masks need) put the bits of sectors 0..7 in byte 1
\* of the first bitmap sector, and those of sectors 8..15 and 16 in bytes
\* 2 and 3, the second bitmap sector, read at file offset 2. So streaks
\* start unaligned, are cut by the MIN clamp at the end of a bitmap sector
\* and continue in the next one, cross a byte inside a buffer, and
\* whole-byte skips happen for both values. The written bitmap is explored
\* while it holds at most two runs of set sectors.
CONSTANTS
  N = 17
  HdrBytes = 1
  SecBits = 16
  MaxRuns = 2
SPECIFICATION BoundedSpec
INVARIANTS ReadFromBitmap
