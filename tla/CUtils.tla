-------------------------------- MODULE CUtils --------------------------------
(***************************************************************************)
(* The I/O vector and string helpers of cutils.c.                          *)
(*                                                                         *)
(* A QEMUIOVector is an array of (iov_base, iov_len) segments into guest   *)
(* memory with a count niov, a capacity nalloc (-1 for a vector wrapped    *)
(* around a caller's array by qemu_iovec_init_external) and a cached total *)
(* size. The block layer builds one with init, add, copy and concat, and   *)
(* moves data through it with to_buffer, from_buffer and the memsets. qv   *)
(* is the caller's vector (NoVec before it is initialised); iov holds its  *)
(* first niov segments, so niov is Len(iov). A failed assert() aborts the  *)
(* process: aborted, after which nothing runs.                             *)
(*                                                                         *)
(* Memory is a few addresses; a segment names its bytes by address, so     *)
(* segments may overlap, as guest scatter lists can. The operations that  *)
(* move data are operators on a memory and a buffer, checked in every      *)
(* reachable vector against a byte-by-byte reference on the vector's       *)
(* flattened address sequence; the operations that build vectors are the  *)
(* actions, and copy and concat are also checked for every source.         *)
(*                                                                         *)
(* C strings are sequences of non-zero character codes, a buffer the      *)
(* sequence of its bytes.                                                  *)
(***************************************************************************)
EXTENDS Integers, Sequences, SequencesExt

CONSTANTS
  MemSize,   \* bytes of guest memory, addresses 0..MemSize-1
  MaxLen,    \* largest iov_len an add passes
  MaxNiov,   \* bound on niov, so vectors stay finite
  Hints,     \* alloc_hint values of qemu_iovec_init
  ExtArrays, \* caller arrays (sequences of segments) for init_external
  SrcVecs,   \* source vectors of copy, concat and concat_iov
  Skips,     \* skip and soffset arguments
  Counts,    \* size, count and sbytes arguments
  BufSize,   \* bytes of the caller's linear buffer
  NoVec,     \* an uninitialised QEMUIOVector
  Chars,     \* character codes of the strings (non-zero)
  MaxStr,    \* longest string
  Dates      \* struct tm values given to mktimegm

Addrs == 0..(MemSize - 1)
Segs == {s \in [base : Addrs, len : 0..MaxLen] : s.base + s.len <= MemSize}

VARIABLES qv, aborted

vars == <<qv, aborted>>

MinOf(a, b) == IF a < b THEN a ELSE b

(* The guest addresses the vector's segments cover, in order. *)
Flat(iov) == FlattenSeq([i \in DOMAIN iov |->
                           [k \in 1..iov[i].len |-> iov[i].base + k - 1]])

(* Bytes skip+1 .. skip+n of a flattened vector, as far as it goes. *)
Slice(f, skip, n) == SubSeq(f, skip + 1, MinOf(skip + n, Len(f)))

RECURSIVE SumLens(_)
SumLens(iov) == IF iov = <<>> THEN 0 ELSE Head(iov).len + SumLens(Tail(iov))

---------------------------------------------------------------------------
(* I/O vectors *)

(* qemu_iovec_add, past its assert: grow the array to 2 * nalloc + 1 when *)
(* it is full, store the segment, add its length to size.                 *)
AddSeg(v, seg) ==
  [iov    |-> Append(v.iov, seg),
   nalloc |-> IF Len(v.iov) = v.nalloc THEN 2 * v.nalloc + 1 ELSE v.nalloc,
   size   |-> v.size + seg.len]

(* qemu_iovec_init_external: wrap the caller's array, summing its lengths. *)
RECURSIVE ExtSize(_, _)
ExtSize(arr, i) == IF i > Len(arr) THEN 0 ELSE arr[i].len + ExtSize(arr, i + 1)
External(arr) == [iov |-> arr, nalloc |-> -1, size |-> ExtSize(arr, 1)]

(* Mutant: a partly skipped segment leaves skip set for the next one. *)
RECURSIVE CopyLoopKeepSkip(_, _, _, _, _, _)
CopyLoopKeepSkip(dst, src, i, skip, done, size) ==
  IF i > Len(src.iov) \/ done = size THEN dst
  ELSE LET len == src.iov[i].len IN
    IF skip >= len THEN CopyLoopKeepSkip(dst, src, i + 1, skip - len, done, size)
    ELSE LET seg == [base |-> src.iov[i].base + skip, len |-> len - skip]
         IN IF done + seg.len > size
              THEN AddSeg(dst, [seg EXCEPT !.len = size - done])
              ELSE CopyLoopKeepSkip(AddSeg(dst, seg), src, i + 1, skip, done + seg.len, size)

(* The loop of qemu_iovec_copy: whole segments inside skip are passed     *)
(* over, the first one reached is added from the skip offset, and the     *)
(* segment that would pass size is added cut to fit.                      *)
RECURSIVE CopyLoop(_, _, _, _, _, _)
CopyLoop(dst, src, i, skip, done, size) ==
  IF i > Len(src.iov) \/ done = size THEN dst
  ELSE LET len == src.iov[i].len IN
    IF skip >= len THEN CopyLoop(dst, src, i + 1, skip - len, done, size)
    ELSE LET seg == [base |-> src.iov[i].base + skip, len |-> len - skip]
         IN IF done + seg.len > size
              THEN AddSeg(dst, [seg EXCEPT !.len = size - done])
              ELSE CopyLoop(AddSeg(dst, seg), src, i + 1, 0, done + seg.len, size)

(* qemu_iovec_copy; qemu_iovec_concat is a copy with skip 0. *)
Copy(dst, src, skip, size) == CopyLoop(dst, src, 1, skip, 0, size)

(* The loop of qemu_iovec_concat_iov over a caller's array; it returns    *)
(* the vector and the soffset left, which the final assert tests.         *)
RECURSIVE ConcatIovLoop(_, _, _, _, _, _)
ConcatIovLoop(dst, src, i, soffset, done, sbytes) ==
  IF ~(done < sbytes /\ i <= Len(src)) THEN [v |-> dst, soffset |-> soffset]
  ELSE IF soffset < src[i].len
    THEN LET len == MinOf(src[i].len - soffset, sbytes - done)
         IN ConcatIovLoop(AddSeg(dst, [base |-> src[i].base + soffset, len |-> len]),
                          src, i + 1, 0, done + len, sbytes)
    ELSE ConcatIovLoop(dst, src, i + 1, soffset - src[i].len, done, sbytes)

ConcatIov(dst, src, soffset, sbytes) == ConcatIovLoop(dst, src, 1, soffset, 0, sbytes)

---------------------------------------------------------------------------
(* Moving data: memory is a function of Addrs, the buffer of 0..BufSize-1. *)

(* memcpy of n bytes from s at so to d at o; bytes outside d are dropped. *)
Memcpy(d, o, s, so, n) == [x \in DOMAIN d |-> IF o <= x /\ x < o + n THEN s[so + x - o] ELSE d[x]]
Fill(d, o, c, n) == [x \in DOMAIN d |-> IF o <= x /\ x < o + n THEN c ELSE d[x]]

(* qemu_iovec_to_buffer: each segment in turn, at the running offset p. *)
RECURSIVE ToBufferLoop(_, _, _, _, _)
ToBufferLoop(v, mem, buf, i, p) ==
  IF i > Len(v.iov) THEN buf
  ELSE ToBufferLoop(v, mem, Memcpy(buf, p, mem, v.iov[i].base, v.iov[i].len), i + 1, p + v.iov[i].len)
ToBuffer(v, mem, buf) == ToBufferLoop(v, mem, buf, 1, 0)

(* Mutant: the count left is not reduced by what a segment took. *)
RECURSIVE FromBufferLoopKeepCount(_, _, _, _, _, _)
FromBufferLoopKeepCount(v, mem, buf, i, p, count) ==
  IF ~(i <= Len(v.iov) /\ count /= 0) THEN mem
  ELSE LET copy == MinOf(count, v.iov[i].len)
       IN FromBufferLoopKeepCount(v, Memcpy(mem, v.iov[i].base, buf, p, copy), buf, i + 1, p + copy, count)

(* qemu_iovec_from_buffer: up to count bytes, segment by segment. *)
RECURSIVE FromBufferLoop(_, _, _, _, _, _)
FromBufferLoop(v, mem, buf, i, p, count) ==
  IF ~(i <= Len(v.iov) /\ count /= 0) THEN mem
  ELSE LET copy == MinOf(count, v.iov[i].len)
       IN FromBufferLoop(v, Memcpy(mem, v.iov[i].base, buf, p, copy), buf, i + 1, p + copy, count - copy)
FromBuffer(v, mem, buf, count) == FromBufferLoop(v, mem, buf, 1, 0, count)

(* qemu_iovec_memset *)
RECURSIVE MemsetLoop(_, _, _, _, _)
MemsetLoop(v, mem, c, i, count) ==
  IF ~(i <= Len(v.iov) /\ count /= 0) THEN mem
  ELSE LET n == MinOf(count, v.iov[i].len)
       IN MemsetLoop(v, Fill(mem, v.iov[i].base, c, n), c, i + 1, count - n)
Memset(v, mem, c, count) == MemsetLoop(v, mem, c, 1, count)

(* qemu_iovec_memset_skip: the loop of qemu_iovec_copy, filling instead. *)
RECURSIVE MemsetSkipLoop(_, _, _, _, _, _, _)
MemsetSkipLoop(v, mem, c, i, skip, done, count) ==
  IF i > Len(v.iov) \/ done = count THEN mem
  ELSE LET len == v.iov[i].len IN
    IF skip >= len THEN MemsetSkipLoop(v, mem, c, i + 1, skip - len, done, count)
    ELSE LET base == v.iov[i].base + skip
             n == len - skip
         IN IF done + n > count
              THEN Fill(mem, base, c, count - done)
              ELSE MemsetSkipLoop(v, Fill(mem, base, c, n), c, i + 1, 0, done + n, count)
MemsetSkip(v, mem, c, count, skip) == MemsetSkipLoop(v, mem, c, 1, skip, 0, count)

---------------------------------------------------------------------------
(* Strings *)

(* The bytes of a string up to its NUL, reading past the sequence as NUL. *)
At(str, i) == IF i <= Len(str) THEN str[i] ELSE 0

RECURSIVE StrLenFrom(_, _)
StrLenFrom(buf, i) == IF i > Len(buf) \/ buf[i] = 0 THEN i - 1 ELSE StrLenFrom(buf, i + 1)
StrLen(buf) == StrLenFrom(buf, 1)

(* Mutant: the loop stops only when no byte is left for the NUL. *)
RECURSIVE PstrcpyLoopOverrun(_, _, _, _, _)
PstrcpyLoopOverrun(buf, off, bufsize, str, q) ==
  IF At(str, q + 1) = 0 \/ q >= bufsize
    THEN [buf EXCEPT ![off + q + 1] = 0]
    ELSE PstrcpyLoopOverrun([buf EXCEPT ![off + q + 1] = str[q + 1]], off, bufsize, str, q + 1)

(* The loop of pstrcpy writing into buf from byte off on, buf_size bytes: *)
(* stop at the source's NUL or when one byte is left, then terminate.     *)
RECURSIVE PstrcpyLoop(_, _, _, _, _)
PstrcpyLoop(buf, off, bufsize, str, q) ==
  IF At(str, q + 1) = 0 \/ q >= bufsize - 1
    THEN [buf EXCEPT ![off + q + 1] = 0]
    ELSE PstrcpyLoop([buf EXCEPT ![off + q + 1] = str[q + 1]], off, bufsize, str, q + 1)

(* pstrcpy *)
Pstrcpy(buf, bufsize, str) == IF bufsize <= 0 THEN buf ELSE PstrcpyLoop(buf, 0, bufsize, str, 0)

(* pstrcat: pstrcpy into the rest of the buffer, if the string ends in it. *)
Pstrcat(buf, bufsize, s) ==
  LET len == StrLen(buf)
  IN IF len < bufsize THEN PstrcpyLoop(buf, len, bufsize - len, s, 0) ELSE buf

(* qemu_toupper *)
ToUpper(c) == IF 97 <= c /\ c <= 122 THEN c - 32 ELSE c

(* strstart and stristart (fold TRUE, comparing through qemu_toupper):    *)
(* whether val is a prefix of str and, if so, the rest of str, for ptr.   *)
RECURSIVE StartLoop(_, _, _, _)
StartLoop(str, val, i, fold) ==
  LET Conv(c) == IF fold THEN ToUpper(c) ELSE c IN
  IF At(val, i) = 0 THEN [ok |-> TRUE, rest |-> SubSeq(str, i, Len(str))]
  ELSE IF Conv(At(str, i)) /= Conv(At(val, i)) THEN [ok |-> FALSE, rest |-> <<>>]
  ELSE StartLoop(str, val, i + 1, fold)

Strstart(str, val) == StartLoop(str, val, 1, FALSE)
Stristart(str, val) == StartLoop(str, val, 1, TRUE)

(* qemu_strnlen *)
RECURSIVE StrnlenLoop(_, _, _)
StrnlenLoop(s, maxlen, i) == IF i < maxlen /\ At(s, i + 1) /= 0 THEN StrnlenLoop(s, maxlen, i + 1) ELSE i
Strnlen(s, maxlen) == StrnlenLoop(s, maxlen, 0)

(* 86400 * days as the host's 32-bit int multiply gives it, wrapped in   *)
(* two's complement (86400 = 675 * 2^7), without leaving TLC's integers. *)
Int32Times86400(days) ==
  LET r == (days * 675) % 2^25 IN IF r < 2^24 THEN r * 128 ELSE (r - 2^25) * 128

(* mktimegm: March-based day count; days * 86400 is an int product, only *)
(* then widened to time_t and added to the seconds of the day. The time_t *)
(* is kept as its two addends, since their sum exceeds TLC's integers.    *)
Mktimegm(tm) ==
  LET y0 == tm.year + 1900
      m0 == tm.mon + 1
      y == IF m0 < 3 THEN y0 - 1 ELSE y0
      m == IF m0 < 3 THEN m0 + 12 ELSE m0
      days == tm.mday + (153 * m - 457) \div 5 + 365 * y + y \div 4
              - y \div 100 + y \div 400 - 719469
  IN [dayspart |-> Int32Times86400(days), sod |-> 3600 * tm.hour + 60 * tm.min + tm.sec]

---------------------------------------------------------------------------
(* The caller's calls. Each checks the code's assert first. *)

Abort == aborted' = TRUE /\ UNCHANGED qv

Fresh == IF qv = NoVec THEN TRUE ELSE qv.nalloc = 0 /\ qv.iov = <<>>

(* qemu_iovec_init, on a new vector or one qemu_iovec_destroy freed. *)
IovecInit(hint) ==
  /\ Fresh
  /\ qv' = [iov |-> <<>>, nalloc |-> hint, size |-> 0]
  /\ UNCHANGED aborted

IovecInitExternal(arr) ==
  /\ Fresh
  /\ qv' = External(arr)
  /\ UNCHANGED aborted

Owned == qv.nalloc /= -1

IovecAdd(seg) ==
  /\ qv /= NoVec /\ Len(qv.iov) < MaxNiov
  /\ IF Owned THEN qv' = AddSeg(qv, seg) /\ UNCHANGED aborted ELSE Abort

(* qemu_iovec_copy, and qemu_iovec_concat for skip 0. *)
IovecCopy(src, skip, size) ==
  /\ qv /= NoVec
  /\ IF Owned
       THEN LET r == Copy(qv, src, skip, size)
            IN Len(r.iov) <= MaxNiov /\ qv' = r /\ UNCHANGED aborted
       ELSE Abort

IovecConcatIov(src, soffset, sbytes) ==
  /\ qv /= NoVec
  /\ IF Owned
       THEN LET r == ConcatIov(qv, src.iov, soffset, sbytes)
            IN /\ Len(r.v.iov) <= MaxNiov
               /\ IF r.soffset = 0 THEN qv' = r.v /\ UNCHANGED aborted ELSE Abort
       ELSE Abort

IovecReset ==
  /\ qv /= NoVec
  /\ IF Owned THEN qv' = [qv EXCEPT !.iov = <<>>, !.size = 0] /\ UNCHANGED aborted ELSE Abort

(* qemu_iovec_destroy: reset, free the array, nalloc 0. *)
IovecDestroy ==
  /\ qv /= NoVec
  /\ IF Owned THEN qv' = [iov |-> <<>>, nalloc |-> 0, size |-> 0] /\ UNCHANGED aborted ELSE Abort

Init == qv = NoVec /\ aborted = FALSE

Next ==
  /\ ~aborted
  /\ \/ \E h \in Hints : IovecInit(h)
     \/ \E a \in ExtArrays : IovecInitExternal(a)
     \/ \E seg \in Segs : IovecAdd(seg)
     \/ \E src \in SrcVecs, skip \in Skips, n \in Counts : IovecCopy(src, skip, n)
     \/ \E src \in SrcVecs, n \in Counts : IovecCopy(src, 0, n)
     \/ \E src \in SrcVecs, off \in Skips, n \in Counts : IovecConcatIov(src, off, n)
     \/ IovecReset
     \/ IovecDestroy

Spec == Init /\ [][Next]_vars

---------------------------------------------------------------------------
(* Reference definitions, byte by byte on the flattened vector. *)

Mem0 == [a \in Addrs |-> <<"mem", a>>]
Buf0 == [x \in 0..(BufSize - 1) |-> <<"buf", x>>]
FillByte == "c"

RefToBuffer(v, mem, buf) ==
  LET f == Flat(v.iov) IN [x \in DOMAIN buf |-> IF x < Len(f) THEN mem[f[x + 1]] ELSE buf[x]]

(* Byte k of the buffer goes to the k-th address, in order, so a later     *)
(* byte wins where segments overlap.                                      *)
RefFromBuffer(v, mem, buf, count) ==
  LET f == Flat(v.iov)
      ks(a) == {k \in 1..MinOf(count, Len(f)) : f[k] = a}
  IN [a \in DOMAIN mem |-> IF ks(a) = {} THEN mem[a] ELSE buf[Max(ks(a)) - 1]]

RefFill(v, mem, c, skip, count) ==
  LET f == Flat(v.iov)
  IN [a \in DOMAIN mem |-> IF a \in ToSet(Slice(f, skip, count)) THEN c ELSE mem[a]]

(* What a C string stored in a buffer of n bytes from off becomes: at     *)
(* most n-1 characters, then a NUL, the rest of the buffer untouched.     *)
Stored(buf, off, n, str) ==
  LET m == MinOf(Len(str), n - 1)
  IN [x \in DOMAIN buf |-> IF off < x /\ x <= off + m THEN str[x - off]
                           ELSE IF x = off + m + 1 THEN 0 ELSE buf[x]]

Strs == BoundedSeq(Chars, MaxStr)
Junk == 255
Buffer(str, n) == [x \in 1..n |-> IF x <= Len(str) THEN str[x] ELSE IF x = Len(str) + 1 THEN 0 ELSE Junk]

---------------------------------------------------------------------------
(* Properties *)

(* Whatever sequence of init, add, copy, concat, concat_iov, reset and    *)
(* destroy built the vector, its cached size is the sum of its segments'  *)
(* lengths and niov fits nalloc; and a copy or concat from any source,    *)
(* with any skip and size, and a concat_iov that passes its assert,      *)
(* append exactly the source's bytes skip+1 .. skip+size (as far as the   *)
(* source goes) and keep those two facts, also where segments are empty, *)
(* overlap, or the skip ends exactly at a segment boundary.              *)
CopyAppendsSlice ==
  (qv /= NoVec /\ ~aborted) =>
    /\ qv.size = SumLens(qv.iov)
    /\ Owned => Len(qv.iov) <= qv.nalloc
    /\ Owned =>
         \A src \in SrcVecs, skip \in Skips, n \in Counts :
           LET r == Copy(qv, src, skip, n)
               c == ConcatIov(qv, src.iov, skip, n)
               want == Flat(qv.iov) \o Slice(Flat(src.iov), skip, n)
           IN /\ Flat(r.iov) = want /\ r.size = SumLens(r.iov) /\ Len(r.iov) <= r.nalloc
              /\ c.soffset = 0 => Flat(c.v.iov) = want /\ c.v.size = SumLens(c.v.iov)

(* to_buffer, from_buffer, memset and memset_skip, run segment by segment *)
(* over every reachable vector, move exactly the bytes the byte-by-byte   *)
(* reference moves, for every count and skip: the running buffer offset,  *)
(* the count left and the skip left are carried right across segments.   *)
ByteOpsMatchFlat ==
  (qv /= NoVec /\ qv.size <= BufSize) =>
    /\ ToBuffer(qv, Mem0, Buf0) = RefToBuffer(qv, Mem0, Buf0)
    /\ \A n \in Counts :
         /\ FromBuffer(qv, Mem0, Buf0, n) = RefFromBuffer(qv, Mem0, Buf0, n)
         /\ Memset(qv, Mem0, FillByte, n) = RefFill(qv, Mem0, FillByte, 0, n)
         /\ \A skip \in Skips :
              MemsetSkip(qv, Mem0, FillByte, n, skip) = RefFill(qv, Mem0, FillByte, skip, n)

(* While no assert has aborted QEMU: pstrcpy stores the longest prefix  *)
(* that fits with its NUL and never writes past buf_size; pstrcat       *)
(* truncates the concatenation the same way; strstart and stristart     *)
(* report a (case-blind) prefix and the rest; qemu_strnlen counts up to *)
(* max_len.                                                             *)
StringsMatchReference ==
  ~aborted => \A str \in Strs :
    /\ \A n \in 0..(MaxStr + 1) :
         /\ Pstrcpy(Buffer(<<>>, n), n, str) = IF n = 0 THEN <<>> ELSE Stored(Buffer(<<>>, n), 0, n, str)
         /\ Strnlen(str, n) = MinOf(Len(str), n)
    /\ \A pre \in Strs, n \in 1..(MaxStr + 1) :
         Len(pre) < n => Pstrcat(Buffer(pre, n), n, str) = Stored(Buffer(pre, n), 0, n, pre \o str)
    /\ \A val \in Strs :
         /\ Strstart(str, val) = [ok |-> IsPrefix(val, str),
                                  rest |-> IF IsPrefix(val, str) THEN SubSeq(str, Len(val) + 1, Len(str)) ELSE <<>>]
         /\ Stristart(str, val).ok =
              IsPrefix([i \in DOMAIN val |-> ToUpper(val[i])], [i \in DOMAIN str |-> ToUpper(str[i])])

(* The days from 1970-01-01 to a date after it, counted year by year and *)
(* month by month.                                                        *)
IsLeap(y) == (y % 4 = 0 /\ y % 100 /= 0) \/ y % 400 = 0
MonthDays(y, m) == IF m = 1 THEN (IF IsLeap(y) THEN 29 ELSE 28)
                   ELSE IF m \in {3, 5, 8, 10} THEN 30 ELSE 31
RECURSIVE YearDays(_, _)
YearDays(from, to) == IF from >= to THEN 0 ELSE (IF IsLeap(from) THEN 366 ELSE 365) + YearDays(from + 1, to)
RECURSIVE MonthsDays(_, _)
MonthsDays(y, m) == IF m = 0 THEN 0 ELSE MonthDays(y, m - 1) + MonthsDays(y, m - 1)
CalendarDays(tm) ==
  YearDays(1970, tm.year + 1900) + MonthsDays(tm.year + 1900, tm.mon) + tm.mday - 1

(* mktimegm (what -rtc base=DATE and the RTC's change events go through)  *)
(* returns 86400 times the days since the epoch of every date it is      *)
(* given, plus the seconds of the day, in its 64-bit time_t.              *)
MktimegmMatchesCalendar ==
  \A tm \in Dates :
    LET t == Mktimegm(tm) IN
      /\ t.dayspart >= 0 /\ t.dayspart % 86400 = 0
      /\ t.dayspart \div 86400 = CalendarDays(tm)
      /\ t.sod = 3600 * tm.hour + 60 * tm.min + tm.sec

(* qemu_iovec_concat_iov's final assert, commented "offset beyond end of *)
(* src", fires only when soffset is beyond the end of the source array.  *)
ConcatIovAssertOnlyPastEnd ==
  (qv /= NoVec /\ ~aborted /\ Owned) =>
    \A src \in SrcVecs, off \in Skips, n \in Counts :
      ConcatIov(qv, src.iov, off, n).soffset /= 0 => off > SumLens(src.iov)
====
