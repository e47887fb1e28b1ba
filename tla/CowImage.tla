------------------------------ MODULE CowImage ------------------------------
(***************************************************************************)
(* The write path of the COW driver (block/cow.c) over a host file that   *)
(* has a volatile cache and durable contents, with coroutines, I/O errors *)
(* and host crashes.                                                       *)
(*                                                                         *)
(* cow_co_write takes the driver's CoMutex and runs cow_write: one        *)
(* bdrv_pwrite of the data, then cow_update_bitmap, which for each sector *)
(* runs cow_set_bit: read the bitmap byte (a coroutine yield point), and   *)
(* when the bit is clear flush the file before the request's first new    *)
(* bit, then write the byte back with the bit set. Any I/O error ends the  *)
(* request with that error. cow_co_flush flushes the file without taking  *)
(* the lock. The host writes cached bitmap bytes and data sectors back in  *)
(* any order, and a crash keeps only what was written back.               *)
(*                                                                         *)
(* Data is abstracted to "written by the guest" (a value of Vals) or Hole, *)
(* what the COW file holds where nothing was written. The bitmap is kept  *)
(* as the set of sectors whose bit is set.                                 *)
(***************************************************************************)
EXTENDS Integers, FiniteSets

CONSTANTS
  N,           \* bs->total_sectors
  HdrBytes,    \* sizeof(struct cow_header_v2), scaled
  Reqs,        \* coroutines issuing writes
  Vals,        \* data a guest writes
  MaxLen,      \* the longest request
  Hole,        \* contents of a COW data sector never written
  None,        \* no coroutine
  MaxFaults,   \* bound on injected I/O errors
  MaxCrashes   \* bound on host crashes

Sectors == 0..(N - 1)

(* The file byte holding a sector's bit (cow_set_bit: offset), and the    *)
(* sectors whose bits share a byte.                                       *)
ByteOf(k) == HdrBytes + k \div 8
ByteSectors(b) == {k \in Sectors : ByteOf(k) = b}

VARIABLES
  cbits,     \* bitmap in the host's cache (what bdrv_pread sees)
  dbits,     \* bitmap on disk
  cdata,     \* [Sectors -> Vals \cup {Hole}]: data area in the cache
  ddata,     \* data area on disk
  lock,      \* BDRVCowState.lock: the holder, or None
  req,       \* per coroutine: where it is in cow_write and its locals
  faults,    \* I/O errors injected so far
  crashes,   \* crashes so far
  allocated  \* sectors of writes that completed without error

vars == <<cbits, dbits, cdata, ddata, lock, req, faults, crashes, allocated>>

Idle == [pc |-> "idle", s |-> 0, n |-> 0, v |-> Hole, i |-> 0, first |-> TRUE, snap |-> {}]
Span(r) == req[r].s..(req[r].s + req[r].n - 1)
Cur(r) == req[r].s + req[r].i

Init ==
  /\ cbits = {} /\ dbits = {}
  /\ cdata = [k \in Sectors |-> Hole] /\ ddata = cdata
  /\ lock = None
  /\ req = [r \in Reqs |-> Idle]
  /\ faults = 0 /\ crashes = 0
  /\ allocated = {}

(* An I/O error: cow_write returns it and cow_co_write unlocks. *)
Fail(r) ==
  /\ faults < MaxFaults
  /\ faults' = faults + 1
  /\ lock' = None
  /\ req' = [req EXCEPT ![r] = Idle]
  /\ UNCHANGED <<crashes, allocated>>

(* Mutant: the coroutine does not wait for the CoMutex. *)
CoWriteNoLock(r, s, n, v) ==
  /\ req[r].pc = "idle"
  /\ lock' = r
  /\ req' = [req EXCEPT ![r] = [Idle EXCEPT !.pc = "data", !.s = s, !.n = n, !.v = v]]
  /\ UNCHANGED <<cbits, dbits, cdata, ddata, faults, crashes, allocated>>

(* cow_co_write: qemu_co_mutex_lock; a coroutine that finds it held waits, *)
(* which is the same as starting later.                                   *)
CoWrite(r, s, n, v) ==
  /\ req[r].pc = "idle"
  /\ lock = None
  /\ lock' = r
  /\ req' = [req EXCEPT ![r] = [Idle EXCEPT !.pc = "data", !.s = s, !.n = n, !.v = v]]
  /\ UNCHANGED <<cbits, dbits, cdata, ddata, faults, crashes, allocated>>

(* cow_write: bdrv_pwrite of the data; a failed write may have written any *)
(* part of it.                                                             *)
WriteData(r) ==
  /\ req[r].pc = "data"
  /\ \/ /\ cdata' = [k \in Sectors |-> IF k \in Span(r) THEN req[r].v ELSE cdata[k]]
        /\ req' = [req EXCEPT ![r].pc = "bit"]
        /\ UNCHANGED <<lock, faults, crashes, allocated>>
     \/ /\ \E part \in SUBSET Span(r) :
             cdata' = [k \in Sectors |-> IF k \in part THEN req[r].v ELSE cdata[k]]
        /\ Fail(r)
  /\ UNCHANGED <<cbits, dbits, ddata>>

(* Mutant: cow_update_bitmap loops while i <= nb_sectors. *)
NextBitOneMore(r, first) ==
  IF req[r].i + 1 > req[r].n
    THEN /\ lock' = None
         /\ req' = [req EXCEPT ![r] = Idle]
         /\ allocated' = allocated \cup Span(r)
    ELSE /\ req' = [req EXCEPT ![r].pc = "bit", ![r].i = @ + 1, ![r].first = first]
         /\ UNCHANGED <<lock, allocated>>

(* cow_set_bit returned 0, with *first as it left it: cow_update_bitmap   *)
(* goes on with the next sector, or cow_write returns and cow_co_write    *)
(* unlocks.                                                                *)
NextBit(r, first) ==
  IF req[r].i + 1 = req[r].n
    THEN /\ lock' = None
         /\ req' = [req EXCEPT ![r] = Idle]
         /\ allocated' = allocated \cup Span(r)
    ELSE /\ req' = [req EXCEPT ![r].pc = "bit", ![r].i = @ + 1, ![r].first = first]
         /\ UNCHANGED <<lock, allocated>>

(* cow_set_bit, first half: bdrv_pread of the bitmap byte; a bit already  *)
(* set ends cow_set_bit.                                                   *)
SetBitRead(r) ==
  /\ req[r].pc = "bit"
  /\ \/ Fail(r)
     \/ /\ Cur(r) \in cbits
        /\ NextBit(r, req[r].first)
        /\ UNCHANGED <<faults, crashes>>
     \/ /\ Cur(r) \notin cbits
        /\ req' = [req EXCEPT ![r].pc = "setbit",
                              ![r].snap = cbits \cap ByteSectors(ByteOf(Cur(r)))]
        /\ UNCHANGED <<lock, faults, crashes, allocated>>
  /\ UNCHANGED <<cbits, dbits, cdata, ddata>>

(* The byte cow_set_bit writes back: the one it read, with its bit set. *)
Updated(r) == (cbits \ ByteSectors(ByteOf(Cur(r)))) \cup req[r].snap \cup {Cur(r)}

(* Mutant: the byte is written without the flush before the first bit. *)
SetBitWriteNoFlush(r) ==
  /\ req[r].pc = "setbit"
  /\ \/ /\ Fail(r)
        /\ UNCHANGED <<cbits, dbits, ddata>>
     \/ /\ cbits' = Updated(r)
        /\ UNCHANGED <<dbits, ddata>>
        /\ NextBit(r, FALSE)
        /\ UNCHANGED <<faults, crashes>>
  /\ UNCHANGED cdata

(* cow_set_bit, second half: before the request's first new bit,          *)
(* bdrv_flush of the file (which may fail); then bdrv_pwrite of the byte  *)
(* (which may fail after the flush has happened).                         *)
SetBitWrite(r) ==
  /\ req[r].pc = "setbit"
  /\ \/ /\ req[r].first
        /\ Fail(r)
        /\ UNCHANGED <<cbits, dbits, ddata>>
     \/ /\ dbits' = IF req[r].first THEN cbits ELSE dbits
        /\ ddata' = IF req[r].first THEN cdata ELSE ddata
        /\ \/ /\ Fail(r)
              /\ UNCHANGED cbits
           \/ /\ cbits' = Updated(r)
              /\ NextBit(r, FALSE)
              /\ UNCHANGED <<faults, crashes>>
  /\ UNCHANGED cdata

(* cow_co_flush: bdrv_co_flush of the file, with no lock taken. A failed  *)
(* flush changes nothing the model tells apart.                           *)
CoFlush ==
  /\ dbits' = cbits /\ ddata' = cdata
  /\ UNCHANGED <<cbits, cdata, lock, req, faults, crashes, allocated>>

(* The host writes a cached bitmap byte, or a cached data sector, back. *)
WritebackByte(b) ==
  /\ dbits' = (dbits \ ByteSectors(b)) \cup (cbits \cap ByteSectors(b))
  /\ UNCHANGED <<cbits, cdata, ddata, lock, req, faults, crashes, allocated>>
WritebackSector(k) ==
  /\ ddata' = [ddata EXCEPT ![k] = cdata[k]]
  /\ UNCHANGED <<cbits, dbits, cdata, lock, req, faults, crashes, allocated>>

(* A host crash: the cache is lost, every request with it; a completed    *)
(* write is kept only as far as its bits reached the disk.                *)
Crash ==
  /\ crashes < MaxCrashes
  /\ crashes' = crashes + 1
  /\ cbits' = dbits /\ cdata' = ddata
  /\ lock' = None
  /\ req' = [r \in Reqs |-> Idle]
  /\ allocated' = allocated \cap dbits
  /\ UNCHANGED <<dbits, ddata, faults>>

Next ==
  \/ \E r \in Reqs, s \in Sectors, n \in 1..MaxLen, v \in Vals :
       s + n <= N /\ CoWrite(r, s, n, v)
  \/ \E r \in Reqs : WriteData(r) \/ SetBitRead(r) \/ SetBitWrite(r)
  \/ CoFlush
  \/ \E b \in {ByteOf(k) : k \in Sectors} : WritebackByte(b)
  \/ \E k \in Sectors : WritebackSector(k)
  \/ Crash

Spec == Init /\ [][Next]_vars

-----------------------------------------------------------------------------
TypeOK ==
  /\ cbits \subseteq Sectors /\ dbits \subseteq Sectors
  /\ cdata \in [Sectors -> Vals \cup {Hole}] /\ ddata \in [Sectors -> Vals \cup {Hole}]
  /\ lock \in Reqs \cup {None}
  /\ faults \in 0..MaxFaults /\ crashes \in 0..MaxCrashes
  /\ allocated \subseteq Sectors

(* Crash consistency of cow_write: a bit that reached the disk never      *)
(* points at a data sector that did not, whatever order the host wrote     *)
(* back its cache in and wherever a crash fell. This is what the flush in  *)
(* cow_set_bit before a request's first new bit is for.                    *)
BitImpliesData == \A k \in dbits : ddata[k] /= Hole

(* No completed write loses a bit: every sector of a write that returned  *)
(* success (and, after a crash, whose bit reached the disk) is allocated   *)
(* in the bitmap. Two coroutines read-modify-write the same bitmap byte;   *)
(* the CoMutex held across cow_write keeps them apart.                     *)
NoLostBit == allocated \subseteq cbits
=============================================================================
