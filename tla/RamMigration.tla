---------------------------- MODULE RamMigration ----------------------------
(***************************************************************************)
(* Live migration of guest RAM in vl.c, KVM build: the "ram" live section  *)
(* (ram_save_live, ram_save_block) on the source and ram_load on the       *)
(* destination, joined by the migration stream.                           *)
(*                                                                         *)
(* The vCPUs run guest code outside the global mutex, so guest writes      *)
(* interleave with every step of the I/O thread. KVM logs them in the      *)
(* kernel's dirty log (klog) while dirty tracking is on; QEMU's migration  *)
(* dirty bits (dirty) take them in only when the log is synchronised:     *)
(* cpu_physical_sync_dirty_bitmap at the start of each stage and          *)
(* kvm_update_dirty_pages_log when ram_save_block's scan passes RAM       *)
(* address 0. Writes by device models go through cpu_physical_memory_rw    *)
(* and set QEMU's dirty bits directly.                                    *)
(*                                                                         *)
(* ram_save_live's loop calls ram_save_block until the rate limit or 50 ms *)
(* stop it; each call is one step, the rest of the handler another. The   *)
(* stages are called by the savevm/migration driver, which is not in this *)
(* repository: stage 1 to begin, stage 2 until it returns 1, then vm_stop *)
(* and stage 3; stage -1 when the migration is cancelled or fails.        *)
(*                                                                         *)
(* A page's content is a fill byte (a page is_dup_page sends as one byte) *)
(* or the model value Mixed; a page is <<block, index>>.                  *)
(***************************************************************************)
EXTENDS Integers, Sequences

CONSTANTS
  NB,          \* the RAM blocks of ram_list, in list order 1..NB
  PB,          \* pages per block (block->length / TARGET_PAGE_SIZE)
  ZeroBlock,   \* the block whose ram offset is 0 (pc.ram)
  Fills,       \* page contents that are one byte repeated
  Mixed,       \* any other page content
  RateCap,     \* records the stream holds before qemu_file_rate_limit says stop
  MaxWrites    \* bound on guest and device writes

ASSUME ZeroBlock \in 1..NB /\ 0 \in Fills /\ Mixed \notin Fills

Pages == (1..NB) \X (0..(PB - 1))
NP == NB * PB
Vals == Fills \cup {Mixed}
ZeroPage == <<ZeroBlock, 0>>

(* The page at position k of ram_list order, and the position of a page. *)
PageAt(k) == <<k \div PB + 1, k % PB>>
Pos(p) == (p[1] - 1) * PB + p[2]

NoSend == [p |-> <<0, 0>>, t |-> "none", cont |-> FALSE]

Record == [t : {"size", "comp", "page", "eos"}, b : 0..NB, o : 0..(PB - 1),
           cont : BOOLEAN, v : Vals]
Rec(t, p, cont, v) == [t |-> t, b |-> p[1], o |-> p[2], cont |-> cont, v |-> v]
Marker(t) == [t |-> t, b |-> 0, o |-> 0, cont |-> FALSE, v |-> 0]

VARIABLES
  smem,        \* the source's guest RAM
  dirty,       \* the pages whose MIGRATION_DIRTY_FLAG is set
  klog,        \* the pages KVM's dirty log holds
  tracking,    \* cpu_physical_memory_set_dirty_tracking
  lastB,       \* last_block, 0 for NULL
  lastO,       \* last_offset, in pages
  sv,          \* the I/O thread: "idle", in the rate-limited "loop", or the
               \* stage 3 "flush"
  stage,       \* the stage ram_save_live was called with
  mig,         \* the driver: "none", "active", "converged", "done", or
               \* "failed" when stage 3 ended on a file error
  ferr,        \* qemu_file_set_error was called on the migration file
  running,     \* the vCPUs run guest code
  chan,        \* the records sent and not yet read by the destination
  dmem,        \* the destination's guest RAM
  dblock,      \* host_from_stream_offset's static block, 0 for NULL
  dcrash,      \* ram_load wrote through a NULL host pointer
  nullcur,     \* ram_save_block read last_block->offset with last_block NULL
  writes,      \* writes so far
  pend         \* the page ram_save_block cleared and is putting on the
               \* stream, NoSend between calls

vars == <<smem, dirty, klog, tracking, lastB, lastO, sv, stage, mig, ferr, running,
          chan, dmem, dblock, dcrash, nullcur, writes, pend>>
srcVars == <<smem, dirty, klog, tracking, lastB, lastO, sv, stage, mig, ferr,
             running, nullcur, pend>>
dstVars == <<dmem, dblock, dcrash>>

Init ==
  /\ smem = [p \in Pages |-> 0] /\ dirty = Pages /\ klog = {}
  /\ tracking = FALSE /\ lastB = 0 /\ lastO = 0
  /\ sv = "idle" /\ stage = 0 /\ mig = "none" /\ ferr = FALSE /\ running = TRUE
  /\ chan = <<>> /\ dmem = [p \in Pages |-> 0] /\ dblock = 0 /\ dcrash = FALSE
  /\ nullcur = FALSE /\ writes = 0 /\ pend = NoSend

-----------------------------------------------------------------------------
(* is_dup_page(p, *p): every word of the page equals its first byte.      *)
IsDupPage(v) == v \in Fills

(* ram_bytes_remaining, in pages: ram_list.dirty_pages counts QEMU's bits. *)
RamBytesRemaining == dirty

(* The scan of ram_save_block's do-while loop from position start: at RAM *)
(* address 0 KVM's log is first merged into the dirty bits; the scan stops *)
(* at the first dirty page, or after every page was visited once. nullcur *)
(* is set when it moves on from the first page with last_block NULL, where *)
(* the loop condition reads last_block->offset.                           *)
RECURSIVE ScanFrom(_, _, _, _, _)
ScanFrom(start, k, d, kl, nc) ==
  IF k = NP THEN [found |-> FALSE, d |-> d, kl |-> kl, nullcur |-> nc]
  ELSE LET p  == PageAt((start + k) % NP)
           d1 == IF p = ZeroPage THEN d \cup kl ELSE d
           k1 == IF p = ZeroPage THEN {} ELSE kl
       IN IF p \in d1
            THEN [found |-> TRUE, p |-> p, d |-> d1, kl |-> k1, nullcur |-> nc]
            ELSE ScanFrom(start, k + 1, d1, k1, nc \/ lastB = 0)

(* How far the scan from position start is from RAM address 0, and        *)
(* whether it gets there: no page before it is dirty.                      *)
ZeroDist(start) == (Pos(ZeroPage) - start + NP) % NP
ScanReachesZero(start) == \A k \in 0..(ZeroDist(start) - 1) : PageAt((start + k) % NP) \notin dirty

(* kvm_update_dirty_pages_log fails when the scan reaches RAM address 0:   *)
(* ram_save_block sets the file's error and returns 0 before the merge,    *)
(* leaving the bits, the log and the cursor as they were.                  *)
LogUpdateFails(start) ==
  /\ ScanReachesZero(start)
  /\ ferr' = TRUE
  /\ nullcur' = (nullcur \/ (lastB = 0 /\ ZeroDist(start) > 0))

Cursor == IF lastB = 0 THEN lastO ELSE Pos(<<lastB, lastO>>)

(* ram_save_block: find the next dirty page from where the last call      *)
(* stopped. Returns the scan; found is bytes_sent /= 0.                   *)
RamSaveBlock == ScanFrom(Cursor, 0, dirty, klog, FALSE)

(* ram_save_block on the page it found: the continuation flag is taken    *)
(* (the page is in the block of the last page sent), the bit is cleared   *)
(* and is_dup_page reads the page; the copy onto the stream is PutPage.    *)
SendPage(s) ==
  /\ dirty' = s.d \ {s.p}
  /\ klog' = s.kl
  /\ pend' = [p |-> s.p, t |-> IF IsDupPage(smem[s.p]) THEN "comp" ELSE "page",
              cont |-> s.p[1] = lastB]

(* The byte or page qemu_put_byte / qemu_put_buffer read from guest RAM   *)
(* now: a compressed record takes the page's first byte, which is some    *)
(* fill byte when a vCPU made the page Mixed after is_dup_page.           *)
PutVals(t, v) == IF t = "page" \/ v \in Fills THEN {v} ELSE Fills

(* Mutant: last_offset is left at the page after the one sent.           *)
PutPageNextOffset ==
  /\ pend /= NoSend
  /\ \E v \in PutVals(pend.t, smem[pend.p]) :
       chan' = Append(chan, Rec(pend.t, pend.p, pend.cont, v))
  /\ lastB' = pend.p[1] /\ lastO' = pend.p[2] + 1
  /\ pend' = NoSend
  /\ UNCHANGED <<smem, dirty, klog, tracking, sv, stage, mig, ferr, running,
                 dstVars, nullcur, writes>>

(* The rest of ram_save_block: the page goes on the stream, compressed to *)
(* one byte or whole, preceded by the block name unless it continues the  *)
(* last block, and the cursor moves to it. Guest writes by the vCPUs,     *)
(* which run outside the global mutex, may fall between SendPage and this.*)
PutPage ==
  /\ pend /= NoSend
  /\ \E v \in PutVals(pend.t, smem[pend.p]) :
       chan' = Append(chan, Rec(pend.t, pend.p, pend.cont, v))
  /\ lastB' = pend.p[1] /\ lastO' = pend.p[2]
  /\ pend' = NoSend
  /\ UNCHANGED <<smem, dirty, klog, tracking, sv, stage, mig, ferr, running,
                 dstVars, nullcur, writes>>

(* The end of ram_save_live once its loop stopped: in stage 3 tracking is *)
(* turned off (the flush loop ends when ram_save_block returns 0, also on *)
(* a failed log update); the end of section (EOS) is sent; stage 2       *)
(* returns 1 when the remaining pages fit in the allowed downtime at the  *)
(* measured bandwidth, which is a choice here except that nothing         *)
(* remaining always fits. The driver then calls stage 2 again, stops the  *)
(* VM for stage 3, or completes, which fails when the file has an error   *)
(* (err).                                                                  *)
LiveEnd(chan0, err) ==
  /\ chan' = Append(chan0, Marker("eos"))
  /\ sv' = "idle"
  /\ tracking' = (tracking /\ stage /= 3)
  /\ \/ stage = 3 /\ mig' = IF err THEN "failed" ELSE "done"
     \/ stage = 1 /\ UNCHANGED mig
     \/ stage = 2 /\ mig' = "converged"
     \/ stage = 2 /\ RamBytesRemaining /= {} /\ UNCHANGED mig

(* Mutant: stage 1 does not mark every page dirty.                       *)
LiveBeginNoMarkAll(st, chan0) ==
  /\ dirty' = dirty \cup klog /\ klog' = {}
  /\ tracking' = (tracking \/ st = 1)
  /\ lastB' = IF st = 1 THEN 0 ELSE lastB
  /\ lastO' = IF st = 1 THEN 0 ELSE lastO
  /\ chan' = IF st = 1 THEN Append(chan0, Marker("size")) ELSE chan0
  /\ sv' = "loop" /\ stage' = st
  /\ mig' = IF st = 1 THEN "active" ELSE mig

(* Mutant: stage 1 keeps last_block from the previous migration.          *)
LiveBeginKeepCursor(st, chan0) ==
  /\ dirty' = IF st = 1 THEN Pages ELSE dirty \cup klog
  /\ klog' = {}
  /\ tracking' = (tracking \/ st = 1)
  /\ UNCHANGED <<lastB, lastO>>
  /\ chan' = IF st = 1 THEN Append(chan0, Marker("size")) ELSE chan0
  /\ sv' = "loop" /\ stage' = st
  /\ mig' = IF st = 1 THEN "active" ELSE mig

(* The beginning of ram_save_live(stage): synchronise KVM's log into the  *)
(* dirty bits; stage 1 also restarts the cursor, marks every page dirty,  *)
(* turns tracking on and sends the RAM size and the block list. A failed  *)
(* synchronisation returns -EINVAL, the driver cancels (stage -1 turns    *)
(* tracking off) and the destination is abandoned.                         *)
LiveBegin(st, chan0) ==
  \/ /\ dirty' = IF st = 1 THEN Pages ELSE dirty \cup klog
     /\ klog' = {}
     /\ tracking' = (tracking \/ st = 1)
     /\ lastB' = IF st = 1 THEN 0 ELSE lastB
     /\ lastO' = IF st = 1 THEN 0 ELSE lastO
     /\ chan' = IF st = 1 THEN Append(chan0, Marker("size")) ELSE chan0
     /\ sv' = "loop" /\ stage' = st
     /\ mig' = IF st = 1 THEN "active" ELSE mig
  \/ /\ dirty' = dirty \cup klog /\ klog' = {}
     /\ tracking' = FALSE /\ mig' = "none" /\ stage' = 0
     /\ chan' = chan0
     /\ UNCHANGED <<lastB, lastO, sv>>

(* The driver's calls of ram_save_live, through qemu_savevm_state_begin,   *)
(* _iterate and _complete. A new migration has a new destination. The     *)
(* buffered file calls for the next iteration only when it has room. The  *)
(* VM is stopped for stage 3 and started again when that stage fails.     *)
Stage1 ==
  /\ sv = "idle" /\ mig = "none"
  /\ LiveBegin(1, <<>>)
  /\ ferr' = FALSE
  /\ dmem' = [p \in Pages |-> 0] /\ dblock' = 0 /\ dcrash' = FALSE
  /\ UNCHANGED <<smem, running, nullcur, writes, pend>>

Stage2 ==
  /\ sv = "idle" /\ mig = "active" /\ ~ferr /\ Len(chan) < RateCap
  /\ LiveBegin(2, chan)
  /\ UNCHANGED <<smem, ferr, running, nullcur, writes, pend, dstVars>>

Stage3 ==
  /\ sv = "idle" /\ mig = "converged" /\ ~ferr
  /\ LiveBegin(3, chan)
  /\ running' = (mig' = "none")
  /\ UNCHANGED <<smem, ferr, nullcur, writes, pend, dstVars>>

(* migrate_cancel, or the driver finding the file's error, between stages: *)
(* stage -1.                                                              *)
Cancel ==
  /\ sv = "idle" /\ mig \in {"active", "converged"}
  /\ tracking' = FALSE /\ mig' = "none" /\ stage' = 0
  /\ UNCHANGED <<smem, dirty, klog, lastB, lastO, sv, running, chan, dstVars,
                 nullcur, writes, pend, ferr>>

(* The driver after a stage 3 that failed: the VM is started again.      *)
Fail ==
  /\ mig = "failed"
  /\ mig' = "none" /\ stage' = 0 /\ running' = TRUE
  /\ UNCHANGED <<smem, dirty, klog, tracking, lastB, lastO, sv, chan, dstVars,
                 nullcur, writes, pend, ferr>>

(* ram_save_block returned 0 in ram_save_live's loop: the loop breaks and *)
(* stage 3 goes on to the flush, the others to the end.                    *)
LoopBreak(err) ==
  IF stage = 3 THEN sv' = "flush" /\ UNCHANGED <<chan, tracking, mig>>
  ELSE LiveEnd(chan, err)

(* One call of ram_save_block in ram_save_live's rate-limited loop: a page *)
(* found, nothing dirty, or the log update failing.                        *)
SaveBlock ==
  /\ sv = "loop" /\ pend = NoSend /\ Len(chan) < RateCap
  /\ \/ LET s == RamSaveBlock IN
          /\ nullcur' = (nullcur \/ s.nullcur)
          /\ IF s.found
               THEN SendPage(s) /\ UNCHANGED <<sv, tracking, mig, chan>>
               ELSE dirty' = s.d /\ klog' = s.kl /\ LoopBreak(ferr) /\ UNCHANGED pend
          /\ UNCHANGED ferr
     \/ LogUpdateFails(Cursor) /\ LoopBreak(TRUE) /\ UNCHANGED <<dirty, klog, pend>>
  /\ UNCHANGED <<smem, stage, running, dstVars, writes, lastB, lastO>>

(* The loop stops on the rate limit or after 50 ms.                       *)
LoopExit ==
  /\ sv = "loop" /\ pend = NoSend
  /\ IF stage = 3 THEN sv' = "flush" /\ UNCHANGED <<chan, tracking, mig>>
     ELSE LiveEnd(chan, ferr)
  /\ UNCHANGED <<smem, dirty, klog, lastB, lastO, stage, running, dstVars,
                 nullcur, writes, pend, ferr>>

(* Stage 3's flush: ram_save_block until it returns 0, then the end.       *)
Flush ==
  /\ sv = "flush" /\ pend = NoSend
  /\ \/ LET s == RamSaveBlock IN
          /\ nullcur' = (nullcur \/ s.nullcur)
          /\ IF s.found
               THEN SendPage(s) /\ UNCHANGED <<sv, tracking, mig, chan>>
               ELSE dirty' = s.d /\ klog' = s.kl /\ LiveEnd(chan, ferr) /\ UNCHANGED pend
          /\ UNCHANGED ferr
     \/ LogUpdateFails(Cursor) /\ LiveEnd(chan, TRUE) /\ UNCHANGED <<dirty, klog, pend>>
  /\ UNCHANGED <<smem, stage, running, dstVars, writes, lastB, lastO>>

-----------------------------------------------------------------------------
(* A vCPU writes guest RAM; KVM logs the page while tracking is on.        *)
GuestWrite(p, v) ==
  /\ running /\ writes < MaxWrites /\ smem[p] /= v
  /\ smem' = [smem EXCEPT ![p] = v]
  /\ klog' = IF tracking THEN klog \cup {p} ELSE klog
  /\ writes' = writes + 1
  /\ UNCHANGED <<dirty, tracking, lastB, lastO, sv, stage, mig, running, chan,
                 dstVars, nullcur, pend, ferr>>

(* A device model writes guest RAM (DMA): cpu_physical_memory_rw sets the  *)
(* page's dirty bits itself. Device models run under the global mutex,    *)
(* which the I/O thread holds through a call of ram_save_live.            *)
DmaWrite(p, v) ==
  /\ running /\ sv = "idle" /\ writes < MaxWrites /\ smem[p] /= v
  /\ smem' = [smem EXCEPT ![p] = v]
  /\ dirty' = dirty \cup {p}
  /\ writes' = writes + 1
  /\ UNCHANGED <<klog, tracking, lastB, lastO, sv, stage, mig, running, chan,
                 dstVars, nullcur, pend, ferr>>

-----------------------------------------------------------------------------
(* Mutant: the cached block is used whenever there is one.               *)
HostFromStreamOffsetCached(r, blk) == IF r.cont \/ blk /= 0 THEN blk ELSE r.b

(* host_from_stream_offset: a page with RAM_SAVE_FLAG_CONTINUE lands in   *)
(* the static block of the last lookup, NULL when there was none; else the *)
(* block named on the stream is looked up (every block exists here, with  *)
(* the same length, as the MEM_SIZE check makes sure) and remembered.      *)
HostFromStreamOffset(r, blk) == IF r.cont THEN blk ELSE r.b

(* ram_load of one record (version 4): the MEM_SIZE record's block list is *)
(* checked, a compressed page is memset with its byte, a full page copied, *)
(* EOS ends the section.                                                  *)
RamLoad ==
  /\ chan /= <<>>
  /\ LET r == Head(chan)
         b == HostFromStreamOffset(r, dblock)
     IN /\ chan' = Tail(chan)
        /\ IF r.t \in {"comp", "page"}
             THEN /\ dblock' = b
                  /\ IF b = 0 THEN dcrash' = TRUE /\ UNCHANGED dmem
                     ELSE dmem' = [dmem EXCEPT ![<<b, r.o>>] = r.v] /\ UNCHANGED dcrash
             ELSE UNCHANGED dstVars
  /\ UNCHANGED <<srcVars, writes>>

Next ==
  \/ Stage1 \/ Stage2 \/ Stage3 \/ Cancel \/ Fail
  \/ SaveBlock \/ PutPage \/ LoopExit \/ Flush
  \/ \E p \in Pages, v \in Vals : GuestWrite(p, v) \/ DmaWrite(p, v)
  \/ RamLoad

Spec == Init /\ [][Next]_vars

(* The I/O thread keeps serving the migration once stage 3 began, and the *)
(* destination keeps reading the stream.                                  *)
FairSpec == Spec /\ WF_vars(SaveBlock) /\ WF_vars(PutPage) /\ WF_vars(LoopExit)
                 /\ WF_vars(Flush)
                 /\ WF_vars(RamLoad)

-----------------------------------------------------------------------------
TypeOK ==
  /\ smem \in [Pages -> Vals] /\ dmem \in [Pages -> Vals]
  /\ dirty \subseteq Pages /\ klog \subseteq Pages
  /\ tracking \in BOOLEAN /\ running \in BOOLEAN
  /\ lastB \in 0..NB /\ lastO \in 0..(PB - 1)
  /\ sv \in {"idle", "loop", "flush"} /\ stage \in 0..3
  /\ mig \in {"none", "active", "converged", "done", "failed"} /\ ferr \in BOOLEAN
  /\ chan \in Seq(Record) /\ dblock \in 0..NB
  /\ dcrash \in BOOLEAN /\ nullcur \in BOOLEAN /\ writes \in 0..MaxWrites
  /\ pend \in {NoSend} \cup [p : Pages, t : {"comp", "page"}, cont : BOOLEAN]

(* The destination after it has read every record now on the stream.     *)
RECURSIVE ApplyAll(_, _, _)
ApplyAll(mem, blk, s) ==
  IF s = <<>> THEN mem
  ELSE LET r == Head(s)
           b == HostFromStreamOffset(r, blk)
       IN IF r.t \in {"comp", "page"} /\ b /= 0
            THEN ApplyAll([mem EXCEPT ![<<b, r.o>>] = r.v], b, Tail(s))
          ELSE IF r.t \in {"comp", "page"} THEN ApplyAll(mem, b, Tail(s))
          ELSE ApplyAll(mem, blk, Tail(s))

Delivered == ApplyAll(dmem, dblock, chan)

(* While a migration is under way, between calls of ram_save_block, no   *)
(* write of the guest or of a device is lost: every page whose content the *)
(* destination will not have once it read the stream is still marked, in  *)
(* QEMU's dirty bits or in KVM's log, to be sent again. It rests on stage  *)
(* 1 marking every page, on the log being merged before a page is tested, *)
(* on the bit being cleared before the page is read (a vCPU write during  *)
(* the copy is logged again), and on the continuation flag naming the     *)
(* right block.                                                            *)
NoLostWrite ==
  mig /= "none" /\ pend = NoSend =>
    \A p \in Pages : p \in dirty \cup klog \/ Delivered[p] = smem[p]

(* Neither side follows a NULL block: ram_save_block never moves on from   *)
(* the first page before it has a last_block, and the destination never    *)
(* gets a continuation record before a record that names its block, also  *)
(* for a migration started again after a cancelled one.                   *)
NoNullBlock == ~nullcur /\ ~dcrash

(* Once the VM is stopped for stage 3, the migration either finishes with  *)
(* the destination holding exactly the source's RAM, or fails: a failed   *)
(* log update in the flush ends it with pages unsent, and only the file's *)
(* error keeps the driver from completing it.                              *)
MigrationConverges ==
  (mig = "converged" /\ ~running) ~>
    (mig = "done" /\ chan = <<>> /\ dmem = smem) \/ mig = "failed"
=============================================================================
