----------------------------- MODULE QemuTimer -----------------------------
(***************************************************************************)
(* The timers of vl.c with the dynticks alarm, in the I/O-thread build,    *)
(* and the ACPI PM timer of hw/acpi.c as one of their clients.             *)
(*                                                                         *)
(* Each clock keeps its pending timers in a list sorted by expiry          *)
(* (active_timers). qemu_mod_timer unlinks a timer and inserts it again;   *)
(* when it lands at the head of its list, the one-shot host timer is       *)
(* re-armed for the nearest deadline unless the alarm already fired and    *)
(* main_loop_wait has not yet seen it (ALARM_FLAG_EXPIRED). The host       *)
(* alarm's signal handler only sets that flag and wakes the main loop,     *)
(* which re-arms the alarm and then runs the due vm_clock timers (only     *)
(* while the VM runs) and the due rt_clock timers, each list against one   *)
(* reading of its clock. vm_clock is the host clock plus an offset and     *)
(* stands still while the VM is stopped (cpu_disable_ticks).               *)
(*                                                                         *)
(* Time is counted in ns; rt_clock reads it in ms. The clients are the PM  *)
(* timer (vm_clock, pm_tmr_timer), the display refresh (rt_clock,          *)
(* gui_update) and one device timer of the environment (vm_clock) that     *)
(* device models outside this repository arm, cancel and re-arm from its   *)
(* callback.                                                               *)
(***************************************************************************)
EXTENDS Integers, Sequences, FiniteSets

CONSTANTS
  Pm, Gui, Dev,     \* the three timers
  MaxNow,           \* the host clock stops here (bound on time)
  NsPerUs,          \* 1000, scaled
  UsPerMs,          \* 1000, scaled
  MinRearmUs,       \* MIN_TIMER_REARM_US
  BigDelta,         \* INT32_MAX, the deadline when no vm_clock timer is pending
  TicksPerSec,      \* get_ticks_per_sec() and PM_FREQ: the PM timer counts
  PmFreq,           \* PmFreq ticks per TicksPerSec ns
  OvfHalf,          \* 0x800000: the PM counter's overflow bit
  GuiInterval,      \* GUI_REFRESH_INTERVAL, in ms
  DevPeriods        \* delays, in ns, a device re-arms its timer with

ASSUME /\ MaxNow \in Nat /\ NsPerUs \in Nat \ {0} /\ UsPerMs \in Nat \ {0}
       /\ MinRearmUs \in Nat \ {0} /\ BigDelta > MaxNow
       /\ DevPeriods \subseteq Nat \ {0}

Timers == {Pm, Gui, Dev}
ClockOf == [t \in Timers |-> IF t = Gui THEN "rt" ELSE "vm"]
Clocks == {"rt", "vm"}
NsPerMs == NsPerUs * UsPerMs
NoAlarm == -1

VARIABLES
  now,        \* the host's monotonic clock (get_clock), ns
  running,    \* runstate_is_running, and cpu_ticks_enabled with it
  voff,       \* timers_state.cpu_clock_offset
  active,     \* active_timers[clock]: a sequence of timers
  expire,     \* each timer's expire_time
  expired,    \* ALARM_FLAG_EXPIRED; the handler also writes the main
              \* loop's event notifier, which the next wakeup drains
  host,       \* when the one-shot host timer fires, NoAlarm when disarmed
  ml,         \* the I/O thread: "poll" (in g_poll, the vCPU and the
              \* monitor may act), running the "vm" or the "rt" timers, or
              \* serving main_loop's requests ("req")
  ct,         \* the clock reading the current qemu_run_timers pass uses
  pmsts,      \* the TMROF_STS bit of PM1 status
  pmen,       \* the TMROF_EN bit of PM1 enable
  ovf,        \* tmr_overflow_time, in PM timer ticks
  sci,        \* the SCI level pm_update_sci last set
  susp,       \* is_suspended
  sreq,       \* suspend_requested
  wreq,       \* wakeup_requested
  vpause      \* the vCPU is stopped: paused by the I/O thread, or stopped
              \* by its own request, and not resumed since

req == <<sreq, vpause>>
vars == <<now, running, voff, active, expire, expired, host, ml, ct,
          pmsts, pmen, ovf, sci, susp, wreq, req>>

-----------------------------------------------------------------------------
(* cpu_get_clock: vm_clock, frozen at the offset while ticks are off.     *)
CpuGetClock == IF running THEN now + voff ELSE voff

(* qemu_get_clock: rt_clock is get_clock() / 1000000, in ms.             *)
ClockNow(c) == IF c = "rt" THEN now \div NsPerMs ELSE CpuGetClock

(* The state a chain of timer calls works on, and its write-back.        *)
St == [act |-> active, exp |-> expire, host |-> host, pmsts |-> pmsts,
       pmen |-> pmen, ovf |-> ovf, sci |-> sci, susp |-> susp, wreq |-> wreq]

Commit(s) ==
  /\ active' = s.act /\ expire' = s.exp /\ host' = s.host
  /\ pmsts' = s.pmsts /\ pmen' = s.pmen /\ ovf' = s.ovf /\ sci' = s.sci
  /\ susp' = s.susp /\ wreq' = s.wreq

Pending(s, t) == \E i \in 1..Len(s.act[ClockOf[t]]) : s.act[ClockOf[t]][i] = t

(* qemu_del_timer: unlink the timer from its clock's list.               *)
DelTimer(s, ts) ==
  [s EXCEPT !.act[ClockOf[ts]] = SelectSeq(@, LAMBDA t : t /= ts)]

(* qemu_next_deadline: ns until the first vm_clock timer, at least 0.     *)
NextDeadline(s) ==
  LET d == IF s.act["vm"] = <<>> THEN BigDelta
           ELSE s.exp[Head(s.act["vm"])] - CpuGetClock
  IN IF d < 0 THEN 0 ELSE d

(* Mutant: the deadline is not raised to MIN_TIMER_REARM_US.             *)
NextDeadlineDyntickNoMin(s) ==
  LET vd == (NextDeadline(s) + NsPerUs - 1) \div NsPerUs
      rd == IF s.act["rt"] = <<>> THEN vd
            ELSE (s.exp[Head(s.act["rt"])] - ClockNow("rt")) * UsPerMs
  IN IF rd < vd THEN rd ELSE vd

(* qemu_next_deadline_dyntick: us until the nearest deadline, rounding    *)
(* vm_clock up and rt_clock from its ms reading, at least the minimum.    *)
NextDeadlineDyntick(s) ==
  LET vd == (NextDeadline(s) + NsPerUs - 1) \div NsPerUs
      rd == IF s.act["rt"] = <<>> THEN vd
            ELSE (s.exp[Head(s.act["rt"])] - ClockNow("rt")) * UsPerMs
      d  == IF rd < vd THEN rd ELSE vd
  IN IF d < MinRearmUs THEN MinRearmUs ELSE d

(* Mutant: a disarmed host timer (it_value 0) counts as firing in time.  *)
DynticksRearmKeepDisarmed(s) ==
  IF s.act["rt"] = <<>> /\ s.act["vm"] = <<>> THEN s
  ELSE LET nd  == NextDeadlineDyntick(s)
           cur == IF s.host = NoAlarm THEN 0 ELSE (s.host - now) \div NsPerUs
       IN IF cur <= nd THEN s ELSE [s EXCEPT !.host = now + nd * NsPerUs]

(* dynticks_rearm_timer: nothing when no timer is pending; keep a host    *)
(* timer that fires no later than the deadline (timer_gettime's it_value, *)
(* in us); else arm it, relative, for the deadline.                       *)
DynticksRearm(s) ==
  IF s.act["rt"] = <<>> /\ s.act["vm"] = <<>> THEN s
  ELSE LET nd  == NextDeadlineDyntick(s)
           cur == IF s.host = NoAlarm THEN 0 ELSE (s.host - now) \div NsPerUs
       IN IF cur /= 0 /\ cur <= nd THEN s
          ELSE [s EXCEPT !.host = now + nd * NsPerUs]

(* qemu_rearm_alarm_timer, for the dynticks alarm.                        *)
QemuRearmAlarmTimer(s) == DynticksRearm(s)

(* Where qemu_mod_timer's loop stops: before the first timer that expires *)
(* later, so timers with equal expiry keep their order.                   *)
InsertPos(l, exp, e) ==
  LET later == {i \in 1..Len(l) : exp[l[i]] > e}
  IN IF later = {} THEN Len(l) + 1 ELSE CHOOSE i \in later : \A j \in later : i <= j

(* Mutant: the timer is inserted without being unlinked first.          *)
ModTimerNoDel(s, ts, e) ==
  LET l  == s.act[ClockOf[ts]]
      i  == InsertPos(l, s.exp, e)
      s1 == [s EXCEPT !.act[ClockOf[ts]] = SubSeq(l, 1, i - 1) \o <<ts>> \o SubSeq(l, i, Len(l)),
                      !.exp[ts] = e]
  IN IF i = 1 /\ ~expired THEN QemuRearmAlarmTimer(s1) ELSE s1

(* qemu_mod_timer: unlink, insert in order, and re-arm the alarm when the *)
(* timer became the head and the alarm has not fired unseen.              *)
ModTimer(s, ts, e) ==
  LET d == DelTimer(s, ts)
      l == d.act[ClockOf[ts]]
      i == InsertPos(l, d.exp, e)
      s1 == [d EXCEPT !.act[ClockOf[ts]] = SubSeq(l, 1, i - 1) \o <<ts>> \o SubSeq(l, i, Len(l)),
                      !.exp[ts] = e]
  IN IF i = 1 /\ ~expired THEN QemuRearmAlarmTimer(s1) ELSE s1

-----------------------------------------------------------------------------
(* The PM timer counter: muldiv64(vm_clock, PM_FREQ, ticks per second).   *)
PmCount == (CpuGetClock * PmFreq) \div TicksPerSec

(* get_pmsts: the overflow status latches once the counter reaches the    *)
(* overflow time.                                                         *)
GetPmsts(s) == s.pmsts \/ PmCount >= s.ovf

(* Mutant: the PM timer is armed one ns after the overflow time.         *)
PmUpdateSciLate(s) ==
  LET sts == GetPmsts(s)
      s1  == [s EXCEPT !.pmsts = sts, !.sci = (sts /\ s.pmen)]
  IN IF s.pmen /\ ~sts THEN ModTimer(s1, Pm, (s.ovf * TicksPerSec) \div PmFreq + 1)
     ELSE DelTimer(s1, Pm)

(* pm_update_sci: set the SCI from the enabled status bits; while the     *)
(* overflow is enabled and not yet signalled, arm the PM timer for the     *)
(* vm_clock time of the overflow, else cancel it.                          *)
PmUpdateSci(s) ==
  LET sts == GetPmsts(s)
      s1  == [s EXCEPT !.pmsts = sts, !.sci = (sts /\ s.pmen)]
  IN IF s.pmen /\ ~sts THEN ModTimer(s1, Pm, (s.ovf * TicksPerSec) \div PmFreq)
     ELSE DelTimer(s1, Pm)

(* acpi_notify_wakeup for QEMU_WAKEUP_REASON_PMTIMER: the overflow status *)
(* is set (with RSM_STS, not modelled).                                   *)
AcpiNotifyWakeup(s) == [s EXCEPT !.pmsts = TRUE]

(* qemu_system_wakeup_request: nothing unless suspended and the reason is  *)
(* enabled; else notify, request the wakeup and leave the suspended state. *)
WakeupRequest(s, enabled) ==
  IF ~s.susp \/ ~enabled THEN s
  ELSE [AcpiNotifyWakeup(s) EXCEPT !.wreq = TRUE, !.susp = FALSE]

(* pm_tmr_timer: a wakeup request for the PM timer, whose bit of           *)
(* wakeup_reason_mask the PM1 enable write set to TMROF_EN                 *)
(* (qemu_system_wakeup_enable), then pm_update_sci.                        *)
PmTmrTimer(s) == PmUpdateSci(WakeupRequest(s, s.pmen))

(* pm_ioport_writew to PM1 status: writing the set overflow bit clears it  *)
(* and moves the overflow time to the counter's next 0x800000 boundary.    *)
PmStsWrite(s, clear) ==
  LET sts == GetPmsts(s)
      o   == IF sts /\ clear THEN ((PmCount + OvfHalf) \div OvfHalf) * OvfHalf
             ELSE s.ovf
  IN PmUpdateSci([s EXCEPT !.pmsts = sts /\ ~clear, !.ovf = o])

(* pm_ioport_writew to PM1 enable.                                        *)
PmEnWrite(s, v) == PmUpdateSci([s EXCEPT !.pmen = v])

(* gui_update: refresh the display and run again GUI_REFRESH_INTERVAL ms   *)
(* later.                                                                 *)
GuiUpdate(s) == ModTimer(s, Gui, ClockNow("rt") + GuiInterval)

(* The device timer's callback: re-arm itself later, or not.              *)
DevCallback(s) ==
  {s} \cup {ModTimer(s, Dev, CpuGetClock + p) : p \in DevPeriods}

Callbacks(ts, s) ==
  CASE ts = Pm  -> {PmTmrTimer(s)}
    [] ts = Gui -> {GuiUpdate(s)}
    [] ts = Dev -> DevCallback(s)

-----------------------------------------------------------------------------
(* Set-up: no timer is pending but the display refresh, which main arms   *)
(* for rt_clock's current reading, arming the host timer for the minimum. *)
(* The VM starts running at time 0; the PM registers are zero.            *)
Init ==
  /\ now = 0 /\ running = TRUE /\ voff = 0
  /\ active = [c \in Clocks |-> IF c = "rt" THEN <<Gui>> ELSE <<>>]
  /\ expire = [t \in Timers |-> 0]
  /\ expired = FALSE /\ host = MinRearmUs * NsPerUs
  /\ ml = "poll" /\ ct = 0
  /\ pmsts = FALSE /\ pmen = FALSE /\ ovf = 0 /\ sci = FALSE
  /\ susp = FALSE /\ wreq = FALSE /\ sreq = FALSE
  /\ vpause = FALSE

(* host_alarm_handler, dynticks alarm: the one-shot timer has fired; set  *)
(* ALARM_FLAG_EXPIRED and wake the main loop.                             *)
HostAlarmHandler == host' = NoAlarm /\ expired' = TRUE

(* The host clock advances; the host timer's signal is delivered when it  *)
(* is reached.                                                            *)
Tick ==
  /\ now < MaxNow
  /\ now' = now + 1
  /\ IF host = now + 1 THEN HostAlarmHandler ELSE UNCHANGED <<host, expired>>
  /\ UNCHANGED <<running, voff, active, expire, ml, ct, pmsts, pmen, ovf, sci,
                 susp, wreq, req>>

(* Mutant: no timer pass at all while the VM is stopped.                 *)
MlWakeVmOnly ==
  /\ ml = "poll"
  /\ Commit(IF expired THEN QemuRearmAlarmTimer(St) ELSE St)
  /\ expired' = FALSE
  /\ ml' = IF running THEN "vm" ELSE "poll"
  /\ ct' = IF running THEN ClockNow("vm") ELSE ct
  /\ UNCHANGED <<now, running, voff, req>>

(* main_loop_wait up to the timers: g_poll returns (an event, a file      *)
(* descriptor, or the timeout of qemu_calculate_timeout), the notifier is *)
(* drained, an alarm that fired is re-armed, and the vm_clock pass starts *)
(* if the VM runs, else the rt_clock pass.                                *)
MlWake ==
  /\ ml = "poll"
  /\ Commit(IF expired THEN QemuRearmAlarmTimer(St) ELSE St)
  /\ expired' = FALSE
  /\ ml' = IF running THEN "vm" ELSE "rt"
  /\ ct' = IF running THEN ClockNow("vm") ELSE ClockNow("rt")
  /\ UNCHANGED <<now, running, voff, req>>

(* qemu_timer_expired for the head of c's list, at the pass's reading.   *)
HeadExpired(c) == active[c] /= <<>> /\ expire[Head(active[c])] <= ct

(* One iteration of qemu_run_timers: the head expired at the pass's clock *)
(* reading; it is unlinked before its callback runs, which may modify the *)
(* list.                                                                  *)
RunTimer(c) ==
  /\ ml = c /\ HeadExpired(c)
  /\ LET ts == Head(active[c])
     IN \E s \in Callbacks(ts, [St EXCEPT !.act[c] = Tail(@)]) : Commit(s)
  /\ UNCHANGED <<now, running, voff, expired, ml, ct, req>>

(* vm_can_run: main_loop keeps calling main_loop_wait until a powerdown,  *)
(* reset, shutdown, debug or suspend request is pending (of these the     *)
(* guest's sleep is modelled here); wakeup_requested is not among them.   *)
VmCanRun == ~sreq

(* qemu_run_timers stops at a head that is not yet due; main_loop_wait    *)
(* goes on from the vm_clock list to rt_clock, then (host_clock's list    *)
(* being empty, and the bottom halves aside) returns, and main_loop polls *)
(* again unless vm_can_run says a request is pending.                     *)
EndTimers(c) ==
  /\ ml = c /\ ~HeadExpired(c)
  /\ IF c = "vm" THEN ml' = "rt" /\ ct' = ClockNow("rt")
     ELSE ml' = (IF VmCanRun THEN "poll" ELSE "req") /\ ct' = 0
  /\ UNCHANGED <<now, running, voff, active, expire, expired, host, pmsts,
                 pmen, ovf, sci, susp, wreq, req>>

(* cpu_disable_ticks: the offset becomes the clock's reading.             *)
CpuDisableTicks == voff' = CpuGetClock

(* cpu_enable_ticks: the offset is taken relative to the host clock.      *)
CpuEnableTicks == voff' = voff - now

(* do_vm_stop, from main_loop's handlers: vm_clock stops.                  *)
VmStop ==
  /\ ml = "poll" /\ running
  /\ CpuDisableTicks /\ running' = FALSE /\ vpause' = TRUE
  /\ UNCHANGED <<now, active, expire, expired, host, ml, ct, pmsts, pmen, ovf,
                 sci, susp, wreq, sreq>>

(* vm_start (cont): vm_clock runs on from where it stopped, the alarm is  *)
(* re-armed and the vCPU resumed.                                         *)
VmStart ==
  /\ ml = "poll" /\ ~running
  /\ CpuEnableTicks /\ running' = TRUE /\ vpause' = FALSE
  /\ Commit(QemuRearmAlarmTimer(St))
  /\ UNCHANGED <<now, expired, ml, ct, sreq>>

(* cpu_can_run: the guest's vCPU executes while the VM runs and the vCPU  *)
(* is not stopped.                                                         *)
GuestRuns == running /\ ~vpause

(* The guest's vCPU writes PM1 status or enable, under the global mutex.  *)
GuestPmSts ==
  /\ ml = "poll" /\ GuestRuns
  /\ \E clear \in BOOLEAN : Commit(PmStsWrite(St, clear))
  /\ UNCHANGED <<now, running, voff, expired, ml, ct, req>>

GuestPmEn ==
  /\ ml = "poll" /\ GuestRuns
  /\ \E v \in BOOLEAN : Commit(PmEnWrite(St, v))
  /\ UNCHANGED <<now, running, voff, expired, ml, ct, req>>

(* A device model arms or cancels its timer.                              *)
DevMod ==
  /\ ml = "poll"
  /\ \E p \in DevPeriods : Commit(ModTimer(St, Dev, CpuGetClock + p))
  /\ UNCHANGED <<now, running, voff, expired, ml, ct, req>>

DevDel ==
  /\ ml = "poll"
  /\ Commit(DelTimer(St, Dev))
  /\ UNCHANGED <<now, running, voff, expired, ml, ct, req>>

(* pm_ioport_readw of PM1 status: get_pmsts latches the overflow status. *)
GuestPmRead ==
  /\ ml = "poll" /\ GuestRuns
  /\ pmsts' = GetPmsts(St)
  /\ UNCHANGED <<now, running, voff, active, expire, expired, host, ml, ct,
                 pmen, ovf, sci, susp, wreq, req>>

(* pm_ioport_writew of PM1 control with SUS_EN and sleep type 1:          *)
(* qemu_system_suspend_request returns when already suspended; else it   *)
(* requests the suspend and stops the writing vCPU.                       *)
GuestSleep ==
  /\ ml = "poll" /\ GuestRuns
  /\ IF susp THEN UNCHANGED <<sreq, vpause>>
     ELSE sreq' = TRUE /\ vpause' = TRUE
  /\ UNCHANGED <<now, running, voff, active, expire, expired, host, ml, ct,
                 pmsts, pmen, ovf, sci, susp, wreq>>

(* main_loop's handlers, in one pass in its order: qemu_system_suspend    *)
(* (the vCPU stays paused, is_suspended is set), then the wakeup: a       *)
(* silent reset, which leaves the PM registers alone (piix4_reset), and    *)
(* resume_all_vcpus.                                                       *)
HandleRequests ==
  /\ ml = "req"
  /\ susp' = (susp \/ sreq)
  /\ vpause' = (vpause /\ ~wreq)
  /\ sreq' = FALSE /\ wreq' = FALSE
  /\ ml' = "poll"
  /\ UNCHANGED <<now, running, voff, active, expire, expired, host, ct,
                 pmsts, pmen, ovf, sci>>

Next ==
  \/ Tick \/ MlWake
  \/ \E c \in Clocks : RunTimer(c) \/ EndTimers(c)
  \/ VmStop \/ VmStart
  \/ GuestPmSts \/ GuestPmEn \/ GuestPmRead \/ GuestSleep \/ DevMod \/ DevDel
  \/ HandleRequests

Spec == Init /\ [][Next]_vars

(* The I/O thread goes round main_loop: g_poll returns at the latest      *)
(* after qemu_calculate_timeout's second, a timer pass runs to its end,   *)
(* and pending requests are served.                                       *)
IoThread ==
  MlWake \/ HandleRequests \/ \E c \in Clocks : RunTimer(c) \/ EndTimers(c)

FairSpec == Spec /\ WF_vars(IoThread)

-----------------------------------------------------------------------------
TypeOK ==
  /\ now \in 0..MaxNow /\ running \in BOOLEAN /\ voff \in -MaxNow..MaxNow
  /\ active \in [Clocks -> Seq(Timers)] /\ expire \in [Timers -> Int]
  /\ expired \in BOOLEAN /\ host \in {NoAlarm} \cup (now + 1)..(now + BigDelta)
  /\ ml \in {"poll", "vm", "rt", "req"} /\ ct \in Int
  /\ pmsts \in BOOLEAN /\ pmen \in BOOLEAN /\ ovf \in Nat /\ sci \in BOOLEAN
  /\ {susp, sreq, wreq, vpause} \subseteq BOOLEAN

(* Each clock's list holds only its own timers, each at most once, in     *)
(* order of expiry: qemu_mod_timer unlinks before it inserts, and a       *)
(* callback's re-arm is not undone by qemu_run_timers' own unlink.        *)
TimerListsSorted ==
  \A c \in Clocks :
    LET l == active[c] IN
      /\ \A i \in 1..Len(l) : ClockOf[l[i]] = c
      /\ \A i, j \in 1..Len(l) : i < j => l[i] /= l[j] /\ expire[l[i]] <= expire[l[j]]

(* The host time by which the alarm must go off for the head of clock c:  *)
(* when vm_clock reaches its expiry (while the VM runs), or when rt_clock's *)
(* ms reading does, each up to the rounding of its conversion to us.      *)
DueAt(c) ==
  LET e == expire[Head(active[c])]
  IN IF c = "rt" THEN e * NsPerMs + NsPerMs - 1 ELSE e - voff + NsPerUs - 1

(* Unless the alarm fired and the main loop has yet to see it, the host   *)
(* timer is armed to fire by the time the first pending timer of each     *)
(* running clock is due, or MIN_TIMER_REARM_US from now if that is later. *)
(* qemu_mod_timer's re-arm at the head, its skip while the flag is set,   *)
(* main_loop_wait's re-arm, vm_start's, and dynticks_rearm_timer keeping  *)
(* an earlier host timer all bear on it.                                  *)
AlarmCovers ==
  ~expired =>
    \A c \in Clocks :
      active[c] /= <<>> /\ (c = "rt" \/ running) =>
        /\ host /= NoAlarm
        /\ \/ host <= DueAt(c)
           \/ host <= now + MinRearmUs * NsPerUs

(* While the overflow interrupt is enabled and the PM counter has passed  *)
(* the overflow time, the SCI is raised or the PM timer is pending and   *)
(* already due on vm_clock, so its callback raises it in the next pass.   *)
PmOverflowSignalled ==
  pmen /\ PmCount >= ovf =>
    \/ sci
    \/ Pending(St, Pm) /\ expire[Pm] <= CpuGetClock

(* A timer that is due, on rt_clock or on vm_clock while the VM runs, is  *)
(* eventually run, cancelled, moved, or held by a stop of the VM.         *)
Due(t) ==
  /\ Pending(St, t) /\ expire[t] <= ClockNow(ClockOf[t])
  /\ (ClockOf[t] = "rt" \/ running)

DueTimersRun == \A t \in Timers : Due(t) ~> ~Due(t)

(* While the VM stays stopped no vm_clock timer can run, so a re-arm of   *)
(* the host alarm (qemu_next_deadline's vm_clock delta against the frozen *)
(* clock, in dynticks_rearm_timer) must not make it fire before the first *)
(* rt_clock timer is due: else the alarm fires, main_loop_wait re-arms it *)
(* for the same deadline, and the I/O thread wakes every                  *)
(* MIN_TIMER_REARM_US for the whole pause.                                *)
PausedAlarmIdle ==
  [][~running /\ ~running' /\ host' /= host /\ host' /= NoAlarm
     /\ active'["rt"] /= <<>>
       => host' >= expire'[Head(active'["rt"])] * NsPerMs]_vars

(* After the PM timer wakes the suspended guest (qemu_system_wakeup_request *)
(* sets wakeup_requested), main_loop eventually serves the wakeup and the  *)
(* guest's vCPU runs again.                                               *)
WakeupResumes == wreq ~> (GuestRuns \/ ~running)

(* A guest that asks to sleep is suspended: qemu_system_suspend_request   *)
(* finds is_suspended clear whenever the guest's vCPU can run.            *)
AwakeWhileRunning == GuestRuns => ~susp
=============================================================================
