------------------------------- MODULE VmRun -------------------------------
(***************************************************************************)
(* The run control of vl.c in the CONFIG_IOTHREAD build with TCG: the I/O  *)
(* thread's main_loop, the TCG thread that runs every vCPU in turn, and   *)
(* the global mutex and condition variables between them.                 *)
(*                                                                         *)
(* The I/O thread sleeps in main_loop_wait with the mutex released. When  *)
(* it wakes it dispatches one event (a monitor command, a device, a timer) *)
(* and, once vm_can_run() fails, serves the requests in main_loop's order: *)
(* debug, suspend, shutdown, reset, wakeup, powerdown, vmstop. Stopping,  *)
(* suspending and resetting call pause_all_vcpus, which sets every vCPU's *)
(* stop flag and waits on qemu_pause_cond, releasing the mutex, until all *)
(* are stopped. The TCG thread holds the mutex while tcg_cpu_exec walks   *)
(* the vCPUs from next_cpu, and releases it in qemu_wait_io_event, which  *)
(* marks only cur_cpu stopped. Guest code running on a vCPU can raise      *)
(* requests as the device models it reaches do.                           *)
(*                                                                         *)
(* Guest execution is one step per vCPU visit; halted vCPUs are left out  *)
(* (cpu_has_work reads only stop and stopped); the alarm signal handler   *)
(* only sets timer_alarm_pending. ran records the vCPU that executed      *)
(* guest code in the last step, and held whether the I/O thread has       *)
(* paused the vCPUs and not resumed them since.                           *)
(***************************************************************************)
EXTENDS Integers, Sequences

CONSTANTS
  CpuList,     \* the vCPUs in first_cpu / next_cpu order
  NoShutdown,  \* -no-shutdown
  NoReboot,    \* -no-reboot
  None

Cpus == {CpuList[i] : i \in 1..Len(CpuList)}
NCpu == Len(CpuList)

RunStates == {"prelaunch", "running", "paused", "debug", "shutdown", "io-error"}

(* runstate_transitions_def, restricted to RunStates. *)
Valid ==
  {<<"debug", "running">>, <<"io-error", "running">>, <<"paused", "running">>,
   <<"prelaunch", "running">>, <<"running", "debug">>, <<"running", "io-error">>,
   <<"running", "paused">>, <<"running", "shutdown">>, <<"shutdown", "paused">>}

(* runstate_needs_reset, restricted to RunStates. *)
NeedsReset(rs) == rs = "shutdown"

GuestEvents == {"none", "reset", "shutdown", "suspend", "debug", "vmstop"}
IoEvents == {"none", "reset", "shutdown", "powerdown", "stop", "cont", "wakeup"}

VARIABLES
  runstate,    \* current_run_state
  stop,        \* [Cpus -> BOOLEAN]: env->stop
  stopped,     \* [Cpus -> BOOLEAN]: env->stopped
  rq,          \* the request flags: reset, shutdown, powerdown, debug,
               \* suspend, wakeup, and vmstop_requested
  suspended,   \* is_suspended
  alarm,       \* timer_alarm_pending
  next,        \* next_cpu as an index of CpuList, 0 for NULL
  cur,         \* cur_cpu as an index of CpuList
  holder,      \* qemu_global_mutex: "io", "tcg" or "none"
  tpc,         \* where the TCG thread is
  iopc,        \* where the I/O thread is
  ret,         \* what the I/O thread does once pause_all_vcpus returns
  ran,         \* the vCPU that ran guest code in the last step, or None
  held         \* the vCPUs are paused by the I/O thread

vars == <<runstate, stop, stopped, rq, suspended, alarm, next, cur, holder, tpc,
          iopc, ret, ran, held>>
tcgVars == <<next, cur, tpc>>
ioVars == <<iopc, ret>>

NoRq == [reset |-> FALSE, shutdown |-> FALSE, powerdown |-> FALSE, debug |-> FALSE,
         suspend |-> FALSE, wakeup |-> FALSE, vmstop |-> "none"]

Init ==
  /\ runstate \in {"running", "prelaunch"}   \* autostart, or -S
  /\ stop = [c \in Cpus |-> FALSE] /\ stopped = [c \in Cpus |-> FALSE]
  /\ rq = NoRq /\ suspended = FALSE
  /\ alarm = TRUE
  /\ next = 0 /\ cur = 1
  /\ holder = "none" /\ tpc = "start" /\ iopc = "poll"
  /\ ret = [act |-> "none", st |-> "none", to |-> "none"]
  /\ ran = None /\ held = FALSE

-----------------------------------------------------------------------------
(* The TCG thread. *)

(* Mutant: cpu_can_run does not test env->stopped. *)
CanRunNoStopped(c) == ~stop[c]

(* cpu_can_run *)
CanRun(c) == ~stop[c] /\ ~stopped[c]

(* tcg_has_work, with cpu_has_work for vCPUs that are not halted. *)
TcgHasWork == \E c \in Cpus : stop[c] \/ ~stopped[c]

(* Mutant: the walk goes past the last vCPU. *)
SuccNoEnd(i) == i + 1

(* env->next_cpu, NULL (0) after the last vCPU. *)
Succ(i) == IF i = NCpu THEN 0 ELSE i + 1

(* What guest code on vCPU c does to the request flags and to c when it   *)
(* reaches qemu_system_reset_request, the ACPI soft-off or S3 writes      *)
(* (qemu_system_shutdown_request, qemu_system_suspend_request), a debug   *)
(* exception, or vm_stop from the vCPU thread.                            *)
GuestRq(ev) ==
  CASE ev = "reset"    -> IF NoReboot THEN [rq EXCEPT !.shutdown = TRUE]
                                      ELSE [rq EXCEPT !.reset = TRUE]
    [] ev = "shutdown" -> [rq EXCEPT !.shutdown = TRUE]
    [] ev = "suspend"  -> IF suspended THEN rq ELSE [rq EXCEPT !.suspend = TRUE]
    [] ev = "debug"    -> [rq EXCEPT !.debug = TRUE]
    [] ev = "vmstop"   -> [rq EXCEPT !.vmstop = "io-error"]
    [] OTHER           -> rq
GuestStopped(ev, c) ==
  IF ev = "reset" \/ (ev = "suspend" /\ ~suspended)
    THEN [stopped EXCEPT ![c] = TRUE] ELSE stopped
GuestStop(ev, c) == IF ev = "vmstop" THEN [stop EXCEPT ![c] = TRUE] ELSE stop

(* One visit of tcg_cpu_exec's loop, holding the mutex: leave the loop     *)
(* (keeping next_cpu) if the VM is not running or the alarm is pending,   *)
(* otherwise run the vCPU if cpu_can_run allows, leave on EXCP_DEBUG, and *)
(* move on; after the last vCPU the loop ends with next_cpu NULL.          *)
TcgStep ==
  /\ tpc = "exec"
  /\ LET i == IF next = 0 THEN 1 ELSE next
         c == CpuList[i]
         advance == /\ next' = Succ(i)
                    /\ tpc' = IF Succ(i) = 0 THEN "wait_io" ELSE "exec"
     IN /\ cur' = i
        /\ IF runstate /= "running"
             THEN /\ next' = i /\ tpc' = "wait_io"
                  /\ ran' = None /\ UNCHANGED <<alarm, rq, stop, stopped>>
           ELSE IF alarm
             THEN /\ alarm' = FALSE /\ next' = i /\ tpc' = "wait_io"
                  /\ ran' = None /\ UNCHANGED <<rq, stop, stopped>>
           ELSE IF ~CanRun(c)
             THEN /\ advance /\ ran' = None /\ UNCHANGED <<alarm, rq, stop, stopped>>
           ELSE \E ev \in GuestEvents :
                  /\ ran' = c
                  /\ rq' = GuestRq(ev)
                  /\ stopped' = GuestStopped(ev, c)
                  /\ stop' = GuestStop(ev, c)
                  /\ IF ev = "debug" THEN next' = i /\ tpc' = "wait_io" ELSE advance
                  /\ UNCHANGED alarm
  /\ UNCHANGED <<runstate, suspended, holder, iopc, ret, held>>

(* qemu_wait_io_event, first half: with no work, wait on halt_cond        *)
(* (releasing the mutex); otherwise release it for the fair-mutex dance.  *)
TcgWaitIo ==
  /\ tpc = "wait_io"
  /\ holder' = "none"
  /\ tpc' = IF TcgHasWork THEN "relock" ELSE "halt"
  /\ ran' = None
  /\ UNCHANGED <<runstate, stop, stopped, rq, suspended, alarm, next, cur, iopc, ret, held>>

(* The timed wait on halt_cond ends (a kick or the 1 s timeout): retake   *)
(* the mutex and test tcg_has_work again.                                 *)
TcgHaltWake ==
  /\ tpc = "halt" /\ holder = "none"
  /\ holder' = "tcg" /\ tpc' = "wait_io"
  /\ ran' = None
  /\ UNCHANGED <<runstate, stop, stopped, rq, suspended, alarm, next, cur, iopc, ret, held>>

(* tcg_cpu_thread_fn: qemu_system_ready is set, the wait on              *)
(* qemu_system_cond retakes the mutex, and the loop starts.               *)
TcgStart ==
  /\ tpc = "start" /\ holder = "none"
  /\ holder' = "tcg" /\ tpc' = "exec"
  /\ ran' = None
  /\ UNCHANGED <<runstate, stop, stopped, rq, suspended, alarm, next, cur, iopc, ret, held>>

(* qemu_wait_io_event, second half: retake the mutex; if cur_cpu was asked *)
(* to stop, mark it stopped and signal qemu_pause_cond; back to            *)
(* tcg_cpu_exec.                                                           *)
TcgRelock ==
  /\ tpc = "relock" /\ holder = "none"
  /\ holder' = "tcg" /\ tpc' = "exec"
  /\ LET c == CpuList[cur]
     IN /\ stop' = [stop EXCEPT ![c] = FALSE]
        /\ stopped' = IF stop[c] THEN [stopped EXCEPT ![c] = TRUE] ELSE stopped
  /\ ran' = None
  /\ UNCHANGED <<runstate, rq, suspended, alarm, next, cur, iopc, ret, held>>

(* host_alarm_handler: a timer expired. *)
AlarmFires ==
  /\ ~alarm /\ alarm' = TRUE
  /\ ran' = None
  /\ UNCHANGED <<runstate, stop, stopped, rq, suspended, next, cur, holder, tpc, iopc, ret, held>>

-----------------------------------------------------------------------------
(* The I/O thread. *)

(* vm_can_run *)
VmCanRun(r) == ~(r.powerdown \/ r.reset \/ r.shutdown \/ r.debug \/ r.suspend)

AllCpus(b) == [c \in Cpus |-> b]

(* pause_all_vcpus, first loop: set every stop flag and kick; then wait in *)
(* "pausing" for all to be stopped, and go on as ret says.                 *)
StartPause(act, st, to) ==
  /\ stop' = AllCpus(TRUE)
  /\ iopc' = "pausing"
  /\ ret' = [act |-> act, st |-> st, to |-> to]

GoTo(to) == iopc' = to /\ UNCHANGED <<stop, ret>>

(* Mutant: do_vm_stop does not check that the VM is running. *)
DoVmStopAlways(st, to) == StartPause("stop", st, to)

(* do_vm_stop(st), then on to "to". *)
DoVmStop(st, to) == IF runstate = "running" THEN StartPause("stop", st, to) ELSE GoTo(to)

(* The end of one main_loop_wait: leave the do-while loop when vm_can_run  *)
(* fails, or release the mutex for the next poll.                         *)
EndWait(r) ==
  /\ UNCHANGED ret
  /\ IF VmCanRun(r) THEN holder' = "none" /\ iopc' = "poll"
                     ELSE holder' = holder /\ iopc' = "h_debug"

(* vm_start: a VM that is not running is set running and its vCPUs are   *)
(* resumed.                                                               *)
VmStart ==
  IF runstate /= "running"
    THEN /\ runstate' = "running"
         /\ stop' = AllCpus(FALSE) /\ stopped' = AllCpus(FALSE)
         /\ held' = FALSE
    ELSE UNCHANGED <<runstate, stop, stopped, held>>

(* qemu_system_wakeup_request: only a suspended VM is woken (all wakeup   *)
(* reasons are enabled).                                                  *)
WakeupRequest ==
  /\ rq' = IF suspended THEN [rq EXCEPT !.wakeup = TRUE] ELSE rq
  /\ suspended' = FALSE

(* main_loop_wait returns from g_poll and retakes the mutex. *)
IoPoll ==
  /\ iopc = "poll" /\ holder = "none"
  /\ holder' = "io" /\ iopc' = "dispatch"
  /\ ran' = None
  /\ UNCHANGED <<runstate, stop, stopped, rq, suspended, alarm, tcgVars, ret, held>>

(* One event main_loop_wait dispatches with the mutex held, from a monitor *)
(* command or a device model: system_reset, quit or an ACPI soft-off,      *)
(* system_powerdown, stop (vm_stop(RUN_STATE_PAUSED) on the I/O thread),  *)
(* cont (vm_start, which the monitor allows only from a state that needs *)
(* no reset), or a wakeup (qemu_system_wakeup_request from the PM timer). *)
IoDispatch(ev) ==
  /\ iopc = "dispatch"
  /\ ran' = None
  /\ UNCHANGED <<alarm, tcgVars>>
  /\ CASE ev = "stop" ->
            /\ DoVmStop("paused", "check")
            /\ UNCHANGED <<runstate, stopped, rq, suspended, holder, held>>
       [] ev = "cont" ->
            /\ IF ~NeedsReset(runstate) THEN VmStart ELSE UNCHANGED <<runstate, stop, stopped, held>>
            /\ EndWait(rq)
            /\ UNCHANGED <<rq, suspended>>
       [] ev = "wakeup" ->
            /\ WakeupRequest
            /\ EndWait(rq')
            /\ UNCHANGED <<runstate, stop, stopped, held>>
       [] OTHER ->
            /\ rq' = IF ev = "powerdown" THEN [rq EXCEPT !.powerdown = TRUE] ELSE GuestRq(ev)
            /\ EndWait(rq')
            /\ UNCHANGED <<runstate, stop, stopped, suspended, held>>

(* main_loop_wait returns after a stop command's pause. *)
IoCheck ==
  /\ iopc = "check"
  /\ EndWait(rq)
  /\ ran' = None
  /\ UNCHANGED <<runstate, stop, stopped, rq, suspended, alarm, tcgVars, held>>

(* pause_all_vcpus, second loop: with every vCPU stopped it returns, and   *)
(* the caller goes on: do_vm_stop sets the run state, qemu_system_suspend *)
(* sets is_suspended, the reset and wakeup handlers reset the machine and *)
(* resume_all_vcpus (the reset handler then pauses a VM that needs a     *)
(* reset). Otherwise it waits on qemu_pause_cond, releasing the mutex.    *)
IoPauseCheck ==
  /\ iopc = "pausing"
  /\ ran' = None
  /\ UNCHANGED <<rq, alarm, tcgVars, ret>>
  /\ IF \A c \in Cpus : stopped[c]
       THEN CASE ret.act = "stop" ->
                   /\ runstate' = ret.st /\ held' = TRUE
                   /\ iopc' = ret.to
                   /\ holder' = IF ret.to = "poll" THEN "none" ELSE holder
                   /\ UNCHANGED <<stop, stopped, suspended>>
              [] ret.act = "suspend" ->
                   /\ suspended' = TRUE /\ held' = TRUE
                   /\ iopc' = "h_shutdown"
                   /\ UNCHANGED <<runstate, stop, stopped, holder>>
              [] OTHER ->
                   /\ stop' = AllCpus(FALSE) /\ stopped' = AllCpus(FALSE)
                   /\ held' = FALSE
                   /\ runstate' = IF ret.act = "reset" /\ NeedsReset(runstate)
                                    THEN "paused" ELSE runstate
                   /\ iopc' = IF ret.act = "reset" THEN "h_wakeup" ELSE "h_powerdown"
                   /\ UNCHANGED <<suspended, holder>>
       ELSE /\ holder' = "none" /\ iopc' = "pausesleep"
            /\ UNCHANGED <<runstate, stop, stopped, suspended, held>>

(* The timed wait on qemu_pause_cond ends (a signal or the timeout) and   *)
(* retakes the mutex.                                                     *)
IoPauseWake ==
  /\ iopc = "pausesleep" /\ holder = "none"
  /\ holder' = "io" /\ iopc' = "pausing"
  /\ ran' = None
  /\ UNCHANGED <<runstate, stop, stopped, rq, suspended, alarm, tcgVars, ret, held>>

(* main_loop after the do-while loop: each request is read and cleared in *)
(* turn with the mutex held.                                              *)
HUnchanged == UNCHANGED <<runstate, stopped, suspended, alarm, tcgVars, holder, held>>

HDebug ==
  /\ iopc = "h_debug" /\ ran' = None /\ HUnchanged
  /\ rq' = [rq EXCEPT !.debug = FALSE]
  /\ IF rq.debug THEN DoVmStop("debug", "h_suspend") ELSE GoTo("h_suspend")

HSuspend ==
  /\ iopc = "h_suspend" /\ ran' = None /\ HUnchanged
  /\ rq' = [rq EXCEPT !.suspend = FALSE]
  /\ IF rq.suspend THEN StartPause("suspend", "none", "h_shutdown") ELSE GoTo("h_shutdown")

(* With -no-shutdown the VM stops in RUN_STATE_SHUTDOWN; without it the   *)
(* loop is left and QEMU exits.                                           *)
HShutdown ==
  /\ iopc = "h_shutdown" /\ ran' = None /\ HUnchanged
  /\ rq' = [rq EXCEPT !.shutdown = FALSE]
  /\ IF ~rq.shutdown THEN GoTo("h_reset")
     ELSE IF NoShutdown THEN DoVmStop("shutdown", "h_reset")
     ELSE GoTo("exit")

HReset ==
  /\ iopc = "h_reset" /\ ran' = None /\ HUnchanged
  /\ rq' = [rq EXCEPT !.reset = FALSE]
  /\ IF rq.reset THEN StartPause("reset", "none", "h_wakeup") ELSE GoTo("h_wakeup")

HWakeup ==
  /\ iopc = "h_wakeup" /\ ran' = None /\ HUnchanged
  /\ rq' = [rq EXCEPT !.wakeup = FALSE]
  /\ IF rq.wakeup THEN StartPause("wakeup", "none", "h_powerdown") ELSE GoTo("h_powerdown")

(* The powerdown request raises the ACPI power button interrupt, which    *)
(* reaches the guest as a later event, not modelled further.              *)
HPowerdown ==
  /\ iopc = "h_powerdown" /\ ran' = None /\ HUnchanged
  /\ rq' = [rq EXCEPT !.powerdown = FALSE]
  /\ GoTo("h_vmstop")

(* The vmstop request is served last; then the for loop calls             *)
(* main_loop_wait again, which releases the mutex.                        *)
HVmstop ==
  /\ iopc = "h_vmstop" /\ ran' = None
  /\ rq' = [rq EXCEPT !.vmstop = "none"]
  /\ IF rq.vmstop /= "none"
       THEN /\ DoVmStop(rq.vmstop, "poll")
            /\ holder' = IF runstate = "running" THEN holder ELSE "none"
       ELSE holder' = "none" /\ GoTo("poll")
  /\ UNCHANGED <<runstate, stopped, suspended, alarm, tcgVars, held>>

Next ==
  \/ TcgStart \/ TcgStep \/ TcgWaitIo \/ TcgHaltWake \/ TcgRelock \/ AlarmFires
  \/ IoPoll \/ \E ev \in IoEvents : IoDispatch(ev)
  \/ IoCheck \/ IoPauseCheck \/ IoPauseWake
  \/ HDebug \/ HSuspend \/ HShutdown \/ HReset \/ HWakeup \/ HPowerdown \/ HVmstop

Spec == Init /\ [][Next]_vars

(* Both threads are scheduled by the host and each keeps stepping; g_poll *)
(* returns at least every 1000 ms (qemu_calculate_timeout), and the       *)
(* periodic alarm timer keeps firing. The I/O thread takes the global     *)
(* mutex through qemu_fair_mutex (qemu_signal_lock), which the TCG thread *)
(* passes in every qemu_wait_io_event, so it gets the mutex whenever it   *)
(* is released often enough: strong fairness. Monitor and device events   *)
(* are not assumed to happen.                                             *)
TcgThread == TcgStart \/ TcgStep \/ TcgWaitIo \/ TcgHaltWake \/ TcgRelock
IoThread ==
  \/ IoPoll \/ IoDispatch("none") \/ IoCheck \/ IoPauseCheck \/ IoPauseWake
  \/ HDebug \/ HSuspend \/ HShutdown \/ HReset \/ HWakeup \/ HPowerdown \/ HVmstop
FairSpec == Spec /\ WF_vars(TcgThread) /\ SF_vars(IoThread) /\ WF_vars(AlarmFires)

-----------------------------------------------------------------------------
TypeOK ==
  /\ runstate \in RunStates
  /\ stop \in [Cpus -> BOOLEAN] /\ stopped \in [Cpus -> BOOLEAN]
  /\ rq \in [reset : BOOLEAN, shutdown : BOOLEAN, powerdown : BOOLEAN, debug : BOOLEAN,
             suspend : BOOLEAN, wakeup : BOOLEAN, vmstop : {"none", "io-error"}]
  /\ suspended \in BOOLEAN /\ alarm \in BOOLEAN
  /\ next \in 0..NCpu /\ cur \in 1..NCpu
  /\ holder \in {"io", "tcg", "none"}
  /\ ran \in Cpus \cup {None} /\ held \in BOOLEAN

(* Guest code runs only while the run state is running and the I/O thread *)
(* has not paused the vCPUs without resuming them: the run-state check of  *)
(* tcg_cpu_exec and the stop/stopped handshake of pause_all_vcpus and      *)
(* qemu_wait_io_event must together cover every stop, suspend, reset and  *)
(* cont, in whatever order the two threads take the global mutex.          *)
GuestOnlyWhileRunning == ran /= None => runstate = "running" /\ ~held

(* Every change of the run state is one runstate_set allows               *)
(* (runstate_transitions_def), across stop and cont commands, guest       *)
(* shutdowns, debug and I/O-error stops, and resets of a shut-down VM.    *)
RunstateTransitionsValid ==
  [][runstate' /= runstate => <<runstate, runstate'>> \in Valid]_runstate


(* pause_all_vcpus returns: once the I/O thread starts waiting for every  *)
(* vCPU to stop (to stop, suspend, reset or wake the VM), the TCG thread  *)
(* eventually marks each of them stopped in qemu_wait_io_event.           *)
PauseReturns == iopc \in {"pausing", "pausesleep"} ~> iopc \notin {"pausing", "pausesleep"}

=============================================================================
