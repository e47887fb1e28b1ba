---------------------------- MODULE MC_QemuTimer ----------------------------
(* Time in ns with 1 ns per us and 2 us per ms, so rt_clock's ms reading   *)
(* truncates; the display refreshes every 2 ms. The PM timer counts 2 ticks *)
(* per 3 ns and overflows every 2 ticks. Three timers: two on vm_clock,    *)
(* one on rt_clock.                                                        *)
EXTENDS QemuTimer
====
