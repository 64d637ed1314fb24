---------------------------- MODULE KernelServices ----------------------------
(***************************************************************************)
(* Four small services of the kernel that share no state, checked in one   *)
(* run: the ring buffer, the real-time clock, the console log and the I/O  *)
(* port ranges.  A behaviour exercises one of them, chosen at the start,   *)
(* so the run has the sum of their states and not the product.             *)
(***************************************************************************)
EXTENDS Ring, Rtc, Console, IoRanges

VARIABLE service

services_vars == <<service, rvars, rtc_vars, console_vars, io_vars>>

ServicesInit ==
    /\ service \in {"ring", "rtc", "console", "io"}
    /\ ring_init /\ RtcInit /\ ConsoleInit /\ init_io
    /\ service # "ring" => ring = [i \in Index |-> NUL]

RingSteps ==
    service = "ring" /\ Next /\ UNCHANGED <<service, rtc_vars, console_vars, io_vars>>

RtcSteps ==
    service = "rtc" /\ RtcNext /\ UNCHANGED <<service, rvars, console_vars, io_vars>>

ConsoleSteps ==
    service = "console" /\ ConsoleNext /\ UNCHANGED <<service, rvars, rtc_vars, io_vars>>

IoSteps ==
    service = "io" /\ IoNext /\ UNCHANGED <<service, rvars, rtc_vars, console_vars>>

ServicesNext == RingSteps \/ RtcSteps \/ ConsoleSteps \/ IoSteps

ServicesSpec == ServicesInit /\ [][ServicesNext]_services_vars

-------------------------------------------------------------------------------
(* Constants of the run. *)
Time(h, m, s, d, n, y) == [hour |-> h, min |-> m, sec |-> s, mday |-> d, mon |-> n, year |-> y]

(* The hour about to pass midday, to pass one, and to pass the century. *)
TimesMC == {Time(11, 59, 59, 28, 1, 124), Time(12, 59, 58, 30, 5, 90), Time(23, 59, 59, 31, 11, 99)}
BadTimesMC == {Time(24, 0, 0, 1, 0, 100), Time(0, 60, 0, 1, 0, 100)}
AlarmsMC == {Time(0, 30, 0, 1, 0, 100), Time(12, 0, 59, 1, 0, 100), Time(21, 30, 30, 1, 0, 100)}

MessagesMC == {<<1, 9>>, <<2, 9, 3>>, <<4>>, <<5, 9, 6, 7, 9>>}

(* The four serial ports' registers. *)
Com(b) == [base |-> b, count |-> 8]
RangesMC == {Com(760), Com(1016), Com(744), Com(1000)}

(* Ranges that overlap from below, which no driver of the kernel asks for. *)
UnevenMC == {[base |-> 16, count |-> 8], [base |-> 12, count |-> 8]}
===============================================================================
