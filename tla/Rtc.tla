--------------------------------- MODULE Rtc ---------------------------------
(***************************************************************************)
(* The real-time clock (rtc.c) and the chip behind it, which goes on       *)
(* counting while the driver reads and writes its registers one by one.    *)
(* The chip is in the format the BIOS left: 12 or 24 hours, BCD or binary. *)
(***************************************************************************)
EXTENDS Integers, SequencesExt

CONSTANTS Times,      \* times the clock may show at start and be set to
          BadTimes,   \* times set_time must refuse
          Alarms,     \* the alarm: same records, only the time of day counts
          Rates,      \* arguments of RTC_IRQP_SET, bytes
          MaxCalls, MaxSeconds

ASSUME RtcAssumption ==
    /\ Times \subseteq [sec : 0 .. 59, min : 0 .. 59, hour : 0 .. 23,
                       mday : 1 .. 31, mon : 0 .. 11, year : 90 .. 189]
    /\ Alarms \subseteq [sec : 0 .. 59, min : 0 .. 59, hour : 0 .. 23,
                        mday : Int, mon : Int, year : Int]

VARIABLES regb,      \* register B, the set of its bits that are one
          rate,      \* the rate in register A
          uip,       \* update in progress, in register A
          clock,     \* the six time registers
          alarm,     \* the three alarm registers
          call,      \* the ioctl under way: where it is and its locals
          truth,     \* what the clock and the driver were told: time, alarm, enables, rate
          seen,      \* the times the clock showed during the call
          rtc_used

rtc_vars == <<regb, rate, uip, clock, alarm, call, truth, seen, rtc_used>>

Enables == {"AIE", "PIE", "UIE"}
TimeFields == <<"sec", "min", "hour", "mday", "mon", "year">>
AlarmFields == <<"sec", "min", "hour">>
Fields(al) == IF al THEN AlarmFields ELSE TimeFields
Midnight == [sec |-> 0, min |-> 0, hour |-> 0, mday |-> 1, mon |-> 0, year |-> 100]
Zero == [f \in {"sec", "min", "hour", "mday", "mon", "year"} |-> 0]

-------------------------------------------------------------------------------
(* The chip, by its data sheet: external.                                   *)

Hex(n, b) == IF "DM" \in b THEN n ELSE 16 * (n \div 10) + (n % 10)

Hour(h, b) ==
    IF "24H" \in b THEN Hex(h, b)
    ELSE LET m == ((h + 11) % 12) + 1
         IN Hex(m, b) + (IF h >= 12 THEN 128 ELSE 0)

(* The registers that show time t in the format of register B. *)
Shown(t, b) ==
    [sec |-> Hex(t.sec, b), min |-> Hex(t.min, b), hour |-> Hour(t.hour, b),
     mday |-> Hex(t.mday, b), mon |-> Hex(t.mon + 1, b), year |-> Hex(t.year % 100, b)]

ShownAlarm(t, b) ==
    [sec |-> Hex(t.sec, b), min |-> Hex(t.min, b), hour |-> Hour(t.hour, b)]

Days(t) == IF t.mon \in {3, 5, 8, 10} THEN 30
           ELSE IF t.mon # 1 THEN 31 ELSE IF t.year % 4 = 0 THEN 29 ELSE 28

NextSecond(t) ==
    CASE t.sec < 59 -> [t EXCEPT !.sec = @ + 1]
      [] t.sec = 59 /\ t.min < 59 -> [t EXCEPT !.sec = 0, !.min = @ + 1]
      [] t.sec = 59 /\ t.min = 59 /\ t.hour < 23 -> [t EXCEPT !.sec = 0, !.min = 0, !.hour = @ + 1]
      [] OTHER ->
            LET d == [t EXCEPT !.sec = 0, !.min = 0, !.hour = 0]
            IN IF t.mday < Days(t) THEN [d EXCEPT !.mday = @ + 1]
               ELSE IF t.mon < 11 THEN [d EXCEPT !.mday = 1, !.mon = @ + 1]
               ELSE [d EXCEPT !.mday = 1, !.mon = 0, !.year = @ + 1]

(* A second begins: UIP is on for a while and then the registers change.  It
   is on early enough for a driver that saw it off to set SET first, and SET
   stops the update. *)
UpdateStart ==
    /\ call.pc # "off"
    /\ "SET" \notin regb /\ ~uip /\ rtc_used.seconds < MaxSeconds
    /\ uip' = TRUE
    /\ UNCHANGED <<regb, rate, clock, alarm, call, truth, seen, rtc_used>>

UpdateEnd ==
    /\ uip /\ "SET" \notin regb /\ call.pc # "claim"
    /\ uip' = FALSE
    /\ rtc_used' = [rtc_used EXCEPT !.seconds = @ + 1]
    /\ truth' = [truth EXCEPT !.time = NextSecond(@)]
    /\ clock' = Shown(truth'.time, regb)
    /\ seen' = seen \cup {truth'.time}
    /\ UNCHANGED <<regb, rate, alarm, call>>

(* wr_b.  SET going high ends an update and clears UIE. *)
wr_b(data) ==
    /\ regb' = IF "SET" \in data /\ "SET" \notin regb THEN data \ {"UIE"} ELSE data
    /\ uip' = (uip /\ "SET" \notin data)

-------------------------------------------------------------------------------
(* The conversions of get_time and set_time.                                *)

bcd2bin(n) == (n \div 16) * 10 + (n % 16)
bin2bcd(n) == (n \div 10) * 16 + (n % 10)

(* From the registers to struct rtc_time: the PM flag comes off before the
   BCD conversion, midday and midnight are put right after it. *)
FromCmos(t, b) ==
    LET pm == "24H" \notin b /\ t.hour >= 128
        bin == [f \in DOMAIN t |->
                  LET n == IF f = "hour" /\ pm THEN t.hour - 128 ELSE t[f]
                  IN IF "DM" \in b THEN n ELSE bcd2bin(n)]
        hour == IF "24H" \in b THEN bin.hour
                ELSE IF pm /\ bin.hour < 12 THEN bin.hour + 12
                ELSE IF ~pm /\ bin.hour = 12 THEN 0 ELSE bin.hour
    IN [bin EXCEPT !.hour = hour, !.mon = @ - 1, !.year = IF @ < 90 THEN @ + 100 ELSE @]

Valid(t, al) ==
    /\ t.sec \in 0 .. 59 /\ t.min \in 0 .. 59 /\ t.hour \in 0 .. 23
    /\ al \/ (t.mday \in 1 .. 31 /\ t.mon \in 0 .. 11 /\ t.year \in 90 .. 189)

ToCmos(t, b) ==
    LET pm == "24H" \notin b /\ t.hour >= 12
        hour == IF "24H" \in b THEN t.hour
                ELSE IF t.hour > 12 THEN t.hour - 12
                ELSE IF t.hour = 0 THEN 12 ELSE t.hour
        rtc == [t EXCEPT !.hour = hour, !.mon = @ + 1, !.year = IF @ >= 100 THEN @ - 100 ELSE @]
        cmos == [f \in DOMAIN t |-> IF "DM" \in b THEN rtc[f] ELSE bin2bcd(rtc[f])]
    IN [cmos EXCEPT !.hour = IF pm THEN @ + 128 ELSE @]

-------------------------------------------------------------------------------
(* rtc_ioctl.  It runs with interrupts off, but not with the chip stopped:  *)
(* one step for each access to a register that the chip changes too.        *)

NoCall == [pc |-> "idle", op |-> "none", al |-> FALSE, i |-> 0, b |-> {},
           time |-> Zero, want |-> Zero]

MayCall == call.pc \in {"idle", "done"} /\ rtc_used.calls < MaxCalls

(* The call's locals: time is what goes to or comes from the registers, want
   the caller's struct rtc_time. *)
Begin(op, al, time, want) ==
    /\ MayCall
    /\ rtc_used' = [rtc_used EXCEPT !.calls = @ + 1]
    /\ call' = [NoCall EXCEPT !.pc = "spin", !.op = op, !.al = al, !.time = time, !.want = want]
    /\ seen' = {truth.time}
    /\ UNCHANGED <<regb, rate, uip, clock, alarm, truth>>

(* Power has been on before: the BIOS left a format, a time and any enable
   bits.  init_rtc clears UIE, AIE, PIE and DSE and keeps the rest. *)
init_rtc ==
    /\ call.pc = "off"
    /\ \E b \in SUBSET (Enables \cup {"DSE", "24H", "DM"}), t \in Times :
        /\ regb' = b \ (Enables \cup {"DSE"})
        /\ truth' = [truth EXCEPT !.time = t]
        /\ clock' = Shown(t, regb')
        /\ alarm' = ShownAlarm(truth.alarm, regb')
    /\ call' = NoCall
    /\ UNCHANGED <<rate, uip, seen, rtc_used>>

(* get_time up to its wait: the struct is zeroed. *)
get_time == \E al \in BOOLEAN : Begin("get", al, Zero, Zero)

(* set_time up to its wait; the time is converted by what register B says. *)
set_time ==
    \E al \in BOOLEAN : \E t \in IF al THEN Alarms ELSE Times :
        Valid(t, al) /\ Begin("set", al, ToCmos(t, regb), t)

(* -EINVAL *)
set_time_refused ==
    /\ MayCall
    /\ \E al \in BOOLEAN, t \in BadTimes : ~Valid(t, al)
    /\ rtc_used' = [rtc_used EXCEPT !.calls = @ + 1]
    /\ call' = NoCall
    /\ UNCHANGED <<regb, rate, uip, clock, alarm, truth, seen>>

(* spin(rd_a() & REG_A_UIP) *)
Spin ==
    /\ call.pc = "spin" /\ ~uip
    /\ call' = [call EXCEPT !.pc = "claim"]
    /\ UNCHANGED <<regb, rate, uip, clock, alarm, truth, seen, rtc_used>>

Claim_none ==
    /\ call.pc = "claim"
    /\ call' = [call EXCEPT !.pc = "access", !.b = regb, !.i = 1]
    /\ UNCHANGED <<regb, uip, rate, clock, alarm, truth, seen, rtc_used>>

(* "disable RTC updates" *)
Claim ==
    /\ call.pc = "claim"
    /\ call' = [call EXCEPT !.pc = "access", !.b = regb, !.i = 1]
    /\ wr_b(regb \cup {"SET"})
    /\ UNCHANGED <<rate, clock, alarm, truth, seen, rtc_used>>

(* One cmos_read, seconds first, or one cmos_write, seconds last. *)
Access ==
    /\ call.pc = "access" /\ call.i <= Len(Fields(call.al))
    /\ LET f == IF call.op = "get" THEN Fields(call.al)[call.i]
                ELSE Reverse(Fields(call.al))[call.i] IN
       IF call.op = "get"
       THEN /\ call' = [call EXCEPT !.i = @ + 1,
                                    !.time[f] = IF call.al THEN alarm[f] ELSE clock[f]]
            /\ UNCHANGED <<clock, alarm>>
       ELSE /\ call' = [call EXCEPT !.i = @ + 1]
            /\ clock' = IF call.al THEN clock ELSE [clock EXCEPT ![f] = call.time[f]]
            /\ alarm' = IF call.al THEN [alarm EXCEPT ![f] = call.time[f]] ELSE alarm
    /\ UNCHANGED <<regb, rate, uip, truth, seen, rtc_used>>

(* "re-enable updates", the conversion in get_time, and the return.  The
   chip shows from now on what was written. *)
Release ==
    /\ call.pc = "access" /\ call.i > Len(Fields(call.al))
    /\ wr_b(call.b \ {"SET"})
    /\ call' = [call EXCEPT !.pc = "done",
                            !.time = IF call.op = "get" THEN FromCmos(@, call.b) ELSE @]
    /\ truth' = CASE call.op = "get" -> truth
                  [] call.op = "set" /\ call.al -> [truth EXCEPT !.alarm = call.want]
                  [] OTHER -> [truth EXCEPT !.time = call.want]
    /\ UNCHANGED <<rate, clock, alarm, seen, rtc_used>>

set_mode(bit) == wr_b(regb \cup {bit})

clear_mode(bit) == wr_b(regb \ {bit})

ModeIoctl ==
    /\ MayCall
    /\ rtc_used' = [rtc_used EXCEPT !.calls = @ + 1]
    /\ \E bit \in Enables :
        \/ set_mode(bit) /\ truth' = [truth EXCEPT !.enables = @ \cup {bit}]
        \/ clear_mode(bit) /\ truth' = [truth EXCEPT !.enables = @ \ {bit}]
    /\ call' = NoCall
    /\ UNCHANGED <<rate, clock, alarm, seen>>

(* -EINVAL above 2 Hz and below 8192 Hz *)
set_rate(r) ==
    IF r \in 3 .. 15
    THEN rate' = r /\ truth' = [truth EXCEPT !.rate = r]
    ELSE UNCHANGED <<rate, truth>>

RateIoctl ==
    /\ MayCall
    /\ rtc_used' = [rtc_used EXCEPT !.calls = @ + 1]
    /\ \E r \in Rates : set_rate(r)
    /\ call' = NoCall
    /\ UNCHANGED <<regb, uip, clock, alarm, seen>>

RtcInit ==
    /\ regb = {} /\ rate = 6 /\ uip = FALSE
    /\ clock = Shown(Midnight, {}) /\ alarm = ShownAlarm(Midnight, {})
    /\ call = [NoCall EXCEPT !.pc = "off"]
    /\ truth = [time |-> Midnight, alarm |-> Midnight, enables |-> {}, rate |-> 6]
    /\ seen = {}
    /\ rtc_used = [calls |-> 0, seconds |-> 0]

RtcNext ==
    \/ init_rtc \/ UpdateStart \/ UpdateEnd
    \/ get_time \/ set_time \/ set_time_refused \/ Spin \/ Claim \/ Access \/ Release
    \/ ModeIoctl \/ RateIoctl

-------------------------------------------------------------------------------
OfDay(t) == <<t.sec, t.min, t.hour>>

(* Whatever the format the BIOS left and however the chip's updates fall
   between the accesses of get_time and set_time: the registers show the last
   time and alarm that were set, advanced by the chip alone; a time that was
   read is one the clock really showed during the call, never the seconds of
   one minute with the minute of the next; and after a call the clock runs and
   the interrupt enables and the rate are what the caller last asked for,
   though SET, which the call sets and clears, also clears UIE. *)
TimeKept ==
    /\ call.pc \in {"idle", "done", "spin", "claim"} =>
        /\ clock = Shown(truth.time, regb)
        /\ alarm = ShownAlarm(truth.alarm, regb)
        /\ "SET" \notin regb
        /\ regb \cap Enables = truth.enables
        /\ rate = truth.rate
    /\ (call.pc = "done" /\ call.op = "get") =>
        IF call.al THEN OfDay(call.time) = OfDay(truth.alarm) ELSE call.time \in seen
===============================================================================
