---------------------------- MODULE ServicesProofs ----------------------------
(***************************************************************************)
(* Theorems about three of the kernel's services, for every value of their *)
(* constants: the real-time clock (Rtc) keeps the time that was set, the   *)
(* console log (Console) loses nothing between messages, and the reserved  *)
(* I/O ranges (IoRanges) stay disjoint.                                    *)
(***************************************************************************)
EXTENDS KernelServices, SequenceTheorems, FiniteSetTheorems, TLAPS

-------------------------------------------------------------------------------
(* The real-time clock: the conversions.                                    *)

(* A struct rtc_time whose fields are any numbers; the time registers and   *)
(* the alarm registers; a time the chip can count; a time of day.           *)
Registers == [sec : Int, min : Int, hour : Int, mday : Int, mon : Int, year : Int]
AlarmRegisters == [sec : Int, min : Int, hour : Int]
ClockTime == [sec : 0 .. 59, min : 0 .. 59, hour : 0 .. 23,
              mday : 1 .. 31, mon : 0 .. 11, year : {y \in Int : y >= 90}]
DayTime == [sec : 0 .. 59, min : 0 .. 59, hour : 0 .. 23, mday : Int, mon : Int, year : Int]

(* Two values of register B with the same format bits. *)
SameFormat(b, c) == ("DM" \in b <=> "DM" \in c) /\ ("24H" \in b <=> "24H" \in c)

LEMMA HexBack ==
    ASSUME NEW n \in 0 .. 99, NEW b
    PROVE  /\ Hex(n, b) \in 0 .. 153
           /\ "DM" \notin b => bcd2bin(Hex(n, b)) = n
           /\ "DM" \in b => Hex(n, b) = n
           /\ n < 80 => Hex(n, b) < 128
  BY DEF bcd2bin, Hex

LEMMA HexIsBcd ==
    ASSUME NEW n \in Int, NEW b
    PROVE  Hex(n, b) = IF "DM" \in b THEN n ELSE bin2bcd(n)
  BY DEF bin2bcd, Hex

LEMMA HexInt ==
    ASSUME NEW n \in Int, NEW b
    PROVE  Hex(n, b) \in Int /\ bcd2bin(n) \in Int /\ bin2bcd(n) \in Int
  BY DEF bin2bcd, Hex, bcd2bin

(* The format is all the conversions look at in register B. *)
LEMMA FormatOnly ==
    ASSUME NEW b, NEW c, SameFormat(b, c)
    PROVE  /\ \A t : Shown(t, b) = Shown(t, c)
           /\ \A t : ShownAlarm(t, b) = ShownAlarm(t, c)
  <1>1. \A n : Hex(n, b) = Hex(n, c)
    BY DEF Hex, SameFormat
  <1>2. \A n : Hour(n, b) = Hour(n, c)
    BY <1>1 DEF Hour, SameFormat
  <1> QED
    BY <1>1, <1>2 DEF Shown, ShownAlarm

(* What the chip shows has the shape of the registers. *)
LEMMA ShownShape ==
    ASSUME NEW t \in ClockTime, NEW d \in DayTime, NEW b
    PROVE  Shown(t, b) \in Registers /\ ShownAlarm(d, b) \in AlarmRegisters
  <1>1. \A h \in Int : Hour(h, b) \in Int
    <2> TAKE h \in Int
    <2>1. ((h + 11) % 12) + 1 \in Int
      OBVIOUS
    <2> QED
      BY <2>1, HexInt DEF Hour
  <1>2. /\ t.sec \in Int /\ t.min \in Int /\ t.hour \in Int /\ t.mday \in Int
        /\ t.mon + 1 \in Int /\ t.year % 100 \in Int
        /\ d.sec \in Int /\ d.min \in Int /\ d.hour \in Int
    BY DEF ClockTime, DayTime
  <1>3. /\ Hex(t.sec, b) \in Int /\ Hex(t.min, b) \in Int /\ Hex(t.mday, b) \in Int
        /\ Hex(t.mon + 1, b) \in Int /\ Hex(t.year % 100, b) \in Int
        /\ Hex(d.sec, b) \in Int /\ Hex(d.min, b) \in Int
        /\ Hour(t.hour, b) \in Int /\ Hour(d.hour, b) \in Int
    BY <1>1, <1>2, HexInt
  <1> QED
    BY <1>3 DEF Shown, ShownAlarm, Registers, AlarmRegisters

(* The twelve-hour clock in both directions. *)
LEMMA HourBack ==
    ASSUME NEW h \in 0 .. 23, NEW b
    PROVE  /\ "24H" \in b => Hour(h, b) = Hex(h, b)
           /\ "24H" \notin b =>
                \E m \in 1 .. 12 :
                   /\ Hour(h, b) = Hex(m, b) + (IF h >= 12 THEN 128 ELSE 0)
                   /\ m = IF h > 12 THEN h - 12 ELSE IF h = 0 THEN 12 ELSE h
                   /\ h = IF h >= 12 /\ m < 12 THEN m + 12
                          ELSE IF h < 12 /\ m = 12 THEN 0 ELSE m
  <1>1. /\ ((h + 11) % 12) + 1 \in 1 .. 12
        /\ ((h + 11) % 12) + 1 = IF h > 12 THEN h - 12 ELSE IF h = 0 THEN 12 ELSE h
    OBVIOUS
  <1> QED
    BY <1>1 DEF Hour

(* The hour get_time finds in its register. *)
LEMMA HourRead ==
    ASSUME NEW h \in 0 .. 23, NEW b, NEW r, r = Hour(h, b)
    PROVE  LET pm == "24H" \notin b /\ r >= 128
               n == IF pm THEN r - 128 ELSE r
               bin == IF "DM" \in b THEN n ELSE bcd2bin(n)
           IN  h = IF "24H" \in b THEN bin
                   ELSE IF pm /\ bin < 12 THEN bin + 12
                   ELSE IF ~pm /\ bin = 12 THEN 0 ELSE bin
  <1>1. CASE "24H" \in b
    BY <1>1, HourBack, HexBack
  <1>2. CASE "24H" \notin b
    <2>1. PICK m \in 1 .. 12 :
             /\ Hour(h, b) = Hex(m, b) + (IF h >= 12 THEN 128 ELSE 0)
             /\ h = IF h >= 12 /\ m < 12 THEN m + 12
                    ELSE IF h < 12 /\ m = 12 THEN 0 ELSE m
      BY <1>2, HourBack
    <2>2. /\ Hex(m, b) \in 0 .. 127
          /\ "DM" \notin b => bcd2bin(Hex(m, b)) = m
          /\ "DM" \in b => Hex(m, b) = m
      <3>1. m \in 0 .. 99 /\ m < 80
        OBVIOUS
      <3>2. /\ Hex(m, b) \in 0 .. 153 /\ Hex(m, b) < 128
            /\ "DM" \notin b => bcd2bin(Hex(m, b)) = m
            /\ "DM" \in b => Hex(m, b) = m
        BY <3>1, HexBack, Zenon
      <3> QED
        BY <3>2
    <2>3. r >= 128 <=> h >= 12
      BY <2>1, <2>2
    <2>4. Hex(m, b) = IF r >= 128 THEN r - 128 ELSE r
      BY <2>1, <2>2, <2>3
    <2> QED
      BY <1>2, <2>1, <2>2, <2>3, <2>4
  <1> QED
    BY <1>1, <1>2

(* get_time reads back the time of day the registers show ... *)
LEMMA DayReadBack ==
    ASSUME NEW r \in Registers, NEW d \in DayTime, NEW b,
           r.sec = Hex(d.sec, b), r.min = Hex(d.min, b), r.hour = Hour(d.hour, b)
    PROVE  OfDay(FromCmos(r, b)) = OfDay(d)
  <1> DEFINE pm == "24H" \notin b /\ r.hour >= 128
             N(f) == IF f = "hour" /\ pm THEN r.hour - 128 ELSE r[f]
             bin == [f \in DOMAIN r |-> IF "DM" \in b THEN N(f) ELSE bcd2bin(N(f))]
             hour == IF "24H" \in b THEN bin.hour
                     ELSE IF pm /\ bin.hour < 12 THEN bin.hour + 12
                     ELSE IF ~pm /\ bin.hour = 12 THEN 0 ELSE bin.hour
  <1>1. DOMAIN r = {"sec", "min", "hour", "mday", "mon", "year"}
    BY DEF Registers
  <1>2. d.sec \in 0 .. 59 /\ d.min \in 0 .. 59 /\ d.hour \in 0 .. 23
    BY DEF DayTime
  <1>3. bin.sec = d.sec /\ bin.min = d.min
    <2>1. \A f \in {"sec", "min"} : bin[f] = IF "DM" \in b THEN r[f] ELSE bcd2bin(r[f])
      BY <1>1
    <2> HIDE DEF bin
    <2> QED
      BY <1>2, <2>1, HexBack
  <1>4. bin.hour = IF "DM" \in b THEN N("hour") ELSE bcd2bin(N("hour"))
    BY <1>1
  <1>5. hour = d.hour
    BY <1>2, <1>4, HourRead
  <1>6. FromCmos(r, b) = [bin EXCEPT !.hour = hour, !.mon = @ - 1, !.year = IF @ < 90 THEN @ + 100 ELSE @]
    BY DEF FromCmos
  <1> HIDE DEF bin, hour
  <1>7. DOMAIN bin = {"sec", "min", "hour", "mday", "mon", "year"}
    BY <1>1 DEF bin
  <1>8. /\ FromCmos(r, b).sec = bin.sec /\ FromCmos(r, b).min = bin.min
        /\ FromCmos(r, b).hour = hour
    BY <1>6, <1>7
  <1> QED
    BY <1>3, <1>5, <1>8 DEF OfDay

(* ... and the whole time, until the two digits of the year repeat. *)
LEMMA TimeReadBack ==
    ASSUME NEW t \in ClockTime, NEW b, t.year < 190
    PROVE  FromCmos(Shown(t, b), b) = t
  <1> DEFINE r == Shown(t, b)
             pm == "24H" \notin b /\ r.hour >= 128
             N(f) == IF f = "hour" /\ pm THEN r.hour - 128 ELSE r[f]
             bin == [f \in DOMAIN r |-> IF "DM" \in b THEN N(f) ELSE bcd2bin(N(f))]
             hour == IF "24H" \in b THEN bin.hour
                     ELSE IF pm /\ bin.hour < 12 THEN bin.hour + 12
                     ELSE IF ~pm /\ bin.hour = 12 THEN 0 ELSE bin.hour
  <1>1. DOMAIN r = {"sec", "min", "hour", "mday", "mon", "year"}
    BY DEF Shown
  <1>2. /\ t.sec \in 0 .. 59 /\ t.min \in 0 .. 59 /\ t.hour \in 0 .. 23
        /\ t.mday \in 1 .. 31 /\ t.mon \in 0 .. 11 /\ t.year \in 90 .. 189
        /\ t.mon + 1 \in 0 .. 99 /\ t.year % 100 \in 0 .. 99
    BY DEF ClockTime
  <1>3. /\ r.sec = Hex(t.sec, b) /\ r.min = Hex(t.min, b) /\ r.hour = Hour(t.hour, b)
        /\ r.mday = Hex(t.mday, b) /\ r.mon = Hex(t.mon + 1, b) /\ r.year = Hex(t.year % 100, b)
    BY DEF Shown
  <1>4. /\ bin.sec = t.sec /\ bin.min = t.min /\ bin.mday = t.mday
        /\ bin.mon = t.mon + 1 /\ bin.year = t.year % 100
    <2>1. \A f \in {"sec", "min", "mday", "mon", "year"} :
            bin[f] = IF "DM" \in b THEN r[f] ELSE bcd2bin(r[f])
      BY <1>1
    <2> HIDE DEF bin, r
    <2>2. bin.sec = t.sec /\ bin.min = t.min /\ bin.mday = t.mday
      BY <1>2, <1>3, <2>1, HexBack
    <2>3. bin.mon = t.mon + 1 /\ bin.year = t.year % 100
      BY <1>2, <1>3, <2>1, HexBack
    <2> QED
      BY <2>2, <2>3
  <1>5. bin.hour = IF "DM" \in b THEN N("hour") ELSE bcd2bin(N("hour"))
    BY <1>1
  <1>6. hour = t.hour
    BY <1>2, <1>3, <1>5, HourRead
  <1>7. FromCmos(r, b) = [bin EXCEPT !.hour = hour, !.mon = @ - 1, !.year = IF @ < 90 THEN @ + 100 ELSE @]
    BY DEF FromCmos
  <1>8. t.year = IF t.year % 100 < 90 THEN (t.year % 100) + 100 ELSE t.year % 100
    BY <1>2
  <1>9. DOMAIN bin = {"sec", "min", "hour", "mday", "mon", "year"}
    BY <1>1
  <1> HIDE DEF bin, hour, r
  <1>10. /\ FromCmos(r, b).sec = t.sec /\ FromCmos(r, b).min = t.min
         /\ FromCmos(r, b).hour = t.hour /\ FromCmos(r, b).mday = t.mday
         /\ FromCmos(r, b).mon = t.mon /\ FromCmos(r, b).year = t.year
         /\ DOMAIN FromCmos(r, b) = {"sec", "min", "hour", "mday", "mon", "year"}
         /\ FromCmos(r, b) = [f \in DOMAIN FromCmos(r, b) |-> FromCmos(r, b)[f]]
    <2>1. bin.mon - 1 = t.mon /\ t.year = IF bin.year < 90 THEN bin.year + 100 ELSE bin.year
      BY <1>2, <1>4, <1>8
    <2>2. FromCmos(r, b) = [bin EXCEPT !.hour = t.hour, !.mon = t.mon, !.year = t.year]
      BY <1>6, <1>7, <1>9, <2>1, ZenonT(60)
    <2> QED
      BY <1>4, <1>9, <2>2
  <1>11. /\ DOMAIN t = {"sec", "min", "hour", "mday", "mon", "year"}
         /\ t = [f \in DOMAIN t |-> t[f]]
    BY DEF ClockTime
  <1> QED
    BY <1>10, <1>11 DEF r

(* set_time writes what the chip shows for the same time. *)
LEMMA HourWritten ==
    ASSUME NEW h \in 0 .. 23, NEW b
    PROVE  LET n == IF "24H" \in b THEN h
                    ELSE IF h > 12 THEN h - 12 ELSE IF h = 0 THEN 12 ELSE h
               c == IF "DM" \in b THEN n ELSE bin2bcd(n)
           IN  Hour(h, b) = IF "24H" \notin b /\ h >= 12 THEN c + 128 ELSE c
  <1>1. CASE "24H" \in b
    BY <1>1, HourBack, HexIsBcd
  <1>2. CASE "24H" \notin b
    <2>1. PICK m \in 1 .. 12 :
             /\ Hour(h, b) = Hex(m, b) + (IF h >= 12 THEN 128 ELSE 0)
             /\ m = IF h > 12 THEN h - 12 ELSE IF h = 0 THEN 12 ELSE h
      BY <1>2, HourBack
    <2>2. Hex(m, b) = (IF "DM" \in b THEN m ELSE bin2bcd(m)) /\ Hex(m, b) \in Int
      BY HexIsBcd, HexInt
    <2> QED
      BY <1>2, <2>1, <2>2
  <1> QED
    BY <1>1, <1>2

LEMMA Written ==
    ASSUME NEW t \in DayTime, NEW b
    PROVE  /\ ToCmos(t, b) \in Registers
           /\ ToCmos(t, b).sec = Hex(t.sec, b) /\ ToCmos(t, b).min = Hex(t.min, b)
           /\ ToCmos(t, b).hour = Hour(t.hour, b)
           /\ t.year \in 90 .. 189 => ToCmos(t, b) = Shown(t, b)
  <1> DEFINE pm == "24H" \notin b /\ t.hour >= 12
             hour == IF "24H" \in b THEN t.hour
                     ELSE IF t.hour > 12 THEN t.hour - 12
                     ELSE IF t.hour = 0 THEN 12 ELSE t.hour
             rtc == [t EXCEPT !.hour = hour, !.mon = @ + 1, !.year = IF @ >= 100 THEN @ - 100 ELSE @]
             C(n) == IF "DM" \in b THEN n ELSE bin2bcd(n)
             cmos == [f \in DOMAIN t |-> C(rtc[f])]
  <1>1. DOMAIN t = {"sec", "min", "hour", "mday", "mon", "year"}
    BY DEF DayTime
  <1>2. /\ t.sec \in Int /\ t.min \in Int /\ t.hour \in 0 .. 23
        /\ t.mday \in Int /\ t.mon \in Int /\ t.year \in Int
    BY DEF DayTime
  <1>3. \A n \in Int : C(n) = Hex(n, b) /\ C(n) \in Int
    BY HexIsBcd, HexInt
  <1>4. hour \in Int /\ Hour(t.hour, b) = IF pm THEN C(hour) + 128 ELSE C(hour)
    BY <1>2, HourWritten
  <1>5. ToCmos(t, b) = [cmos EXCEPT !.hour = IF pm THEN @ + 128 ELSE @]
    BY DEF ToCmos
  <1> HIDE DEF pm, hour, C
  <1>6. /\ rtc.sec = t.sec /\ rtc.min = t.min /\ rtc.hour = hour /\ rtc.mday = t.mday
        /\ rtc.mon = t.mon + 1 /\ rtc.year = IF t.year >= 100 THEN t.year - 100 ELSE t.year
    BY <1>1
  <1> HIDE DEF rtc
  <1>7. /\ DOMAIN cmos = {"sec", "min", "hour", "mday", "mon", "year"}
        /\ cmos.sec = C(t.sec) /\ cmos.min = C(t.min) /\ cmos.hour = C(hour)
        /\ cmos.mday = C(t.mday) /\ cmos.mon = C(t.mon + 1)
        /\ cmos.year = C(IF t.year >= 100 THEN t.year - 100 ELSE t.year)
    BY <1>1, <1>6
  <1> HIDE DEF cmos
  <1> DEFINE r == ToCmos(t, b)
  <1>8. /\ DOMAIN r = {"sec", "min", "hour", "mday", "mon", "year"}
        /\ r = [f \in DOMAIN r |-> r[f]]
        /\ r.sec = C(t.sec) /\ r.min = C(t.min) /\ r.hour = Hour(t.hour, b)
        /\ r.mday = C(t.mday) /\ r.mon = C(t.mon + 1)
        /\ r.year = C(IF t.year >= 100 THEN t.year - 100 ELSE t.year)
    BY <1>4, <1>5, <1>7
  <1> HIDE DEF r
  <1>9. Hour(t.hour, b) \in Int /\ t.mon + 1 \in Int
        /\ (IF t.year >= 100 THEN t.year - 100 ELSE t.year) \in Int
    BY <1>2, <1>3, <1>4
  <1>10. r \in Registers
    <2>1. /\ r.sec \in Int /\ r.min \in Int /\ r.hour \in Int
          /\ r.mday \in Int /\ r.mon \in Int /\ r.year \in Int
      BY <1>2, <1>3, <1>8, <1>9
    <2> QED
      BY <1>8, <2>1 DEF Registers
  <1>11. ASSUME t.year \in 90 .. 189 PROVE r = Shown(t, b)
    <2>1. t.year % 100 = IF t.year >= 100 THEN t.year - 100 ELSE t.year
      BY <1>11
    <2>2. /\ r.sec = Hex(t.sec, b) /\ r.min = Hex(t.min, b) /\ r.mday = Hex(t.mday, b)
          /\ r.mon = Hex(t.mon + 1, b) /\ r.year = Hex(t.year % 100, b)
      BY <1>2, <1>3, <1>8, <1>9, <2>1
    <2> QED
      BY <1>8, <2>2 DEF Shown
  <1> QED
    BY <1>2, <1>3, <1>8, <1>10, <1>11 DEF r

-------------------------------------------------------------------------------
(* The real-time clock: the invariant.                                      *)

Bits == Enables \cup {"DSE", "24H", "DM", "SET"}
SetTime == [sec : 0 .. 59, min : 0 .. 59, hour : 0 .. 23,
            mday : 1 .. 31, mon : 0 .. 11, year : 90 .. 189]

CallRecord ==
    [pc : {"off", "idle", "spin", "claim", "access", "done"}, op : {"none", "get", "set"},
     al : BOOLEAN, i : Int, b : SUBSET Bits, time : Registers, want : Registers]
TruthRecord == [time : ClockTime, alarm : DayTime, enables : SUBSET Enables, rate : Int]

RtcTypes ==
    /\ regb \in SUBSET Bits /\ clock \in Registers /\ alarm \in AlarmRegisters
    /\ truth \in TruthRecord
    /\ call \in CallRecord
    /\ rate = truth.rate

(* The registers show what they should in the format of b. *)
Shows(b) == clock = Shown(truth.time, b) /\ alarm = ShownAlarm(truth.alarm, b)

(* set_time has the caller's time ready in the format of b. *)
Converted(b) ==
    /\ call.want \in DayTime
    /\ call.time.sec = Hex(call.want.sec, b) /\ call.time.min = Hex(call.want.min, b)
    /\ call.time.hour = Hour(call.want.hour, b)
    /\ ~call.al => call.want \in SetTime /\ call.time = Shown(call.want, b)

(* The registers copied before access i: seconds first in get_time, last in *)
(* set_time.                                                                *)
DayRead(t, r, i) ==
    (i > 1 => t.sec = r.sec) /\ (i > 2 => t.min = r.min) /\ (i > 3 => t.hour = r.hour)
TimeRead(t, r, i) ==
    /\ DayRead(t, r, i)
    /\ (i > 4 => t.mday = r.mday) /\ (i > 5 => t.mon = r.mon) /\ (i > 6 => t.year = r.year)
DayWritten(r, t, i) ==
    (i > 1 => r.hour = t.hour) /\ (i > 2 => r.min = t.min) /\ (i > 3 => r.sec = t.sec)
TimeWritten(r, t, i) ==
    /\ (i > 1 => r.year = t.year) /\ (i > 2 => r.mon = t.mon) /\ (i > 3 => r.mday = t.mday)
    /\ (i > 4 => r.hour = t.hour) /\ (i > 5 => r.min = t.min) /\ (i > 6 => r.sec = t.sec)

(* The clock runs ... *)
Running ==
    /\ call.pc # "access" =>
          Shows(regb) /\ "SET" \notin regb /\ regb \cap Enables = truth.enables
    /\ call.pc = "off" => truth.enables = {}

(* ... or a call has stopped it and remembers register B. *)
Halted ==
    call.pc = "access" =>
        /\ call.op # "none" /\ call.i >= 1
        /\ "SET" \in regb /\ "SET" \notin call.b /\ call.b \cap Enables = truth.enables
        /\ call.op = "get" =>
              /\ Shows(call.b)
              /\ call.al => DayRead(call.time, alarm, call.i)
              /\ ~call.al => TimeRead(call.time, clock, call.i)
        /\ call.op = "set" =>
              /\ Converted(call.b)
              /\ call.al => clock = Shown(truth.time, call.b) /\ DayWritten(alarm, call.time, call.i)
              /\ ~call.al => /\ alarm = ShownAlarm(truth.alarm, call.b)
                             /\ TimeWritten(clock, call.time, call.i)

Waiting ==
    /\ call.pc \in {"spin", "claim"} => call.op # "none" /\ (call.op = "set" => Converted(regb))
    /\ call.pc \in {"spin", "claim", "access"} => truth.time \in seen

Result ==
    (call.pc = "done" /\ call.op = "get") =>
        IF call.al THEN OfDay(call.time) = OfDay(truth.alarm) ELSE call.time \in seen

RtcInv == RtcTypes /\ Running /\ Halted /\ Waiting /\ Result

(* The years whose last two digits the driver tells apart. *)
Before2090 == truth.time.year < 190

LEMMA TimeSets ==
    /\ SetTime \subseteq ClockTime /\ SetTime \subseteq DayTime
    /\ ClockTime \subseteq Registers /\ DayTime \subseteq Registers
    /\ Midnight \in ClockTime /\ Midnight \in DayTime /\ Zero \in Registers
    /\ Times \subseteq SetTime /\ Alarms \subseteq DayTime
  <1>1. SetTime \subseteq ClockTime /\ SetTime \subseteq DayTime
    BY DEF SetTime, ClockTime, DayTime
  <1>2. ClockTime \subseteq Registers /\ DayTime \subseteq Registers
    BY DEF Registers, ClockTime, DayTime
  <1>3. Midnight \in ClockTime /\ Midnight \in DayTime
    BY DEF Midnight, ClockTime, DayTime
  <1>4. Zero \in Registers
    BY DEF Zero, Registers
  <1>5. Times \subseteq SetTime /\ Alarms \subseteq DayTime
    BY RtcAssumption DEF SetTime, DayTime
  <1> QED
    BY <1>1, <1>2, <1>3, <1>4, <1>5

LEMMA SecondPasses ==
    ASSUME NEW t \in ClockTime
    PROVE  NextSecond(t) \in ClockTime
  <1>1. /\ DOMAIN t = {"sec", "min", "hour", "mday", "mon", "year"}
        /\ t = [f \in DOMAIN t |-> t[f]]
        /\ t.sec \in 0 .. 59 /\ t.min \in 0 .. 59 /\ t.hour \in 0 .. 23
        /\ t.mday \in 1 .. 31 /\ t.mon \in 0 .. 11 /\ t.year \in Int /\ t.year >= 90
    BY DEF ClockTime
  <1>2. Days(t) <= 31 /\ Days(t) \in Int
    BY DEF Days
  <1>3. ASSUME t.sec < 59 PROVE [t EXCEPT !.sec = @ + 1] \in ClockTime
    BY <1>1, <1>3 DEF ClockTime
  <1>4. ASSUME t.min < 59 PROVE [t EXCEPT !.sec = 0, !.min = @ + 1] \in ClockTime
    <2>1. PICK u : u = [t EXCEPT !.sec = 0, !.min = @ + 1]
      OBVIOUS
    <2>2. /\ DOMAIN u = {"sec", "min", "hour", "mday", "mon", "year"}
          /\ u = [f \in DOMAIN u |-> u[f]]
          /\ u.sec = 0 /\ u.min = t.min + 1 /\ u.hour = t.hour
          /\ u.mday = t.mday /\ u.mon = t.mon /\ u.year = t.year
      BY <1>1, <2>1
    <2>3. u \in ClockTime
      BY <1>1, <2>2, <1>4 DEF ClockTime
    <2> QED
      BY <2>1, <2>3
  <1>5. ASSUME t.hour < 23 PROVE [t EXCEPT !.sec = 0, !.min = 0, !.hour = @ + 1] \in ClockTime
    <2>1. PICK u : u = [t EXCEPT !.sec = 0, !.min = 0, !.hour = @ + 1]
      OBVIOUS
    <2>2. /\ DOMAIN u = {"sec", "min", "hour", "mday", "mon", "year"}
          /\ u = [f \in DOMAIN u |-> u[f]]
          /\ u.sec = 0 /\ u.min = 0 /\ u.hour = t.hour + 1
          /\ u.mday = t.mday /\ u.mon = t.mon /\ u.year = t.year
      BY <1>1, <2>1
    <2>3. u \in ClockTime
      BY <1>1, <2>2, <1>5 DEF ClockTime
    <2> QED
      BY <2>1, <2>3
  <1> DEFINE d == [t EXCEPT !.sec = 0, !.min = 0, !.hour = 0]
  <1>6. /\ DOMAIN d = {"sec", "min", "hour", "mday", "mon", "year"}
        /\ d = [f \in DOMAIN d |-> d[f]]
        /\ d.sec = 0 /\ d.min = 0 /\ d.hour = 0
        /\ d.mday = t.mday /\ d.mon = t.mon /\ d.year = t.year
    BY <1>1
  <1> HIDE DEF d
  <1>7. ASSUME t.mday < Days(t) PROVE [d EXCEPT !.mday = @ + 1] \in ClockTime
    BY <1>1, <1>2, <1>6, <1>7 DEF ClockTime
  <1>8. ASSUME t.mon < 11 PROVE [d EXCEPT !.mday = 1, !.mon = @ + 1] \in ClockTime
    <2>1. PICK u : u = [d EXCEPT !.mday = 1, !.mon = @ + 1]
      OBVIOUS
    <2>2. /\ DOMAIN u = {"sec", "min", "hour", "mday", "mon", "year"}
          /\ u = [f \in DOMAIN u |-> u[f]]
          /\ u.sec = 0 /\ u.min = 0 /\ u.hour = 0
          /\ u.mday = 1 /\ u.mon = t.mon + 1 /\ u.year = t.year
      BY <1>1, <1>6, <2>1
    <2>3. u \in ClockTime
      BY <1>1, <2>2, <1>8 DEF ClockTime
    <2> QED
      BY <2>1, <2>3
  <1>9. [d EXCEPT !.mday = 1, !.mon = 0, !.year = @ + 1] \in ClockTime
    <2>1. PICK u : u = [d EXCEPT !.mday = 1, !.mon = 0, !.year = @ + 1]
      OBVIOUS
    <2>2. /\ DOMAIN u = {"sec", "min", "hour", "mday", "mon", "year"}
          /\ u = [f \in DOMAIN u |-> u[f]]
          /\ u.sec = 0 /\ u.min = 0 /\ u.hour = 0
          /\ u.mday = 1 /\ u.mon = 0 /\ u.year = t.year + 1
      BY <1>1, <1>6, <2>1
    <2>3. u \in ClockTime
      BY <1>1, <2>2 DEF ClockTime
    <2> QED
      BY <2>1, <2>3
  <1> QED
    BY <1>1, <1>3, <1>4, <1>5, <1>7, <1>8, <1>9 DEF NextSecond, d

LEMMA RtcStarts == RtcInit => RtcInv
  <1> SUFFICES ASSUME RtcInit PROVE RtcInv
    OBVIOUS
  <1> USE TimeSets
  <1>1. /\ regb = {} /\ rate = 6
        /\ truth = [time |-> Midnight, alarm |-> Midnight, enables |-> {}, rate |-> 6]
        /\ call = [NoCall EXCEPT !.pc = "off"]
        /\ clock = Shown(Midnight, {}) /\ alarm = ShownAlarm(Midnight, {})
    BY DEF RtcInit
  <1>2. call = [pc |-> "off", op |-> "none", al |-> FALSE, i |-> 0, b |-> {},
                time |-> Zero, want |-> Zero]
    BY <1>1 DEF NoCall
  <1>3. RtcTypes
    <2>1. clock \in Registers /\ alarm \in AlarmRegisters
      BY <1>1, ShownShape
    <2>2. call \in CallRecord
      BY <1>2 DEF CallRecord
    <2>3. truth \in TruthRecord /\ rate = truth.rate /\ regb \in SUBSET Bits
      BY <1>1 DEF TruthRecord
    <2> QED
      BY <2>1, <2>2, <2>3 DEF RtcTypes
  <1>4. Running /\ Halted /\ Waiting /\ Result
    BY <1>1, <1>2 DEF Running, Halted, Waiting, Result, Shows
  <1> QED
    BY <1>3, <1>4 DEF RtcInv

(* The fields of the records are there, and EXCEPT changes the named ones. *)
LEMMA CallFields ==
    ASSUME NEW c \in CallRecord
    PROVE  /\ c.pc \in {"off", "idle", "spin", "claim", "access", "done"}
           /\ c.op \in {"none", "get", "set"} /\ c.al \in BOOLEAN /\ c.i \in Int
           /\ c.b \in SUBSET Bits /\ c.time \in Registers /\ c.want \in Registers
           /\ DOMAIN c = {"pc", "op", "al", "i", "b", "time", "want"}
           /\ c = [f \in DOMAIN c |-> c[f]]
  BY DEF CallRecord

LEMMA CallMade ==
    ASSUME NEW c,
           c.pc \in {"off", "idle", "spin", "claim", "access", "done"},
           c.op \in {"none", "get", "set"}, c.al \in BOOLEAN, c.i \in Int,
           c.b \in SUBSET Bits, c.time \in Registers, c.want \in Registers,
           DOMAIN c = {"pc", "op", "al", "i", "b", "time", "want"},
           c = [f \in DOMAIN c |-> c[f]]
    PROVE  c \in CallRecord
  BY DEF CallRecord

LEMMA NoCallRecord == NoCall \in CallRecord /\ NoCall.pc = "idle"
  BY TimeSets DEF NoCall, CallRecord

Spinning(op, al, time, want) ==
    [NoCall EXCEPT !.pc = "spin", !.op = op, !.al = al, !.time = time, !.want = want]

LEMMA NewCall ==
    ASSUME NEW op \in {"get", "set"}, NEW al \in BOOLEAN,
           NEW time \in Registers, NEW want \in Registers
    PROVE  LET c == Spinning(op, al, time, want)
           IN  /\ c \in CallRecord
               /\ c.pc = "spin" /\ c.op = op /\ c.al = al /\ c.time = time /\ c.want = want
  <1> DEFINE d == [pc |-> "spin", op |-> op, al |-> al, i |-> 0, b |-> {},
                   time |-> time, want |-> want]
  <1>1. PICK c : c = Spinning(op, al, time, want)
    OBVIOUS
  <1>2. /\ DOMAIN c = DOMAIN d /\ c = [f \in DOMAIN c |-> c[f]]
        /\ \A f \in DOMAIN d : c[f] = d[f]
    BY <1>1 DEF NoCall, Spinning
  <1>3. c = d
    BY <1>2
  <1>4. d \in CallRecord
    BY DEF CallRecord
  <1> QED
    BY <1>1, <1>3, <1>4

LEMMA TruthFields ==
    ASSUME NEW t \in TruthRecord
    PROVE  /\ t.time \in ClockTime /\ t.alarm \in DayTime
           /\ t.enables \in SUBSET Enables /\ t.rate \in Int
           /\ DOMAIN t = {"time", "alarm", "enables", "rate"}
           /\ \A v \in ClockTime : [t EXCEPT !.time = v] \in TruthRecord
           /\ \A v \in DayTime : [t EXCEPT !.alarm = v] \in TruthRecord
           /\ \A v \in SUBSET Enables : [t EXCEPT !.enables = v] \in TruthRecord
           /\ \A v \in Int : [t EXCEPT !.rate = v] \in TruthRecord
  BY DEF TruthRecord

(* Nothing changes but the marker of an update. *)
LEMMA RtcQuiet ==
    ASSUME RtcInv, UNCHANGED <<regb, rate, clock, alarm, call, truth, seen>>
    PROVE  RtcInv'
  BY DEF RtcInv, RtcTypes, Running, Halted, Waiting, Result, Shows, Converted

(* The chip starts with what the BIOS left. *)
LEMMA init_rtcInv == RtcInv /\ init_rtc => RtcInv'
  <1> SUFFICES ASSUME RtcInv, init_rtc PROVE RtcInv'
    OBVIOUS
  <1>1. PICK b \in SUBSET (Enables \cup {"DSE", "24H", "DM"}), t \in Times :
          /\ regb' = b \ (Enables \cup {"DSE"})
          /\ truth' = [truth EXCEPT !.time = t]
          /\ clock' = Shown(t, regb')
          /\ alarm' = ShownAlarm(truth.alarm, regb')
    BY DEF init_rtc
  <1>2. call.pc = "off" /\ call' = NoCall /\ rate' = rate
    BY DEF init_rtc
  <1>3. truth \in TruthRecord /\ rate = truth.rate /\ truth.enables = {}
    BY <1>2 DEF RtcInv, RtcTypes, Running
  <1>4. t \in ClockTime
    BY TimeSets
  <1>5. /\ truth'.time = t /\ truth'.alarm = truth.alarm /\ truth'.enables = {}
        /\ truth'.rate = truth.rate /\ truth' \in TruthRecord /\ truth.alarm \in DayTime
    BY <1>1, <1>3, <1>4, TruthFields
  <1>6. clock' \in Registers /\ alarm' \in AlarmRegisters
    BY <1>1, <1>4, <1>5, ShownShape
  <1>7. regb' \in SUBSET Bits /\ "SET" \notin regb' /\ regb' \cap Enables = {}
    BY <1>1 DEF Bits, Enables
  <1>8. RtcTypes'
    BY <1>2, <1>3, <1>5, <1>6, <1>7, NoCallRecord DEF RtcTypes
  <1>9. Running' /\ Halted' /\ Waiting' /\ Result'
    BY <1>1, <1>2, <1>5, <1>7, NoCallRecord DEF Running, Halted, Waiting, Result, Shows
  <1> QED
    BY <1>8, <1>9 DEF RtcInv

(* The chip advances, which SET forbids while a call has the registers. *)
LEMMA UpdateEndInv == RtcInv /\ UpdateEnd => RtcInv'
  <1> SUFFICES ASSUME RtcInv, UpdateEnd PROVE RtcInv'
    OBVIOUS
  <1>1. /\ "SET" \notin regb /\ truth' = [truth EXCEPT !.time = NextSecond(@)]
        /\ clock' = Shown(truth'.time, regb) /\ seen' = seen \cup {truth'.time}
        /\ UNCHANGED <<regb, rate, alarm, call>>
    BY DEF UpdateEnd
  <1>2. call.pc # "access"
    BY <1>1 DEF RtcInv, Halted
  <1>3. truth \in TruthRecord
    BY DEF RtcInv, RtcTypes
  <1>4. truth.time \in ClockTime /\ NextSecond(truth.time) \in ClockTime
    BY <1>3, TruthFields, SecondPasses
  <1>5. /\ truth'.time = NextSecond(truth.time) /\ truth'.alarm = truth.alarm
        /\ truth'.enables = truth.enables /\ truth'.rate = truth.rate
        /\ truth' \in TruthRecord /\ truth.alarm \in DayTime
    BY <1>1, <1>3, <1>4, TruthFields
  <1>6. clock' \in Registers
    BY <1>1, <1>4, <1>5, ShownShape
  <1>7. RtcTypes'
    BY <1>1, <1>5, <1>6 DEF RtcInv, RtcTypes
  <1>8. Running' /\ Halted' /\ Waiting' /\ Result'
    BY <1>1, <1>2, <1>5 DEF RtcInv, Running, Halted, Waiting, Result, Shows, Converted
  <1> QED
    BY <1>7, <1>8 DEF RtcInv

(* A call begins: seen is what the clock shows, the chip is left alone. *)
LEMMA BeginInv ==
    ASSUME RtcInv, NEW op \in {"get", "set"}, NEW al \in BOOLEAN,
           NEW time \in Registers, NEW want \in Registers, Begin(op, al, time, want),
           op = "set" => Converted(regb)'
    PROVE  RtcInv'
  <1>1. /\ call.pc \in {"idle", "done"} /\ seen' = {truth.time}
        /\ call' = Spinning(op, al, time, want)
        /\ UNCHANGED <<regb, rate, uip, clock, alarm, truth>>
    BY DEF Begin, MayCall, Spinning
  <1>2. call' \in CallRecord /\ call'.pc = "spin" /\ call'.op = op
    BY <1>1, NewCall
  <1>3. RtcTypes'
    BY <1>1, <1>2 DEF RtcInv, RtcTypes
  <1>4. Running' /\ Halted' /\ Waiting' /\ Result'
    BY <1>1, <1>2 DEF RtcInv, Running, Halted, Waiting, Result, Shows
  <1> QED
    BY <1>3, <1>4 DEF RtcInv

LEMMA get_timeInv == RtcInv /\ get_time => RtcInv'
  <1> SUFFICES ASSUME RtcInv, get_time PROVE RtcInv'
    OBVIOUS
  <1>1. PICK al \in BOOLEAN : Begin("get", al, Zero, Zero)
    BY DEF get_time
  <1> QED
    BY <1>1, BeginInv, TimeSets

LEMMA set_timeInv == RtcInv /\ set_time => RtcInv'
  <1> SUFFICES ASSUME RtcInv, set_time PROVE RtcInv'
    OBVIOUS
  <1>0. PICK al \in BOOLEAN : \E t \in IF al THEN Alarms ELSE Times :
          Begin("set", al, ToCmos(t, regb), t)
    BY DEF set_time
  <1>1. PICK t \in IF al THEN Alarms ELSE Times : Begin("set", al, ToCmos(t, regb), t)
    BY <1>0
  <1>2. t \in DayTime /\ t \in Registers /\ (~al => t \in SetTime)
    BY TimeSets
  <1>3. ToCmos(t, regb) \in Registers
    BY <1>2, Written
  <1>4. /\ regb' = regb
        /\ call' = Spinning("set", al, ToCmos(t, regb), t)
    BY <1>1 DEF Begin, Spinning
  <1>5. call'.al = al /\ call'.time = ToCmos(t, regb) /\ call'.want = t
    BY <1>2, <1>3, <1>4, NewCall
  <1>6. ~al => t.year \in 90 .. 189
    BY <1>2 DEF SetTime
  <1>7. /\ ToCmos(t, regb).sec = Hex(t.sec, regb) /\ ToCmos(t, regb).min = Hex(t.min, regb)
        /\ ToCmos(t, regb).hour = Hour(t.hour, regb)
        /\ ~al => ToCmos(t, regb) = Shown(t, regb)
    BY <1>2, <1>6, Written
  <1>8. Converted(regb)'
    BY <1>2, <1>4, <1>5, <1>7 DEF Converted
  <1> QED
    BY <1>1, <1>2, <1>3, <1>8, BeginInv

(* An ioctl that only changes register B's enables or the rate. *)
LEMMA CallOver ==
    ASSUME RtcInv, MayCall, call' = NoCall, UNCHANGED <<clock, alarm, seen>>,
           truth' \in TruthRecord, truth'.time = truth.time, truth'.alarm = truth.alarm,
           rate' = truth'.rate, regb' \in SUBSET Bits, SameFormat(regb, regb'),
           "SET" \notin regb', regb' \cap Enables = truth'.enables
    PROVE  RtcInv'
  <1>1. Shows(regb)
    BY DEF RtcInv, Running, MayCall
  <1>2. Shows(regb)'
    BY <1>1, FormatOnly DEF Shows
  <1>3. RtcTypes'
    BY NoCallRecord DEF RtcInv, RtcTypes
  <1>4. Running' /\ Halted' /\ Waiting' /\ Result'
    BY <1>2, NoCallRecord DEF Running, Halted, Waiting, Result
  <1> QED
    BY <1>3, <1>4 DEF RtcInv

LEMMA Resting ==
    ASSUME RtcInv, MayCall
    PROVE  /\ truth \in TruthRecord /\ rate = truth.rate /\ regb \in SUBSET Bits
           /\ "SET" \notin regb /\ regb \cap Enables = truth.enables
  BY DEF RtcInv, RtcTypes, Running, MayCall

LEMMA RefusedInv == RtcInv /\ set_time_refused => RtcInv'
  <1> SUFFICES ASSUME RtcInv, set_time_refused PROVE RtcInv'
    OBVIOUS
  <1>1. /\ MayCall /\ call' = NoCall
        /\ UNCHANGED <<regb, rate, clock, alarm, truth, seen>>
    BY DEF set_time_refused
  <1>2. SameFormat(regb, regb')
    BY <1>1 DEF SameFormat
  <1> QED
    BY <1>1, <1>2, Resting, CallOver

LEMMA RateInv == RtcInv /\ RateIoctl => RtcInv'
  <1> SUFFICES ASSUME RtcInv, RateIoctl PROVE RtcInv'
    OBVIOUS
  <1>1. PICK r \in Rates : set_rate(r)
    BY DEF RateIoctl
  <1>2. MayCall /\ call' = NoCall /\ UNCHANGED <<regb, clock, alarm, seen>>
    BY DEF RateIoctl
  <1>3. truth \in TruthRecord /\ rate = truth.rate
    BY <1>2, Resting
  <1>4. /\ truth' \in TruthRecord /\ rate' = truth'.rate /\ truth'.time = truth.time
        /\ truth'.alarm = truth.alarm /\ truth'.enables = truth.enables
    <2>1. CASE r \in 3 .. 15
      BY <1>1, <1>3, <2>1, TruthFields DEF set_rate
    <2>2. CASE r \notin 3 .. 15
      BY <1>1, <1>3, <2>2 DEF set_rate
    <2> QED
      BY <2>1, <2>2
  <1>5. SameFormat(regb, regb')
    BY <1>2 DEF SameFormat
  <1> QED
    BY <1>2, <1>4, <1>5, Resting, CallOver

LEMMA ModeInv == RtcInv /\ ModeIoctl => RtcInv'
  <1> SUFFICES ASSUME RtcInv, ModeIoctl PROVE RtcInv'
    OBVIOUS
  <1>1. PICK bit \in Enables :
          \/ set_mode(bit) /\ truth' = [truth EXCEPT !.enables = @ \cup {bit}]
          \/ clear_mode(bit) /\ truth' = [truth EXCEPT !.enables = @ \ {bit}]
    BY DEF ModeIoctl
  <1>2. MayCall /\ call' = NoCall /\ UNCHANGED <<rate, clock, alarm, seen>>
    BY DEF ModeIoctl
  <1>3. /\ truth \in TruthRecord /\ rate = truth.rate /\ regb \in SUBSET Bits
        /\ "SET" \notin regb /\ regb \cap Enables = truth.enables
    BY <1>2, Resting
  <1>4. bit # "SET" /\ bit # "DM" /\ bit # "24H" /\ bit \in Bits
    BY DEF Enables, Bits
  <1>5. PICK e \in SUBSET Enables :
          /\ truth' = [truth EXCEPT !.enables = e] /\ regb' \cap Enables = e
          /\ regb' \in SUBSET Bits /\ "SET" \notin regb' /\ SameFormat(regb, regb')
    <2>1. CASE set_mode(bit) /\ truth' = [truth EXCEPT !.enables = @ \cup {bit}]
      <3>1. regb' = regb \cup {bit}
        BY <1>3, <1>4, <2>1 DEF set_mode, wr_b
      <3>2. truth.enables \cup {bit} \in SUBSET Enables
        BY <1>3, TruthFields
      <3>3. regb' \cap Enables = truth.enables \cup {bit}
        BY <1>3, <3>1
      <3> QED
        BY <1>3, <1>4, <2>1, <3>1, <3>2, <3>3 DEF SameFormat
    <2>2. CASE clear_mode(bit) /\ truth' = [truth EXCEPT !.enables = @ \ {bit}]
      <3>1. regb' = regb \ {bit}
        BY <1>3, <1>4, <2>2 DEF clear_mode, wr_b
      <3>2. truth.enables \ {bit} \in SUBSET Enables
        BY <1>3, TruthFields
      <3>3. regb' \cap Enables = truth.enables \ {bit}
        BY <1>3, <3>1
      <3> QED
        BY <1>3, <1>4, <2>2, <3>1, <3>2, <3>3 DEF SameFormat
    <2> QED
      BY <1>1, <2>1, <2>2
  <1>6. /\ truth' \in TruthRecord /\ truth'.time = truth.time /\ truth'.alarm = truth.alarm
        /\ truth'.enables = e /\ truth'.rate = truth.rate
    BY <1>3, <1>5, TruthFields
  <1> QED
    BY <1>2, <1>3, <1>5, <1>6, CallOver

LEMMA SpinInv == RtcInv /\ Spin => RtcInv'
  <1> SUFFICES ASSUME RtcInv, Spin PROVE RtcInv'
    OBVIOUS
  <1>1. /\ call.pc = "spin" /\ call' = [call EXCEPT !.pc = "claim"]
        /\ UNCHANGED <<regb, rate, clock, alarm, truth, seen>>
    BY DEF Spin
  <1>2. call \in CallRecord
    BY DEF RtcInv, RtcTypes
  <1>3. /\ call' \in CallRecord /\ call'.pc = "claim" /\ call'.op = call.op
        /\ call'.al = call.al /\ call'.time = call.time /\ call'.want = call.want
    BY <1>1, <1>2 DEF CallRecord
  <1>4. RtcTypes'
    BY <1>1, <1>3 DEF RtcInv, RtcTypes
  <1>5. Running' /\ Halted' /\ Waiting' /\ Result'
    BY <1>1, <1>3 DEF RtcInv, Running, Halted, Waiting, Result, Shows, Converted
  <1> QED
    BY <1>4, <1>5 DEF RtcInv

(* SET goes high: register B loses UIE too, and the call remembers it. *)
LEMMA ClaimInv == RtcInv /\ Claim => RtcInv'
  <1> SUFFICES ASSUME RtcInv, Claim PROVE RtcInv'
    OBVIOUS
  <1>1. /\ call.pc = "claim" /\ call' = [call EXCEPT !.pc = "access", !.b = regb, !.i = 1]
        /\ wr_b(regb \cup {"SET"}) /\ UNCHANGED <<rate, clock, alarm, truth, seen>>
    BY DEF Claim
  <1>2. call \in CallRecord /\ regb \in SUBSET Bits
    BY DEF RtcInv, RtcTypes
  <1>3. /\ call'.pc = "access" /\ call'.op = call.op /\ call'.al = call.al /\ call'.i = 1
        /\ call'.b = regb /\ call'.time = call.time /\ call'.want = call.want
        /\ DOMAIN call' = DOMAIN call /\ call' = [f \in DOMAIN call' |-> call'[f]]
    BY <1>1, <1>2, CallFields, ZenonT(30)
  <1>4. call' \in CallRecord
    BY <1>2, <1>3, CallFields, CallMade
  <1>5. "SET" \notin regb /\ Shows(regb) /\ regb \cap Enables = truth.enables
    BY <1>1 DEF RtcInv, Running
  <1>6. "SET" \in regb' /\ regb' \in SUBSET Bits
    BY <1>1, <1>2, <1>5 DEF wr_b, Bits, Enables
  <1>7. RtcTypes'
    BY <1>1, <1>4, <1>6 DEF RtcInv, RtcTypes
  <1>8. call.op # "none" /\ (call.op = "set" => Converted(regb)) /\ truth.time \in seen
    BY <1>1 DEF RtcInv, Waiting
  <1>9. Halted'
    <2>1. /\ DayRead(call.time, alarm, 1) /\ TimeRead(call.time, clock, 1)
          /\ DayWritten(alarm, call.time, 1) /\ TimeWritten(clock, call.time, 1)
      BY DEF DayRead, TimeRead, DayWritten, TimeWritten
    <2>2. call.op = "set" => Converted(call.b)'
      BY <1>3, <1>8 DEF Converted
    <2>3. Shows(call.b)'
      BY <1>1, <1>3, <1>5 DEF Shows
    <2>4. DayRead(call.time, alarm, call.i)' /\ TimeRead(call.time, clock, call.i)'
          /\ DayWritten(alarm, call.time, call.i)' /\ TimeWritten(clock, call.time, call.i)'
      BY <1>1, <1>3, <2>1
    <2> QED
      BY <1>1, <1>3, <1>5, <1>6, <1>8, <2>2, <2>3, <2>4 DEF Halted, Shows
  <1>10. Running' /\ Waiting' /\ Result'
    BY <1>1, <1>3, <1>8 DEF Running, Waiting, Result
  <1> QED
    BY <1>7, <1>9, <1>10 DEF RtcInv

(* The order of the accesses. *)
LEMMA FieldOrder ==
    /\ Len(Fields(TRUE)) = 3 /\ Len(Fields(FALSE)) = 6
    /\ Fields(TRUE) = <<"sec", "min", "hour">>
    /\ Reverse(Fields(TRUE)) = <<"hour", "min", "sec">>
    /\ Fields(FALSE) = <<"sec", "min", "hour", "mday", "mon", "year">>
    /\ Reverse(Fields(FALSE)) = <<"year", "mon", "mday", "hour", "min", "sec">>
  BY DEF Fields, TimeFields, AlarmFields, Reverse

LEMMA DayAccess ==
    ASSUME NEW t \in Registers, NEW r \in AlarmRegisters, NEW i \in 1 .. 3
    PROVE  /\ LET f == <<"sec", "min", "hour">>[i] IN
                /\ [t EXCEPT ![f] = r[f]] \in Registers
                /\ DayRead(t, r, i) => DayRead([t EXCEPT ![f] = r[f]], r, i + 1)
           /\ LET f == <<"hour", "min", "sec">>[i] IN
                /\ [r EXCEPT ![f] = t[f]] \in AlarmRegisters
                /\ DayWritten(r, t, i) => DayWritten([r EXCEPT ![f] = t[f]], t, i + 1)
  <1>1. i = 1 \/ i = 2 \/ i = 3
    OBVIOUS
  <1> QED
    BY <1>1 DEF DayRead, DayWritten, Registers, AlarmRegisters

LEMMA TimeAccess ==
    ASSUME NEW t \in Registers, NEW r \in Registers, NEW i \in 1 .. 6
    PROVE  /\ LET f == <<"sec", "min", "hour", "mday", "mon", "year">>[i] IN
                /\ [t EXCEPT ![f] = r[f]] \in Registers
                /\ TimeRead(t, r, i) => TimeRead([t EXCEPT ![f] = r[f]], r, i + 1)
           /\ LET f == <<"year", "mon", "mday", "hour", "min", "sec">>[i] IN
                /\ [r EXCEPT ![f] = t[f]] \in Registers
                /\ TimeWritten(r, t, i) => TimeWritten([r EXCEPT ![f] = t[f]], t, i + 1)
  <1>1. i = 1 \/ i = 2 \/ i = 3 \/ i = 4 \/ i = 5 \/ i = 6
    OBVIOUS
  <1> QED
    BY <1>1 DEF DayRead, TimeRead, TimeWritten, Registers

(* One register read into the struct. *)
LEMMA ReadStep ==
    ASSUME RtcInv, call.pc = "access", call.op = "get",
           NEW t \in Registers,
           call' = [call EXCEPT !.i = @ + 1, !.time = t],
           call.al => DayRead(t, alarm, call.i + 1),
           ~call.al => TimeRead(t, clock, call.i + 1),
           UNCHANGED <<regb, rate, clock, alarm, truth, seen>>
    PROVE  RtcInv'
  <1>1. call \in CallRecord
    BY DEF RtcInv, RtcTypes
  <1>2. /\ call'.pc = "access" /\ call'.op = "get" /\ call'.al = call.al
        /\ call'.i = call.i + 1 /\ call'.b = call.b /\ call'.want = call.want
        /\ call'.time = t
        /\ DOMAIN call' = DOMAIN call /\ call' = [f \in DOMAIN call' |-> call'[f]]
    BY <1>1, CallFields
  <1>3. call' \in CallRecord
    <2>1. /\ call.al \in BOOLEAN /\ call'.i \in Int /\ call.b \in SUBSET Bits
          /\ call.want \in Registers
          /\ DOMAIN call = {"pc", "op", "al", "i", "b", "time", "want"}
      BY <1>1, <1>2, CallFields
    <2> QED
      BY <1>2, <2>1 DEF CallRecord
  <1>4. RtcTypes'
    BY <1>3 DEF RtcInv, RtcTypes
  <1>5. call.i \in Int
    BY <1>1, CallFields
  <1>6. Shows(call.b)'
    BY <1>2 DEF RtcInv, Halted, Shows
  <1>7. /\ call.al => DayRead(call.time, alarm, call.i)'
        /\ ~call.al => TimeRead(call.time, clock, call.i)'
    BY <1>2
  <1>8. Halted'
    BY <1>2, <1>5, <1>6, <1>7 DEF RtcInv, Halted
  <1>9. Running' /\ Waiting' /\ Result'
    BY <1>2 DEF RtcInv, Running, Waiting, Result
  <1> QED
    BY <1>4, <1>8, <1>9 DEF RtcInv

(* One register written. *)
LEMMA WriteStep ==
    ASSUME RtcInv, call.pc = "access", call.op = "set",
           call' = [call EXCEPT !.i = @ + 1],
           clock' \in Registers, alarm' \in AlarmRegisters,
           call.al => clock' = clock /\ DayWritten(alarm', call.time, call.i + 1),
           ~call.al => alarm' = alarm /\ TimeWritten(clock', call.time, call.i + 1),
           UNCHANGED <<regb, rate, truth, seen>>
    PROVE  RtcInv'
  <1>1. call \in CallRecord
    BY DEF RtcInv, RtcTypes
  <1>2. /\ call'.pc = "access" /\ call'.op = "set" /\ call'.al = call.al
        /\ call'.i = call.i + 1 /\ call'.b = call.b /\ call'.want = call.want
        /\ call'.time = call.time
        /\ DOMAIN call' = DOMAIN call /\ call' = [f \in DOMAIN call' |-> call'[f]]
    BY <1>1, CallFields
  <1>3. call' \in CallRecord
    BY <1>1, <1>2, CallFields, CallMade
  <1>4. RtcTypes'
    BY <1>3 DEF RtcInv, RtcTypes
  <1>5. call.i \in Int
    BY <1>1, CallFields
  <1>6. Converted(call.b)'
    BY <1>2 DEF RtcInv, Halted, Converted
  <1>7. /\ call.al => DayWritten(alarm, call.time, call.i)'
        /\ ~call.al => TimeWritten(clock, call.time, call.i)'
    BY <1>2
  <1>8. Halted'
    BY <1>2, <1>5, <1>6, <1>7 DEF RtcInv, Halted
  <1>9. Running' /\ Waiting' /\ Result'
    BY <1>2 DEF RtcInv, Running, Waiting, Result
  <1> QED
    BY <1>4, <1>8, <1>9 DEF RtcInv

LEMMA AccessInv == RtcInv /\ Access => RtcInv'
  <1> SUFFICES ASSUME RtcInv, Access PROVE RtcInv'
    OBVIOUS
  <1>1. /\ call.pc = "access" /\ call.i <= Len(Fields(call.al))
        /\ UNCHANGED <<regb, rate, truth, seen>>
    BY DEF Access
  <1>2. /\ call \in CallRecord /\ clock \in Registers /\ alarm \in AlarmRegisters
        /\ call.al \in BOOLEAN /\ call.i \in Int /\ call.time \in Registers
        /\ call.op = "get" \/ call.op = "set"
    BY <1>1, CallFields DEF RtcInv, RtcTypes, Halted
  <1>3. call.i >= 1
    BY <1>1 DEF RtcInv, Halted
  <1>4. call.al => call.i \in 1 .. 3
    <2>1. call.al => Len(Fields(call.al)) = 3
      BY DEF Fields, AlarmFields
    <2>2. call.al => call.i <= 3
      BY <1>1, <2>1, Zenon
    <2> QED
      BY <1>2, <1>3, <2>2
  <1>5. ~call.al => call.i \in 1 .. 6
    <2>1. ~call.al => Len(Fields(call.al)) = 6
      BY DEF Fields, TimeFields
    <2>2. ~call.al => call.i <= 6
      BY <1>1, <2>1, Zenon
    <2> QED
      BY <1>2, <1>3, <2>2
  <1>6. CASE call.op = "get"
    <2> DEFINE f == Fields(call.al)[call.i]
               t == [call.time EXCEPT ![f] = IF call.al THEN alarm[f] ELSE clock[f]]
    <2>1. /\ call' = [call EXCEPT !.i = @ + 1, !.time = t] /\ UNCHANGED <<clock, alarm>>
      BY <1>6 DEF Access
    <2>2. ASSUME call.al
          PROVE  t \in Registers /\ DayRead(t, alarm, call.i + 1)
      <3>1. DayRead(call.time, alarm, call.i)
        BY <1>1, <1>6, <2>2 DEF RtcInv, Halted
      <3>2. f = <<"sec", "min", "hour">>[call.i] /\ t = [call.time EXCEPT ![f] = alarm[f]]
        BY <2>2, FieldOrder
      <3> QED
        BY <1>2, <1>4, <2>2, <3>1, <3>2, DayAccess
    <2>3. ASSUME ~call.al
          PROVE  t \in Registers /\ TimeRead(t, clock, call.i + 1)
      <3>1. TimeRead(call.time, clock, call.i)
        BY <1>1, <1>6, <2>3 DEF RtcInv, Halted
      <3>2. /\ f = <<"sec", "min", "hour", "mday", "mon", "year">>[call.i]
            /\ t = [call.time EXCEPT ![f] = clock[f]]
        BY <1>2, <2>3, FieldOrder
      <3> QED
        BY <1>2, <1>5, <2>3, <3>1, <3>2, TimeAccess
    <2> HIDE DEF t
    <2> QED
      BY <1>1, <1>2, <1>6, <2>1, <2>2, <2>3, ReadStep
  <1>7. CASE call.op = "set"
    <2> DEFINE f == Reverse(Fields(call.al))[call.i]
    <2>1. /\ call' = [call EXCEPT !.i = @ + 1]
          /\ clock' = IF call.al THEN clock ELSE [clock EXCEPT ![f] = call.time[f]]
          /\ alarm' = IF call.al THEN [alarm EXCEPT ![f] = call.time[f]] ELSE alarm
      BY <1>7 DEF Access
    <2>2. ASSUME call.al
          PROVE  alarm' \in AlarmRegisters /\ DayWritten(alarm', call.time, call.i + 1)
      <3>1. DayWritten(alarm, call.time, call.i)
        BY <1>1, <1>7, <2>2 DEF RtcInv, Halted
      <3>2. f = <<"hour", "min", "sec">>[call.i] /\ alarm' = [alarm EXCEPT ![f] = call.time[f]]
        BY <2>1, <2>2, FieldOrder
      <3> QED
        BY <1>2, <1>4, <2>2, <3>1, <3>2, DayAccess
    <2>3. ASSUME ~call.al
          PROVE  clock' \in Registers /\ TimeWritten(clock', call.time, call.i + 1)
      <3>1. TimeWritten(clock, call.time, call.i)
        BY <1>1, <1>7, <2>3 DEF RtcInv, Halted
      <3>2. /\ f = <<"year", "mon", "mday", "hour", "min", "sec">>[call.i]
            /\ clock' = [clock EXCEPT ![f] = call.time[f]]
        BY <1>2, <2>1, <2>3, FieldOrder
      <3> QED
        BY <1>2, <1>5, <2>3, <3>1, <3>2, TimeAccess
    <2>4. clock' \in Registers /\ alarm' \in AlarmRegisters
      BY <1>2, <2>1, <2>2, <2>3
    <2>5. /\ call.al => clock' = clock /\ DayWritten(alarm', call.time, call.i + 1)
          /\ ~call.al => alarm' = alarm /\ TimeWritten(clock', call.time, call.i + 1)
      BY <2>1, <2>2, <2>3
    <2> QED
      BY <1>1, <1>7, <2>1, <2>4, <2>5, WriteStep
  <1> QED
    BY <1>2, <1>6, <1>7

(* A struct that was read, or the registers that were written, in full. *)
LEMMA AllRead ==
    ASSUME NEW t \in Registers, NEW r \in Registers, NEW i \in Int, i > 6
    PROVE  /\ TimeRead(t, r, i) => t = r
           /\ TimeWritten(r, t, i) => r = t
  BY DEF TimeRead, DayRead, TimeWritten, Registers

LEMMA FromCmosShape ==
    ASSUME NEW r \in Registers, NEW b
    PROVE  FromCmos(r, b) \in Registers
  <1> DEFINE pm == "24H" \notin b /\ r.hour >= 128
             N(f) == IF f = "hour" /\ pm THEN r.hour - 128 ELSE r[f]
             bin == [f \in DOMAIN r |-> IF "DM" \in b THEN N(f) ELSE bcd2bin(N(f))]
             hour == IF "24H" \in b THEN bin.hour
                     ELSE IF pm /\ bin.hour < 12 THEN bin.hour + 12
                     ELSE IF ~pm /\ bin.hour = 12 THEN 0 ELSE bin.hour
  <1>1. /\ DOMAIN r = {"sec", "min", "hour", "mday", "mon", "year"}
        /\ \A f \in DOMAIN r : N(f) \in Int
    BY DEF Registers
  <1>2. \A f \in DOMAIN r : bin[f] \in Int
    BY <1>1, HexInt
  <1>3. DOMAIN bin = {"sec", "min", "hour", "mday", "mon", "year"}
    BY <1>1
  <1>4. FromCmos(r, b) = [bin EXCEPT !.hour = hour, !.mon = @ - 1, !.year = IF @ < 90 THEN @ + 100 ELSE @]
    BY DEF FromCmos
  <1>5. bin.hour \in Int /\ bin.mon \in Int /\ bin.year \in Int
        /\ bin.sec \in Int /\ bin.min \in Int /\ bin.mday \in Int
    BY <1>1, <1>2
  <1>6. hour \in Int
    BY <1>5
  <1> HIDE DEF bin, hour
  <1> DEFINE mon == bin.mon - 1
             year == IF bin.year < 90 THEN bin.year + 100 ELSE bin.year
  <1>7. /\ mon \in Int /\ year \in Int
        /\ FromCmos(r, b) = [bin EXCEPT !.hour = hour, !.mon = mon, !.year = year]
    BY <1>3, <1>4, <1>5
  <1> HIDE DEF mon, year
  <1>8. /\ FromCmos(r, b).sec = bin.sec /\ FromCmos(r, b).min = bin.min
        /\ FromCmos(r, b).hour = hour /\ FromCmos(r, b).mday = bin.mday
        /\ FromCmos(r, b).mon = mon /\ FromCmos(r, b).year = year
        /\ DOMAIN FromCmos(r, b) = {"sec", "min", "hour", "mday", "mon", "year"}
        /\ FromCmos(r, b) = [f \in DOMAIN FromCmos(r, b) |-> FromCmos(r, b)[f]]
    BY <1>3, <1>7
  <1> QED
    BY <1>5, <1>6, <1>7, <1>8 DEF Registers

(* SET goes low, register B is as it was, and the call has its result. *)
LEMMA ReleaseInv == RtcInv /\ Before2090 /\ Release => RtcInv'
  <1> SUFFICES ASSUME RtcInv, Before2090, Release PROVE RtcInv'
    OBVIOUS
  <1> DEFINE b == call.b
             time == IF call.op = "get" THEN FromCmos(call.time, b) ELSE call.time
  <1>1. /\ call.pc = "access" /\ call.i > Len(Fields(call.al))
        /\ wr_b(call.b \ {"SET"}) /\ call' = [call EXCEPT !.pc = "done", !.time = time]
        /\ UNCHANGED <<rate, clock, alarm, seen>>
    BY DEF Release
  <1>2. /\ call \in CallRecord /\ clock \in Registers /\ alarm \in AlarmRegisters
        /\ truth \in TruthRecord /\ rate = truth.rate
        /\ call.al \in BOOLEAN /\ call.i \in Int /\ call.time \in Registers /\ b \in SUBSET Bits
        /\ call.op = "get" \/ call.op = "set"
    BY <1>1, CallFields DEF RtcInv, RtcTypes, Halted
  <1>3. truth.time \in ClockTime /\ truth.alarm \in DayTime
    BY <1>2, TruthFields
  <1>4. "SET" \notin b /\ b \cap Enables = truth.enables /\ truth.time \in seen
    BY <1>1 DEF RtcInv, Halted, Waiting
  <1>5. regb' = b
    BY <1>1, <1>4 DEF wr_b
  <1>6. call.al => call.i > 3
    <2>1. call.al => Len(Fields(call.al)) = 3
      BY DEF Fields, AlarmFields
    <2> QED
      BY <1>1, <2>1, Zenon
  <1>7. ~call.al => call.i > 6
    <2>1. ~call.al => Len(Fields(call.al)) = 6
      BY DEF Fields, TimeFields
    <2> QED
      BY <1>1, <2>1, Zenon
  <1>8. time \in Registers
    BY <1>2, FromCmosShape
  <1> HIDE DEF time
  <1>9. /\ call'.pc = "done" /\ call'.op = call.op /\ call'.al = call.al
        /\ call'.time = time /\ call' \in CallRecord
    <2>1. /\ call'.pc = "done" /\ call'.op = call.op /\ call'.al = call.al
          /\ call'.time = time /\ call'.i = call.i /\ call'.b = call.b /\ call'.want = call.want
          /\ DOMAIN call' = DOMAIN call /\ call' = [f \in DOMAIN call' |-> call'[f]]
      BY <1>1, <1>2, CallFields
    <2>2. /\ call.want \in Registers
          /\ DOMAIN call = {"pc", "op", "al", "i", "b", "time", "want"}
      BY <1>2, CallFields
    <2> QED
      BY <1>2, <1>8, <2>1, <2>2 DEF CallRecord
  <1>10. /\ truth' \in TruthRecord /\ truth'.enables = truth.enables /\ truth'.rate = truth.rate
         /\ Shows(regb)'
         /\ call.op = "get" => truth' = truth
    <2>1. CASE call.op = "get"
      <3>1. truth' = truth
        BY <2>1 DEF Release
      <3>2. Shows(b)
        BY <1>1, <2>1 DEF RtcInv, Halted
      <3> QED
        BY <1>1, <1>2, <1>5, <3>1, <3>2 DEF Shows
    <2>2. CASE call.op = "set" /\ call.al
      <3>1. truth' = [truth EXCEPT !.alarm = call.want]
        BY <2>2 DEF Release
      <3>2. Converted(b) /\ clock = Shown(truth.time, b) /\ DayWritten(alarm, call.time, call.i)
        BY <1>1, <2>2 DEF RtcInv, Halted
      <3>3. call.want \in DayTime
        BY <3>2 DEF Converted
      <3>4. /\ truth' \in TruthRecord /\ truth'.time = truth.time /\ truth'.alarm = call.want
            /\ truth'.enables = truth.enables /\ truth'.rate = truth.rate
        BY <1>2, <3>1, <3>3, TruthFields
      <3>5. /\ alarm.sec = Hex(call.want.sec, b) /\ alarm.min = Hex(call.want.min, b)
            /\ alarm.hour = Hour(call.want.hour, b)
        BY <1>2, <1>6, <2>2, <3>2 DEF DayWritten, Converted
      <3>6. alarm = ShownAlarm(call.want, b)
        BY <1>2, <3>5 DEF ShownAlarm, AlarmRegisters
      <3> QED
        BY <1>1, <1>5, <2>2, <3>2, <3>4, <3>6 DEF Shows
    <2>3. CASE call.op = "set" /\ ~call.al
      <3>1. truth' = [truth EXCEPT !.time = call.want]
        BY <2>3 DEF Release
      <3>2. /\ Converted(b) /\ alarm = ShownAlarm(truth.alarm, b)
            /\ TimeWritten(clock, call.time, call.i)
        BY <1>1, <2>3 DEF RtcInv, Halted
      <3>3. call.want \in ClockTime /\ call.time = Shown(call.want, b)
        BY <2>3, <3>2, TimeSets DEF Converted
      <3>4. /\ truth' \in TruthRecord /\ truth'.time = call.want /\ truth'.alarm = truth.alarm
            /\ truth'.enables = truth.enables /\ truth'.rate = truth.rate
        BY <1>2, <3>1, <3>3, TruthFields
      <3>5. clock = call.time
        BY <1>2, <1>7, <2>3, <3>2, AllRead
      <3> QED
        BY <1>1, <1>5, <2>3, <3>2, <3>3, <3>4, <3>5 DEF Shows
    <2> QED
      BY <1>2, <2>1, <2>2, <2>3
  <1>11. Result'
    <2>1. CASE call.op = "get" /\ call.al
      <3>1. Shows(b) /\ DayRead(call.time, alarm, call.i)
        BY <1>1, <2>1 DEF RtcInv, Halted
      <3>2. /\ call.time.sec = Hex(truth.alarm.sec, b) /\ call.time.min = Hex(truth.alarm.min, b)
            /\ call.time.hour = Hour(truth.alarm.hour, b)
        BY <1>2, <1>6, <2>1, <3>1 DEF DayRead, Shows, ShownAlarm
      <3>3. OfDay(FromCmos(call.time, b)) = OfDay(truth.alarm)
        BY <1>2, <1>3, <3>2, DayReadBack
      <3> QED
        BY <1>9, <1>10, <2>1, <3>3 DEF Result, time
    <2>2. CASE call.op = "get" /\ ~call.al
      <3>1. Shows(b) /\ TimeRead(call.time, clock, call.i)
        BY <1>1, <2>2 DEF RtcInv, Halted
      <3>2. call.time = Shown(truth.time, b)
        BY <1>2, <1>7, <2>2, <3>1, AllRead DEF Shows
      <3>3. FromCmos(call.time, b) = truth.time
        BY <1>3, <3>2, TimeReadBack DEF Before2090
      <3> QED
        BY <1>1, <1>4, <1>9, <2>2, <3>3 DEF Result, time
    <2>3. CASE call.op = "set"
      BY <1>9, <2>3 DEF Result
    <2> QED
      BY <1>2, <2>1, <2>2, <2>3
  <1>12. RtcTypes'
    BY <1>1, <1>2, <1>5, <1>9, <1>10 DEF RtcTypes
  <1>13. Running' /\ Halted' /\ Waiting'
    BY <1>4, <1>5, <1>9, <1>10 DEF Running, Halted, Waiting
  <1> QED
    BY <1>11, <1>12, <1>13 DEF RtcInv

LEMMA RtcStep == RtcInv /\ Before2090 /\ [RtcNext]_rtc_vars => RtcInv'
  <1> SUFFICES ASSUME RtcInv, Before2090, [RtcNext]_rtc_vars PROVE RtcInv'
    OBVIOUS
  <1>1. CASE UpdateStart
    BY <1>1, RtcQuiet DEF UpdateStart
  <1>2. CASE UNCHANGED rtc_vars
    BY <1>2, RtcQuiet DEF rtc_vars
  <1> QED
    BY <1>1, <1>2, init_rtcInv, UpdateEndInv, get_timeInv, set_timeInv, RefusedInv, SpinInv,
       ClaimInv, AccessInv, ReleaseInv, ModeInv, RateInv DEF RtcNext

(* For any times, alarms and rates, in each of the chip's four formats, and   *)
(* however its updates fall between the accesses of a call: the clock shows   *)
(* what it was set to, get_time returns a time the clock showed during the    *)
(* call, and no call leaves the clock stopped or an interrupt enable lost.    *)
(* Up to the end of 2089: the driver takes the digits 90 for 1990.            *)
THEOREM TimeIsKept ==
    ServicesSpec /\ []Before2090 => []TimeKept
  <1>1. ServicesInit => RtcInv
    BY RtcStarts DEF ServicesInit
  <1>2. RtcInv /\ Before2090 /\ [ServicesNext]_services_vars => RtcInv'
    <2> SUFFICES ASSUME RtcInv, Before2090, [ServicesNext]_services_vars PROVE RtcInv'
      OBVIOUS
    <2>1. [RtcNext]_rtc_vars
      BY DEF ServicesNext, RingSteps, RtcSteps, ConsoleSteps, IoSteps, services_vars
    <2> QED
      BY <2>1, RtcStep
  <1>3. RtcInv => TimeKept
    BY DEF RtcInv, RtcTypes, Running, Result, Shows, TimeKept
  <1> QED
    BY <1>1, <1>2, <1>3, PTL DEF ServicesSpec

-------------------------------------------------------------------------------
(* The console log.                                                         *)

(* Index i of the log, wrapped round once; what the code writes with %. *)
Wrapped(i) == IF i < LogSize THEN i ELSE i - LogSize

LEMMA WrappedOnce ==
    ASSUME NEW i \in 0 .. 2 * LogSize - 1
    PROVE  i % LogSize = Wrapped(i) /\ Wrapped(i) \in 0 .. LogSize - 1
  <1>1. LogSize \in Nat \ {0}
    BY ConsoleAssumption
  <1>2. ASSUME i < LogSize PROVE i % LogSize = i
    BY <1>1, <1>2
  <1>3. ASSUME i >= LogSize PROVE i % LogSize = i - LogSize
    BY <1>1, <1>3
  <1> QED
    BY <1>1, <1>2, <1>3 DEF Wrapped

(* The log g, starting at s with n characters, holds the last of the first k  *)
(* characters of p.  When p is one longer, that character has been stored and *)
(* not counted: in a full log it has replaced the oldest one.                 *)
Holds(g, s, n, p, k) ==
    /\ k \in Nat /\ (k = Len(p) \/ k + 1 = Len(p))
    /\ n < LogSize => s = 0 /\ n = k /\ \A i \in 0 .. n - 1 : g[i] = p[i + 1]
    /\ n = LogSize => /\ k >= LogSize
                      /\ \A j \in 0 .. LogSize - 1 :
                            k = Len(p) \/ j > 0 => g[Wrapped(s + j)] = p[k - LogSize + j + 1]
    /\ k + 1 = Len(p) => g[Wrapped(s + n)] = p[k + 1]

Log == [0 .. LogSize - 1 -> Nat]

LEMMA Stored ==
    ASSUME NEW g \in Log, NEW s \in 0 .. LogSize - 1, NEW n \in 0 .. LogSize,
           NEW p \in Seq(Nat), Holds(g, s, n, p, Len(p)), NEW ch \in Nat
    PROVE  /\ [g EXCEPT ![Wrapped(s + n)] = ch] \in Log
           /\ Holds([g EXCEPT ![Wrapped(s + n)] = ch], s, n, Append(p, ch), Len(p))
  <1> DEFINE h == [g EXCEPT ![Wrapped(s + n)] = ch]
             q == Append(p, ch)
  <1>1. LogSize \in Nat \ {0}
    BY ConsoleAssumption
  <1>2. /\ Len(p) \in Nat /\ Len(q) = Len(p) + 1 /\ q[Len(p) + 1] = ch
        /\ \A i \in 1 .. Len(p) : q[i] = p[i]
    BY AppendProperties, LenProperties
  <1>3. Wrapped(s + n) \in 0 .. LogSize - 1
    BY <1>1 DEF Wrapped
  <1>4. /\ h \in Log /\ h[Wrapped(s + n)] = ch
        /\ \A i \in 0 .. LogSize - 1 : i # Wrapped(s + n) => h[i] = g[i]
    BY <1>3 DEF Log
  <1> HIDE DEF h, q
  <1>5. ASSUME n < LogSize
        PROVE  s = 0 /\ n = Len(p) /\ \A i \in 0 .. n - 1 : h[i] = q[i + 1]
    <2>1. s = 0 /\ n = Len(p) /\ \A i \in 0 .. n - 1 : g[i] = p[i + 1]
      BY <1>5 DEF Holds
    <2>2. Wrapped(s + n) = n
      BY <1>1, <1>5, <2>1 DEF Wrapped
    <2> QED
      BY <1>1, <1>2, <1>4, <1>5, <2>1, <2>2
  <1>6. ASSUME n = LogSize
        PROVE  /\ Len(p) >= LogSize
               /\ \A j \in 0 .. LogSize - 1 :
                     j > 0 => h[Wrapped(s + j)] = q[Len(p) - LogSize + j + 1]
    <2>1. /\ Len(p) >= LogSize
          /\ \A j \in 0 .. LogSize - 1 : g[Wrapped(s + j)] = p[Len(p) - LogSize + j + 1]
      BY <1>6 DEF Holds
    <2> SUFFICES ASSUME NEW j \in 0 .. LogSize - 1, j > 0
                 PROVE  h[Wrapped(s + j)] = q[Len(p) - LogSize + j + 1]
      BY <2>1
    <2>2. Wrapped(s + j) \in 0 .. LogSize - 1 /\ Wrapped(s + j) # Wrapped(s + n)
      BY <1>1, <1>6 DEF Wrapped
    <2>3. Len(p) - LogSize + j + 1 \in 1 .. Len(p)
      BY <1>1, <1>2, <2>1
    <2> QED
      BY <1>2, <1>4, <2>1, <2>2, <2>3
  <1>7. Len(p) + 1 = Len(q) /\ h[Wrapped(s + n)] = q[Len(p) + 1]
    BY <1>2, <1>4
  <1>8. Holds(h, s, n, q, Len(p))
    BY <1>2, <1>5, <1>6, <1>7 DEF Holds
  <1> QED
    BY <1>4, <1>8 DEF h, q

LEMMA Counted ==
    ASSUME NEW g \in Log, NEW s \in 0 .. LogSize - 1, NEW n \in 0 .. LogSize,
           NEW p \in Seq(Nat), NEW k, k + 1 = Len(p), Holds(g, s, n, p, k)
    PROVE  Holds(g, IF n < LogSize THEN s ELSE Wrapped(s + 1),
                 IF n < LogSize THEN n + 1 ELSE n, p, k + 1)
  <1>1. LogSize \in Nat \ {0} /\ k \in Nat /\ Len(p) \in Nat
    BY ConsoleAssumption, LenProperties DEF Holds
  <1>2. g[Wrapped(s + n)] = p[k + 1]
    BY DEF Holds
  <1>3. CASE n < LogSize
    <2>1. s = 0 /\ n = k /\ \A i \in 0 .. n - 1 : g[i] = p[i + 1]
      BY <1>3 DEF Holds
    <2>2. Wrapped(s + n) = n
      BY <1>1, <1>3, <2>1 DEF Wrapped
    <2>3. \A i \in 0 .. n : g[i] = p[i + 1]
      BY <1>1, <1>2, <2>1, <2>2
    <2>4. ASSUME n + 1 = LogSize
          PROVE  \A j \in 0 .. LogSize - 1 : g[Wrapped(s + j)] = p[k + 1 - LogSize + j + 1]
      <3> TAKE j \in 0 .. LogSize - 1
      <3>1. Wrapped(s + j) = j /\ k + 1 - LogSize + j + 1 = j + 1 /\ j \in 0 .. n
        BY <1>1, <2>1, <2>4 DEF Wrapped
      <3> QED
        BY <2>3, <3>1
    <2>5. k + 1 \in Nat /\ k + 1 = Len(p) /\ ~(k + 1 + 1 = Len(p))
      BY <1>1
    <2>6. n + 1 = k + 1 /\ k + 1 >= n + 1 /\ (n + 1) - 1 = n
      BY <1>1, <2>1
    <2>7. Holds(g, s, n + 1, p, k + 1)
      <3>1. n + 1 < LogSize =>
                s = 0 /\ n + 1 = k + 1 /\ \A i \in 0 .. (n + 1) - 1 : g[i] = p[i + 1]
        BY <2>1, <2>3, <2>6
      <3>2. n + 1 = LogSize => /\ k + 1 >= LogSize
                               /\ \A j \in 0 .. LogSize - 1 :
                                    g[Wrapped(s + j)] = p[k + 1 - LogSize + j + 1]
        BY <2>4, <2>6
      <3> QED
        BY <1>1, <2>5, <3>1, <3>2 DEF Holds
    <2> QED
      BY <1>3, <2>7
  <1>4. CASE n = LogSize
    <2>1. /\ k >= LogSize
          /\ \A j \in 0 .. LogSize - 1 :
                j > 0 => g[Wrapped(s + j)] = p[k - LogSize + j + 1]
      BY <1>4 DEF Holds
    <2>2. Wrapped(s + n) = s
      BY <1>1, <1>4 DEF Wrapped
    <2>3. ASSUME NEW j \in 0 .. LogSize - 1
          PROVE  g[Wrapped(Wrapped(s + 1) + j)] = p[k + 1 - LogSize + j + 1]
      <3>1. CASE j < LogSize - 1
        <4>1. j + 1 \in 0 .. LogSize - 1 /\ j + 1 > 0
          BY <1>1, <3>1
        <4>2. Wrapped(Wrapped(s + 1) + j) = Wrapped(s + (j + 1))
          BY <1>1, <3>1 DEF Wrapped
        <4>3. k + 1 - LogSize + j + 1 = k - LogSize + (j + 1) + 1
          BY <1>1
        <4> QED
          BY <2>1, <4>1, <4>2, <4>3
      <3>2. CASE j = LogSize - 1
        <4>1. Wrapped(Wrapped(s + 1) + j) = s
          BY <1>1, <3>2 DEF Wrapped
        <4>2. k + 1 - LogSize + j + 1 = k + 1
          BY <1>1, <3>2
        <4> QED
          BY <1>2, <2>2, <4>1, <4>2
      <3> QED
        BY <1>1, <3>1, <3>2
    <2>4. k + 1 \in Nat /\ k + 1 = Len(p) /\ ~(k + 1 + 1 = Len(p)) /\ k + 1 >= LogSize
          /\ ~(n < LogSize)
      BY <1>1, <1>4, <2>1
    <2>5. Holds(g, Wrapped(s + 1), n, p, k + 1)
      BY <1>4, <2>3, <2>4 DEF Holds
    <2> QED
      BY <2>4, <2>5
  <1> QED
    BY <1>1, <1>3, <1>4

(* The characters of p a console registered after the first m is due: the   *)
(* last of those m that the log still held, and all that follow.            *)
First(m) == IF m > LogSize THEN m - LogSize + 1 ELSE 1
Due(p, m) == SubSeq(p, First(m), Len(p))

LEMMA FirstBounds ==
    ASSUME NEW m \in Nat
    PROVE  First(m) \in Nat /\ 1 <= First(m) /\ First(m) <= m + 1
  BY ConsoleAssumption DEF First

LEMMA Cut ==
    ASSUME NEW p \in Seq(Nat), NEW a \in Nat, 1 <= a, NEW b \in Nat, b <= Len(p), a <= b + 1
    PROVE  /\ SubSeq(p, a, b) \in Seq(Nat) /\ Len(SubSeq(p, a, b)) = b - a + 1
           /\ \A i \in 1 .. b - a + 1 : SubSeq(p, a, b)[i] = p[a + i - 1]
  <1>1. Len(p) \in Nat /\ \A i \in 1 .. Len(p) : p[i] \in Nat
    BY LenProperties, ElementOfSeq
  <1>2. \A i \in a .. b : p[i] \in Nat
    BY <1>1
  <1>3. /\ SubSeq(p, a, b) \in Seq(Nat)
        /\ Len(SubSeq(p, a, b)) = IF a <= b THEN b - a + 1 ELSE 0
        /\ \A i \in 1 .. b - a + 1 : SubSeq(p, a, b)[i] = p[a + i - 1]
    BY <1>2, SubSeqProperties, SMTT(30)
  <1>4. (IF a <= b THEN b - a + 1 ELSE 0) = b - a + 1
    OBVIOUS
  <1> QED
    BY <1>3, <1>4

LEMMA DueParts ==
    ASSUME NEW p \in Seq(Nat), NEW m \in Nat, m <= Len(p)
    PROVE  LastOf(LogSize, SubSeq(p, 1, m)) \o SubSeq(p, m + 1, Len(p)) = Due(p, m)
  <1>1. LogSize \in Nat \ {0} /\ Len(p) \in Nat
    BY ConsoleAssumption, LenProperties
  <1> DEFINE q == SubSeq(p, 1, m)
  <1>2. q \in Seq(Nat) /\ Len(q) = m /\ \A i \in 1 .. m : q[i] = p[i]
    BY <1>1, Cut
  <1>3. First(m) \in Nat /\ 1 <= First(m) /\ First(m) <= m + 1
    BY FirstBounds
  <1> HIDE DEF q
  <1> DEFINE u == SubSeq(q, First(m), m)
             v == SubSeq(p, First(m), m)
  <1>4. LastOf(LogSize, q) = u
    BY <1>2 DEF LastOf, First
  <1>5. /\ u \in Seq(Nat) /\ Len(u) = m - First(m) + 1
        /\ \A i \in 1 .. m - First(m) + 1 : u[i] = q[First(m) + i - 1]
    <2>1. m <= Len(q)
      BY <1>2
    <2> QED
      BY <1>2, <1>3, <2>1, Cut, ZenonT(60)
  <1>6. /\ v \in Seq(Nat) /\ Len(v) = m - First(m) + 1
        /\ \A i \in 1 .. m - First(m) + 1 : v[i] = p[First(m) + i - 1]
    BY <1>1, <1>3, Cut
  <1> HIDE DEF u, v
  <1>7. u = v
    <2>1. \A i \in 1 .. Len(u) : u[i] = v[i]
      <3> TAKE i \in 1 .. Len(u)
      <3>1. i \in 1 .. m - First(m) + 1 /\ First(m) + i - 1 \in 1 .. m
        BY <1>3, <1>5, SMTT(30)
      <3> QED
        BY <1>2, <1>5, <1>6, <3>1
    <2> QED
      BY <1>5, <1>6, <2>1, SeqEqual
  <1>8. First(m) \in 1 .. Len(p) + 1 /\ m \in First(m) - 1 .. Len(p) /\ Len(p) \in m .. Len(p)
    BY <1>1, <1>3
  <1>9. v \o SubSeq(p, m + 1, Len(p)) = SubSeq(p, First(m), Len(p))
    BY <1>8, ConcatAdjacentSubSeq DEF v
  <1> QED
    BY <1>4, <1>7, <1>9 DEF q, Due

LEMMA DueGrows ==
    ASSUME NEW p \in Seq(Nat), NEW m \in Nat, m <= Len(p), NEW ch \in Nat
    PROVE  /\ Due(p, m) \in Seq(Nat)
           /\ Due(Append(p, ch), m) = Append(Due(p, m), ch)
  <1> DEFINE q == Append(p, ch)
             d == Due(p, m)
  <1>1. Len(p) \in Nat
    BY LenProperties
  <1>2. /\ q \in Seq(Nat) /\ Len(q) = Len(p) + 1 /\ q[Len(p) + 1] = ch
        /\ \A i \in 1 .. Len(p) : q[i] = p[i]
    BY AppendProperties
  <1>3. First(m) \in Nat /\ 1 <= First(m) /\ First(m) <= m + 1
    BY FirstBounds
  <1>4. /\ d \in Seq(Nat) /\ Len(d) = Len(p) - First(m) + 1
        /\ \A i \in 1 .. Len(p) - First(m) + 1 : d[i] = p[First(m) + i - 1]
    <2>1. First(m) <= Len(p) + 1 /\ Len(p) <= Len(p)
      BY <1>1, <1>3
    <2> QED
      BY <1>1, <1>3, <2>1, Cut, Zenon DEF Due
  <1> HIDE DEF q
  <1>5. /\ Due(q, m) \in Seq(Nat) /\ Len(Due(q, m)) = Len(p) + 1 - First(m) + 1
        /\ \A i \in 1 .. Len(p) + 1 - First(m) + 1 : Due(q, m)[i] = q[First(m) + i - 1]
    <2>1. First(m) <= (Len(p) + 1) + 1 /\ Len(p) + 1 \in Nat /\ Len(p) + 1 <= Len(q)
      BY <1>1, <1>2, <1>3
    <2>2. Len(q) \in Nat /\ Len(q) <= Len(q) /\ First(m) <= Len(q) + 1
      BY <1>2, <2>1
    <2>3. /\ Due(q, m) \in Seq(Nat) /\ Len(Due(q, m)) = Len(q) - First(m) + 1
          /\ \A i \in 1 .. Len(q) - First(m) + 1 : Due(q, m)[i] = q[First(m) + i - 1]
      BY <1>2, <1>3, <2>2, Cut, Zenon DEF Due
    <2>4. Len(q) - First(m) + 1 = Len(p) + 1 - First(m) + 1
      <3>1. Len(q) = Len(p) + 1
        BY <1>2
      <3> QED
        BY <1>1, <1>3, <3>1
    <2> QED
      BY <2>3, <2>4, Zenon
  <1> HIDE DEF d
  <1>6. /\ Append(d, ch) \in Seq(Nat) /\ Len(Append(d, ch)) = Len(d) + 1
        /\ Append(d, ch)[Len(d) + 1] = ch /\ \A i \in 1 .. Len(d) : Append(d, ch)[i] = d[i]
    BY <1>4, AppendProperties
  <1>7. \A i \in 1 .. Len(Due(q, m)) : Due(q, m)[i] = Append(d, ch)[i]
    <2> TAKE i \in 1 .. Len(Due(q, m))
    <2>1. i \in 1 .. Len(p) + 1 - First(m) + 1
      BY <1>1, <1>3, <1>5
    <2>2. CASE i = Len(d) + 1
      <3>1. First(m) + i - 1 = Len(p) + 1
        BY <1>1, <1>3, <1>4, <2>2
      <3> QED
        BY <1>2, <1>5, <1>6, <2>1, <2>2, <3>1
    <2>3. CASE i # Len(d) + 1
      <3>1. i \in 1 .. Len(d) /\ i \in 1 .. Len(p) - First(m) + 1 /\ First(m) + i - 1 \in 1 .. Len(p)
        <4>1. Len(d) \in Int /\ i \in Int /\ 1 <= i /\ i <= Len(d) + 1 /\ i # Len(d) + 1
          BY <1>1, <1>3, <1>4, <2>1, <2>3
        <4>2. Len(d) = Len(p) - First(m) + 1
          BY <1>4
        <4>3. i \in 1 .. Len(d)
          BY <4>1
        <4>4. i \in 1 .. Len(p) - First(m) + 1
          BY <4>2, <4>3, Zenon
        <4>5. First(m) + i - 1 \in 1 .. Len(p)
          BY <1>1, <1>3, <4>4, SMTT(30)
        <4> QED
          BY <4>3, <4>4, <4>5, Zenon
      <3> QED
        BY <1>2, <1>4, <1>5, <1>6, <2>1, <3>1
    <2> QED
      BY <2>2, <2>3
  <1>8. Len(Due(q, m)) = Len(Append(d, ch))
    BY <1>1, <1>3, <1>4, <1>5, <1>6
  <1>9. Due(q, m) = Append(d, ch)
    BY <1>5, <1>6, <1>7, <1>8, SeqEqual
  <1> QED
    BY <1>4, <1>9 DEF q, d

LEMMA PieceShape ==
    ASSUME log \in Log, NEW a \in Nat, NEW n \in Nat, a + n <= LogSize
    PROVE  /\ Piece(a, n) \in Seq(Nat) /\ Len(Piece(a, n)) = n
           /\ \A i \in 1 .. n : Piece(a, n)[i] = log[a + i - 1]
  <1>1. \A i \in 1 .. n : log[a + i - 1] \in Nat
    BY ConsoleAssumption DEF Log
  <1>2. Piece(a, n) \in [1 .. n -> Nat] /\ \A i \in 1 .. n : Piece(a, n)[i] = log[a + i - 1]
    BY <1>1 DEF Piece
  <1>3. Piece(a, n) \in Seq(Nat)
    BY <1>2, SeqDef
  <1>4. Len(Piece(a, n)) = n
    BY <1>2, <1>3, LenProperties
  <1> QED
    BY <1>2, <1>3, <1>4

(* A console registered now is given the last LogSize characters printed. *)
LEMMA ReplayIsDue ==
    ASSUME log \in Log, log_start \in 0 .. LogSize - 1, log_size \in 0 .. LogSize,
           printed \in Seq(Nat), Holds(log, log_start, log_size, printed, Len(printed))
    PROVE  Replay = Due(printed, Len(printed)) /\ Replay = LastOf(LogSize, printed)
  <1> DEFINE p == printed
             m == Len(printed)
             d == Due(p, m)
  <1>1. LogSize \in Nat \ {0} /\ m \in Nat
    BY ConsoleAssumption, LenProperties
  <1>2. First(m) \in Nat /\ 1 <= First(m) /\ First(m) <= m + 1
    BY <1>1, FirstBounds
  <1>3. /\ d \in Seq(Nat) /\ Len(d) = m - First(m) + 1
        /\ \A i \in 1 .. m - First(m) + 1 : d[i] = p[First(m) + i - 1]
    <2>1. m <= Len(p)
      BY <1>1
    <2> QED
      BY <1>1, <1>2, <2>1, Cut, Zenon DEF Due
  <1>4. d = LastOf(LogSize, p)
    BY DEF LastOf, Due, First
  <1> HIDE DEF d
  <1>5. CASE log_size < LogSize
    <2>1. log_start = 0 /\ log_size = m /\ \A i \in 0 .. m - 1 : log[i] = p[i + 1]
      BY <1>5 DEF Holds
    <2>2. Replay = Piece(0, m)
      BY <1>5, <2>1 DEF Replay
    <2>3. /\ Piece(0, m) \in Seq(Nat) /\ Len(Piece(0, m)) = m
          /\ \A i \in 1 .. m : Piece(0, m)[i] = log[0 + i - 1]
      <3>1. 0 \in Nat /\ 0 + m <= LogSize
        BY <1>1, <1>5, <2>1
      <3> QED
        BY <1>1, <3>1, PieceShape, Zenon
    <2>4. First(m) = 1
      BY <1>1, <1>5, <2>1 DEF First
    <2>5. \A i \in 1 .. m : d[i] = p[i] /\ Piece(0, m)[i] = p[i]
      <3> TAKE i \in 1 .. m
      <3>1. i - 1 \in 0 .. m - 1 /\ 0 + i - 1 = i - 1 /\ (i - 1) + 1 = i /\ First(m) + i - 1 = i
            /\ m - First(m) + 1 = m
        BY <1>1, <2>4
      <3> QED
        BY <1>3, <2>1, <2>3, <3>1
    <2>6. Len(d) = m
      BY <1>1, <1>3, <2>4
    <2>7. Piece(0, m) = d
      BY <1>3, <2>3, <2>5, <2>6, SeqEqual
    <2> QED
      BY <1>4, <2>2, <2>7 DEF d
  <1>6. CASE log_size = LogSize
    <2> DEFINE s == log_start
               x == Piece(s, LogSize - s)
               y == Piece(0, s)
    <2>1. /\ m >= LogSize
          /\ \A j \in 0 .. LogSize - 1 : log[Wrapped(s + j)] = p[m - LogSize + j + 1]
      BY <1>6 DEF Holds
    <2>2. Replay = x \o y
      BY <1>1, <1>6 DEF Replay
    <2>3. /\ x \in Seq(Nat) /\ Len(x) = LogSize - s
          /\ \A i \in 1 .. LogSize - s : x[i] = log[s + i - 1]
      <3>1. s \in Nat /\ LogSize - s \in Nat /\ s + (LogSize - s) <= LogSize
        BY <1>1
      <3> QED
        BY <3>1, PieceShape, Zenon
    <2>4. /\ y \in Seq(Nat) /\ Len(y) = s /\ \A i \in 1 .. s : y[i] = log[0 + i - 1]
      <3>1. s \in Nat /\ 0 \in Nat /\ 0 + s <= LogSize
        BY <1>1
      <3> QED
        BY <3>1, PieceShape, Zenon
    <2> HIDE DEF x, y
    <2>5. First(m) = m - LogSize + 1
      BY <1>1, <2>1 DEF First
    <2>6. Len(d) = LogSize
      BY <1>1, <1>3, <2>5
    <2>7. /\ x \o y \in Seq(Nat) /\ Len(x \o y) = Len(x) + Len(y)
          /\ \A i \in 1 .. Len(x) + Len(y) :
                (x \o y)[i] = IF i <= Len(x) THEN x[i] ELSE y[i - Len(x)]
      BY <2>3, <2>4, ConcatProperties
    <2>8. \A i \in 1 .. LogSize : (x \o y)[i] = d[i]
      <3> TAKE i \in 1 .. LogSize
      <3>1. /\ i - 1 \in 0 .. LogSize - 1 /\ i \in 1 .. Len(x) + Len(y)
            /\ m - LogSize + (i - 1) + 1 = First(m) + i - 1 /\ i \in 1 .. m - First(m) + 1
        BY <1>1, <2>3, <2>4, <2>5
      <3>2. d[i] = log[Wrapped(s + (i - 1))]
        BY <1>3, <2>1, <3>1
      <3>3. CASE i <= LogSize - s
        <4>1. Wrapped(s + (i - 1)) = s + i - 1 /\ i \in 1 .. LogSize - s
          BY <1>1, <3>3 DEF Wrapped
        <4>2. (x \o y)[i] = x[i]
          BY <2>3, <2>7, <3>1, <3>3
        <4> QED
          BY <2>3, <3>2, <4>1, <4>2
      <3>4. CASE ~(i <= LogSize - s)
        <4>1. /\ i - (LogSize - s) \in 1 .. s
              /\ Wrapped(s + (i - 1)) = 0 + (i - (LogSize - s)) - 1
          BY <1>1, <3>4 DEF Wrapped
        <4>2. (x \o y)[i] = y[i - (LogSize - s)]
          BY <2>3, <2>7, <3>1, <3>4
        <4> QED
          BY <2>4, <3>2, <4>1, <4>2
      <3> QED
        BY <3>3, <3>4
    <2>9. Len(x \o y) = LogSize
      BY <1>1, <2>3, <2>4, <2>7
    <2>10. x \o y = d
      BY <1>3, <2>6, <2>7, <2>8, <2>9, SeqEqual
    <2> QED
      BY <1>4, <2>2, <2>10 DEF d
  <1> QED
    BY <1>1, <1>5, <1>6

(* The call of console_write under way, its line, and whether the character *)
(* it stored is counted.                                                    *)
WriteRecord == [pc : {"store", "count", "line"}, line : Seq(Nat), left : Seq(Nat)]
Pending == IF writes = <<>> THEN <<>> ELSE writes[1].line
Logged == IF writes # <<>> /\ writes[1].pc = "count" THEN Len(printed) - 1 ELSE Len(printed)

ListTypes ==
    /\ consoles \in Seq(Consoles) /\ out \in [Consoles -> Seq(Nat)]
    /\ since \in [Consoles -> Nat] /\ \A c \in Consoles : since[c] <= Len(printed)

LogTypes ==
    /\ log \in Log /\ log_start \in 0 .. LogSize - 1 /\ log_size \in 0 .. LogSize
    /\ printed \in Seq(Nat)

WriteTypes == writes \in Seq(WriteRecord) /\ Len(writes) <= 1

(* Every console has what it is due but the line being put together. *)
Given(line) == \A c \in Range(consoles) : out[c] \o line = Due(printed, since[c])

(* The log is in order, and a line that is not written yet is not over. *)
ConsoleInv ==
    /\ ListTypes /\ LogTypes /\ WriteTypes
    /\ Holds(log, log_start, log_size, printed, Logged)
    /\ Given(Pending)
    /\ writes # <<>> /\ writes[1].pc = "store" /\ writes[1].left = <<>> => writes[1].line = <<>>

(* There is at most one call: it is the inner one. *)
LEMMA OneWrite ==
    ASSUME WriteTypes, writes # <<>>
    PROVE  /\ Len(writes) = 1 /\ Inner = writes[1] /\ Inner \in WriteRecord
           /\ Inner.pc \in {"store", "count", "line"}
           /\ Inner.line \in Seq(Nat) /\ Inner.left \in Seq(Nat)
           /\ Front(writes) = <<>>
           /\ DOMAIN Inner = {"pc", "line", "left"}
  <1>1. Len(writes) = 1
    <2>1. writes \in Seq(WriteRecord) /\ Len(writes) <= 1
      BY DEF WriteTypes
    <2>2. Len(writes) \in Nat \ {0}
      BY <2>1, EmptySeq, Zenon
    <2>3. \A n \in Nat \ {0} : n <= 1 => n = 1
      OBVIOUS
    <2> QED
      BY <2>1, <2>2, <2>3, Zenon
  <1>2. Inner = writes[1] /\ Inner \in WriteRecord
    BY <1>1, ElementOfSeq DEF Inner, Last, WriteTypes
  <1>3. Front(writes) = <<>>
    <2>1. Front(writes) = SubSeq(writes, 1, 0)
      BY <1>1 DEF Front
    <2> QED
      BY <2>1, SubSeqEmpty
  <1>4. /\ Inner.pc \in {"store", "count", "line"} /\ Inner.line \in Seq(Nat)
        /\ Inner.left \in Seq(Nat) /\ DOMAIN Inner = {"pc", "line", "left"}
    BY <1>2 DEF WriteRecord
  <1> QED
    BY <1>1, <1>2, <1>3, <1>4

LEMMA InnerSet ==
    ASSUME WriteTypes, writes # <<>>, NEW w \in WriteRecord, SetInner(w)
    PROVE  WriteTypes' /\ writes' # <<>> /\ writes'[1] = w
  <1>1. Len(writes) = 1
    BY OneWrite
  <1>2. writes' = [writes EXCEPT ![1] = w]
    BY <1>1 DEF SetInner
  <1>3. writes' \in Seq(WriteRecord) /\ Len(writes') = 1 /\ writes'[1] = w
    BY <1>1, <1>2, ExceptSeq DEF WriteTypes
  <1>4. writes' # <<>>
    BY <1>3, EmptySeq
  <1> QED
    BY <1>3, <1>4 DEF WriteTypes

(* A registration between calls. *)
LEMMA Registered ==
    ASSUME ConsoleInv, writes = <<>>, NEW c \in Consoles, RegisterConsole(c),
           UNCHANGED <<log, log_start, log_size, printed>>
    PROVE  ListTypes' /\ Given(<<>>)'
  <1>1. /\ ListTypes /\ LogTypes /\ Given(<<>>)
        /\ Holds(log, log_start, log_size, printed, Len(printed))
    BY DEF ConsoleInv, Pending, Logged
  <1>2. CASE c \in Range(consoles)
    <2>1. UNCHANGED <<consoles, out, since>>
      BY <1>2 DEF RegisterConsole
    <2> QED
      BY <1>1, <2>1 DEF ListTypes, Given
  <1>3. CASE c \notin Range(consoles)
    <2>1. /\ consoles' = Append(consoles, c) /\ out' = [out EXCEPT ![c] = Replay]
          /\ since' = [since EXCEPT ![c] = Len(printed)]
      BY <1>3 DEF RegisterConsole
    <2>2. Len(printed) \in Nat /\ Len(printed) <= Len(printed)
      BY <1>1, LenProperties DEF LogTypes
    <2>3. Replay = Due(printed, Len(printed))
      BY <1>1, ReplayIsDue DEF LogTypes
    <2>4. Due(printed, Len(printed)) \in Seq(Nat)
      BY <1>1, <2>2, DueGrows DEF LogTypes
    <2>5. ListTypes'
      BY <1>1, <2>1, <2>2, <2>3, <2>4, AppendProperties DEF ListTypes
    <2>6. Range(consoles') = Range(consoles) \cup {c}
      <3>1. consoles' = consoles \o <<c>> /\ <<c>> \in Seq(Consoles)
        BY <1>1, <2>1, AppendIsConcat DEF ListTypes
      <3>2. Range(<<c>>) = {c}
        BY DEF Range
      <3>3. consoles \in Seq(Consoles)
        BY <1>1 DEF ListTypes
      <3>4. Range(consoles \o <<c>>) = Range(consoles) \cup Range(<<c>>)
        BY <3>1, <3>3, RangeConcatenation, ZenonT(60)
      <3> QED
        BY <3>1, <3>2, <3>4, Zenon
    <2>7. ASSUME NEW d \in Range(consoles')
          PROVE  out'[d] \o <<>> = Due(printed, since'[d])
      <3>1. CASE d = c
        <4>1. out'[d] = Due(printed, Len(printed)) /\ since'[d] = Len(printed)
          BY <1>1, <2>1, <2>3, <3>1 DEF ListTypes
        <4> QED
          BY <2>4, <4>1, ConcatEmptySeq
      <3>2. CASE d # c
        <4>1. d \in Range(consoles) /\ out'[d] = out[d] /\ since'[d] = since[d]
          BY <1>1, <2>1, <2>6, <3>2, RangeOfSeq DEF ListTypes
        <4> QED
          BY <1>1, <4>1 DEF Given
      <3> QED
        BY <3>1, <3>2
    <2> QED
      BY <2>5, <2>7 DEF Given
  <1> QED
    BY <1>2, <1>3

(* Calls to the list alone leave the log in order. *)
LEMMA LogSame ==
    ASSUME ConsoleInv, writes = <<>>, UNCHANGED <<log, log_start, log_size, printed>>,
           writes' = <<>> \/ writes'[1].pc = "store"
    PROVE  LogTypes' /\ Holds(log', log_start', log_size', printed', Logged')
  <1>1. Logged' = Len(printed) /\ Logged = Len(printed)
    BY DEF Logged
  <1> QED
    BY <1>1 DEF ConsoleInv, LogTypes

LEMMA registerInv == ConsoleInv /\ register_console => ConsoleInv'
  <1> SUFFICES ASSUME ConsoleInv, register_console PROVE ConsoleInv'
    OBVIOUS
  <1>1. PICK c \in Consoles : RegisterConsole(c)
    BY DEF register_console
  <1>2. writes = <<>> /\ UNCHANGED <<log, log_start, log_size, writes, printed>>
    BY DEF register_console
  <1>3. ListTypes' /\ Given(<<>>)'
    BY <1>1, <1>2, Registered
  <1>4. WriteTypes' /\ Given(Pending)'
    BY <1>2, <1>3 DEF ConsoleInv, WriteTypes, Given, Pending
  <1>5. writes' = <<>> /\ UNCHANGED <<log, log_start, log_size, printed>>
    BY <1>2
  <1> QED
    BY <1>2, <1>3, <1>4, <1>5, LogSame DEF ConsoleInv

LEMMA unregisterInv == ConsoleInv /\ unregister_console => ConsoleInv'
  <1> SUFFICES ASSUME ConsoleInv, unregister_console PROVE ConsoleInv'
    OBVIOUS
  <1>1. PICK c \in Consoles :
          consoles' = IF c \in Range(consoles)
                      THEN RemoveAt(consoles, CHOOSE i \in DOMAIN consoles : consoles[i] = c)
                      ELSE consoles
    BY DEF unregister_console
  <1>2. writes = <<>> /\ UNCHANGED <<log, log_start, log_size, writes, out, printed, since>>
    BY DEF unregister_console
  <1>3. consoles \in Seq(Consoles)
    BY DEF ConsoleInv, ListTypes
  <1>4. consoles' \in Seq(Consoles) /\ Range(consoles') \subseteq Range(consoles)
    <2>1. CASE c \notin Range(consoles)
      BY <1>1, <1>3, <2>1
    <2>2. CASE c \in Range(consoles)
      <3>1. PICK i \in DOMAIN consoles : consoles' = RemoveAt(consoles, i)
        BY <1>1, <2>2 DEF Range
      <3>2. DOMAIN consoles = 1 .. Len(consoles) /\ Len(consoles) \in Nat
        BY <1>3, LenProperties
      <3>3. \A j \in 1 .. Len(consoles) : consoles[j] \in Range(consoles)
        BY <3>2 DEF Range
      <3> DEFINE a == SubSeq(consoles, 1, i - 1)
                 b == SubSeq(consoles, i + 1, Len(consoles))
      <3>4. a \in Seq(Range(consoles))
        <4>1. i - 1 \in Int /\ 1 \in Int /\ \A j \in 1 .. i - 1 : consoles[j] \in Range(consoles)
          BY <3>2, <3>3
        <4> QED
          BY <4>1, SubSeqProperties
      <3>5. b \in Seq(Range(consoles))
        <4>1. /\ i + 1 \in Int /\ Len(consoles) \in Int
              /\ \A j \in i + 1 .. Len(consoles) : consoles[j] \in Range(consoles)
          BY <3>2, <3>3
        <4> QED
          BY <4>1, SubSeqProperties
      <3>6. consoles' = a \o b
        BY <3>1 DEF RemoveAt
      <3>7. consoles' \in Seq(Range(consoles))
        BY <3>4, <3>5, <3>6, ConcatProperties
      <3>8. Range(consoles) \subseteq Consoles
        BY <1>3, RangeOfSeq
      <3> QED
        BY <3>7, <3>8, RangeOfSeq, SeqMonotonic
    <2> QED
      BY <2>1, <2>2
  <1>5. ListTypes' /\ WriteTypes' /\ Given(Pending)'
    BY <1>2, <1>4 DEF ConsoleInv, ListTypes, WriteTypes, Given, Pending
  <1>6. writes' = <<>> /\ UNCHANGED <<log, log_start, log_size, printed>>
    BY <1>2
  <1> QED
    BY <1>2, <1>5, <1>6, LogSame DEF ConsoleInv

LEMMA console_writeInv == ConsoleInv /\ MaxNested = 0 /\ console_write => ConsoleInv'
  <1> SUFFICES ASSUME ConsoleInv, MaxNested = 0, console_write PROVE ConsoleInv'
    OBVIOUS
  <1> DEFINE L(m) == SubSeq(m, 1, IF Len(m) > PrintMax THEN PrintMax ELSE Len(m))
             W(m) == [pc |-> "store", line |-> <<>>, left |-> L(m)]
  <1>1. PICK m \in Messages : writes' = Append(writes, W(m))
    BY DEF console_write
  <1>2. /\ Len(writes) <= 0 /\ UNCHANGED <<log, log_start, log_size, printed>>
        /\ IF consoles = <<>> THEN RegisterConsole(VtConsole) ELSE UNCHANGED <<consoles, out, since>>
    BY DEF console_write
  <1>3. writes = <<>>
    <2>1. writes # <<>> => Len(writes) = 1
      BY OneWrite DEF ConsoleInv
    <2> QED
      BY <1>2, <2>1
  <1>4. L(m) \in Seq(Nat)
    <2>1. m \in Seq(Nat) /\ PrintMax \in Nat
      BY ConsoleAssumption
    <2>2. Len(m) \in Nat
      BY <2>1, LenProperties
    <2>3. PICK n \in Nat : n = (IF Len(m) > PrintMax THEN PrintMax ELSE Len(m)) /\ n <= Len(m)
      BY <2>1, <2>2
    <2>4. SubSeq(m, 1, n) \in Seq(Nat)
      <3>1. 1 \in Nat /\ 1 <= 1 /\ 1 <= n + 1
        OBVIOUS
      <3> QED
        BY <2>1, <2>3, <3>1, Cut, Zenon
    <2> QED
      BY <2>3, <2>4
  <1> HIDE DEF L
  <1>5. <<>> \in Seq(Nat)
    BY EmptySeq
  <1>6. W(m) \in WriteRecord
    BY <1>4, <1>5 DEF WriteRecord
  <1>7. W(m).pc = "store" /\ W(m).line = <<>>
    OBVIOUS
  <1> HIDE DEF W
  <1>8. /\ WriteTypes' /\ writes' # <<>> /\ writes'[1] = W(m)
    <2>1. writes \in Seq(WriteRecord) /\ Len(writes) = 0
      BY <1>3, EmptySeq DEF ConsoleInv, WriteTypes
    <2>2. /\ writes' \in Seq(WriteRecord) /\ writes' # <<>> /\ Len(writes') = Len(writes) + 1
          /\ writes'[Len(writes) + 1] = W(m)
      BY <1>1, <1>6, <2>1, AppendProperties
    <2>3. Len(writes) + 1 = 1
      BY <2>1
    <2> QED
      BY <2>2, <2>3 DEF WriteTypes
  <1>9. ListTypes' /\ Given(<<>>)'
    <2>1. CASE consoles = <<>>
      BY <1>2, <1>3, <2>1, Registered, ConsoleAssumption
    <2>2. CASE consoles # <<>>
      BY <1>2, <1>3, <2>2 DEF ConsoleInv, ListTypes, Given, Pending
    <2> QED
      BY <2>1, <2>2
  <1>10. Given(Pending)'
    BY <1>7, <1>8, <1>9 DEF Given, Pending
  <1>11. LogTypes' /\ Holds(log', log_start', log_size', printed', Logged')
    BY <1>2, <1>3, <1>7, <1>8, LogSame
  <1> QED
    BY <1>7, <1>8, <1>9, <1>10, <1>11 DEF ConsoleInv

(* a, then b with one more character. *)
LEMMA Longer ==
    ASSUME NEW a \in Seq(Nat), NEW b \in Seq(Nat), NEW x \in Nat
    PROVE  a \o Append(b, x) = Append(a \o b, x)
  OBVIOUS

LEMMA StoreInv == ConsoleInv /\ LogStore => ConsoleInv'
  <1> SUFFICES ASSUME ConsoleInv, LogStore PROVE ConsoleInv'
    OBVIOUS
  <1> DEFINE ch == Head(Inner.left)
             w == [Inner EXCEPT !.pc = "count", !.left = Tail(@), !.line = Append(@, ch)]
             at == (log_start + log_size) % LogSize
  <1>1. /\ writes # <<>> /\ Inner.pc = "store" /\ Inner.left # <<>>
        /\ log' = [log EXCEPT ![at] = ch] /\ printed' = Append(printed, ch) /\ SetInner(w)
        /\ UNCHANGED <<consoles, log_start, log_size, out, since>>
    BY DEF LogStore
  <1>2. ListTypes /\ LogTypes /\ WriteTypes
    BY DEF ConsoleInv
  <1>3. /\ Inner = writes[1] /\ Inner.line \in Seq(Nat) /\ Inner.left \in Seq(Nat)
        /\ DOMAIN Inner = {"pc", "line", "left"}
    BY <1>1, <1>2, OneWrite
  <1>4. ch \in Nat /\ Tail(Inner.left) \in Seq(Nat)
    BY <1>1, <1>3, HeadTailProperties
  <1> HIDE DEF ch
  <1>5. Append(Inner.line, ch) \in Seq(Nat)
    BY <1>3, <1>4, AppendProperties
  <1>6. PICK v : v = w
    OBVIOUS
  <1>7. /\ v.pc = "count" /\ v.left = Tail(Inner.left) /\ v.line = Append(Inner.line, ch)
        /\ DOMAIN v = {"pc", "line", "left"} /\ v = [f \in DOMAIN v |-> v[f]]
    BY <1>3, <1>6
  <1>8. v \in WriteRecord
    BY <1>4, <1>5, <1>7 DEF WriteRecord
  <1>9. WriteTypes' /\ writes' # <<>> /\ writes'[1] = v
    BY <1>1, <1>2, <1>6, <1>8, InnerSet
  <1>10. /\ printed \in Seq(Nat) /\ Len(printed) \in Nat
         /\ printed' \in Seq(Nat) /\ Len(printed') = Len(printed) + 1
    BY <1>1, <1>2, <1>4, AppendProperties, LenProperties DEF LogTypes
  <1>11. Logged = Len(printed) /\ Logged' = Len(printed)
    BY <1>1, <1>3, <1>7, <1>9, <1>10 DEF Logged
  <1>12. at = Wrapped(log_start + log_size)
    <2>1. log_start + log_size \in 0 .. 2 * LogSize - 1
      BY <1>2, ConsoleAssumption DEF LogTypes
    <2> QED
      BY <2>1, WrappedOnce
  <1> HIDE DEF at
  <1>13. log' \in Log /\ Holds(log', log_start, log_size, printed', Len(printed))
    <2>1. Holds(log, log_start, log_size, printed, Len(printed))
      BY <1>11 DEF ConsoleInv
    <2>2. log' = [log EXCEPT ![Wrapped(log_start + log_size)] = ch]
      BY <1>1, <1>12
    <2>3. /\ log \in Log /\ log_start \in 0 .. LogSize - 1 /\ log_size \in 0 .. LogSize
          /\ printed \in Seq(Nat)
      BY <1>2 DEF LogTypes
    <2>4. /\ [log EXCEPT ![Wrapped(log_start + log_size)] = ch] \in Log
          /\ Holds([log EXCEPT ![Wrapped(log_start + log_size)] = ch], log_start, log_size,
                   Append(printed, ch), Len(printed))
      BY <1>4, <2>1, <2>3, Stored, Zenon
    <2> QED
      BY <1>1, <2>2, <2>4, Zenon
  <1>14. LogTypes'
    BY <1>1, <1>2, <1>10, <1>13 DEF LogTypes
  <1>15. Holds(log', log_start', log_size', printed', Logged')
    BY <1>1, <1>11, <1>13
  <1>16. ListTypes'
    BY <1>1, <1>2, <1>10 DEF ListTypes
  <1>17. Given(Pending)'
    <2> SUFFICES ASSUME NEW c \in Range(consoles)
                 PROVE  out[c] \o Append(Inner.line, ch) = Due(printed', since[c])
      BY <1>1, <1>7, <1>9 DEF Given, Pending
    <2>1. c \in Consoles
      BY <1>2, RangeOfSeq DEF ListTypes
    <2>2. out[c] \in Seq(Nat) /\ since[c] \in Nat /\ since[c] <= Len(printed)
      BY <1>2, <2>1 DEF ListTypes
    <2>3. out[c] \o Inner.line = Due(printed, since[c])
      BY <1>1, <1>3 DEF ConsoleInv, Given, Pending
    <2>4. Due(printed', since[c]) = Append(Due(printed, since[c]), ch)
      BY <1>1, <1>4, <1>10, <2>2, DueGrows
    <2>5. out[c] \o Append(Inner.line, ch) = Append(out[c] \o Inner.line, ch)
      BY <1>3, <1>4, <2>2, Longer
    <2> QED
      BY <2>3, <2>4, <2>5, Zenon
  <1> QED
    BY <1>7, <1>9, <1>14, <1>15, <1>16, <1>17 DEF ConsoleInv

LEMMA CountInv == ConsoleInv /\ LogCount => ConsoleInv'
  <1> SUFFICES ASSUME ConsoleInv, LogCount PROVE ConsoleInv'
    OBVIOUS
  <1> DEFINE pc == IF Last(Inner.line) = Newline \/ Inner.left = <<>> THEN "line" ELSE "store"
  <1>1. /\ writes # <<>> /\ Inner.pc = "count" /\ SetInner([Inner EXCEPT !.pc = pc])
        /\ log_size' = IF log_size < LogSize THEN log_size + 1 ELSE log_size
        /\ log_start' = IF log_size < LogSize THEN log_start ELSE (log_start + 1) % LogSize
        /\ UNCHANGED <<consoles, log, out, printed, since>>
    BY DEF LogCount
  <1>2. ListTypes /\ LogTypes /\ WriteTypes
    BY DEF ConsoleInv
  <1>3. /\ Inner = writes[1] /\ Inner \in WriteRecord
    BY <1>1, <1>2, OneWrite
  <1>4. pc \in {"line", "store"} /\ (pc = "store" => Inner.left # <<>>)
    OBVIOUS
  <1> HIDE DEF pc
  <1>5. PICK v : v = [Inner EXCEPT !.pc = pc]
    OBVIOUS
  <1>6. v \in WriteRecord /\ v.pc = pc /\ v.left = Inner.left /\ v.line = Inner.line
    BY <1>3, <1>4, <1>5 DEF WriteRecord
  <1>7. WriteTypes' /\ writes' # <<>> /\ writes'[1] = v
    BY <1>1, <1>2, <1>5, <1>6, InnerSet
  <1>8. Len(printed) \in Nat
    BY <1>2, LenProperties DEF LogTypes
  <1>9. Logged + 1 = Len(printed) /\ Logged' = Logged + 1
    <2>1. Logged = Len(printed) - 1
      BY <1>1, <1>3 DEF Logged
    <2>2. Logged' = Len(printed)
      BY <1>1, <1>4, <1>6, <1>7 DEF Logged
    <2> QED
      BY <1>8, <2>1, <2>2
  <1>10. log_start + 1 \in 0 .. 2 * LogSize - 1
    BY <1>2, ConsoleAssumption DEF LogTypes
  <1>11. (log_start + 1) % LogSize = Wrapped(log_start + 1) /\ Wrapped(log_start + 1) \in 0 .. LogSize - 1
    BY <1>10, WrappedOnce
  <1>12. LogTypes'
    BY <1>1, <1>2, <1>11, ConsoleAssumption DEF LogTypes
  <1>13. Holds(log', log_start', log_size', printed', Logged')
    <2>1. Holds(log, log_start, log_size, printed, Logged)
      BY DEF ConsoleInv
    <2>2. /\ log \in Log /\ log_start \in 0 .. LogSize - 1 /\ log_size \in 0 .. LogSize
          /\ printed \in Seq(Nat)
      BY <1>2 DEF LogTypes
    <2>3. Holds(log, IF log_size < LogSize THEN log_start ELSE Wrapped(log_start + 1),
                IF log_size < LogSize THEN log_size + 1 ELSE log_size, printed, Logged + 1)
      BY <1>9, <2>1, <2>2, Counted, Zenon
    <2>4. log_start' = IF log_size < LogSize THEN log_start ELSE Wrapped(log_start + 1)
      BY <1>1, <1>11
    <2> QED
      BY <1>1, <1>9, <2>3, <2>4, Zenon
  <1>14. ListTypes' /\ Given(Pending)'
    BY <1>1, <1>2, <1>3, <1>6, <1>7 DEF ConsoleInv, ListTypes, Given, Pending
  <1> QED
    BY <1>4, <1>6, <1>7, <1>12, <1>13, <1>14 DEF ConsoleInv

LEMMA LineInv == ConsoleInv /\ WriteLine => ConsoleInv'
  <1> SUFFICES ASSUME ConsoleInv, WriteLine PROVE ConsoleInv'
    OBVIOUS
  <1>1. /\ writes # <<>> /\ Inner.pc = "line"
        /\ out' = [c \in Consoles |-> IF c \in Range(consoles) THEN out[c] \o Inner.line ELSE out[c]]
        /\ SetInner([Inner EXCEPT !.pc = "store", !.line = <<>>])
        /\ UNCHANGED <<consoles, log, log_start, log_size, printed, since>>
    BY DEF WriteLine
  <1>2. ListTypes /\ LogTypes /\ WriteTypes
    BY DEF ConsoleInv
  <1>3. /\ Inner = writes[1] /\ Inner.line \in Seq(Nat) /\ Inner.left \in Seq(Nat)
        /\ DOMAIN Inner = {"pc", "line", "left"}
    BY <1>1, <1>2, OneWrite
  <1>4. PICK v : v = [Inner EXCEPT !.pc = "store", !.line = <<>>]
    OBVIOUS
  <1>5. /\ v.pc = "store" /\ v.left = Inner.left /\ v.line = <<>>
        /\ DOMAIN v = {"pc", "line", "left"} /\ v = [f \in DOMAIN v |-> v[f]]
    BY <1>3, <1>4
  <1>6. v \in WriteRecord
    BY <1>3, <1>5, EmptySeq, ZenonT(30) DEF WriteRecord
  <1>7. WriteTypes' /\ writes' # <<>> /\ writes'[1] = v
    BY <1>1, <1>2, <1>4, <1>6, InnerSet
  <1>8. Logged' = Len(printed) /\ Logged = Len(printed)
    BY <1>1, <1>3, <1>5, <1>7 DEF Logged
  <1>9. LogTypes' /\ Holds(log', log_start', log_size', printed', Logged')
    BY <1>1, <1>2, <1>8 DEF ConsoleInv, LogTypes
  <1>10. ASSUME NEW c \in Consoles
         PROVE  out'[c] \in Seq(Nat) /\ (c \in Range(consoles) => out'[c] = out[c] \o Inner.line)
    <2>1. out[c] \in Seq(Nat)
      BY <1>2 DEF ListTypes
    <2>2. out[c] \o Inner.line \in Seq(Nat)
      BY <1>3, <2>1, ConcatProperties
    <2> QED
      BY <1>1, <2>1, <2>2
  <1>11. ListTypes'
    <2>1. out' \in [Consoles -> Seq(Nat)]
      BY <1>1, <1>10
    <2> QED
      BY <1>1, <1>2, <2>1 DEF ListTypes
  <1>12. Given(Pending)'
    <2> SUFFICES ASSUME NEW c \in Range(consoles)
                 PROVE  out'[c] \o <<>> = Due(printed, since[c])
      BY <1>1, <1>5, <1>7 DEF Given, Pending
    <2>1. c \in Consoles
      BY <1>2, RangeOfSeq DEF ListTypes
    <2>2. out[c] \o Inner.line = Due(printed, since[c])
      BY <1>1, <1>3 DEF ConsoleInv, Given, Pending
    <2> QED
      BY <1>10, <2>1, <2>2, ConcatEmptySeq
  <1> QED
    BY <1>5, <1>7, <1>9, <1>11, <1>12 DEF ConsoleInv

LEMMA ReturnInv == ConsoleInv /\ WriteReturns => ConsoleInv'
  <1> SUFFICES ASSUME ConsoleInv, WriteReturns PROVE ConsoleInv'
    OBVIOUS
  <1>1. /\ writes # <<>> /\ Inner.pc = "store" /\ Inner.left = <<>> /\ writes' = Front(writes)
        /\ UNCHANGED <<consoles, log, log_start, log_size, out, printed, since>>
    BY DEF WriteReturns
  <1>2. Inner = writes[1] /\ writes' = <<>>
    BY <1>1, OneWrite DEF ConsoleInv
  <1>3. Pending = <<>> /\ Pending' = <<>>
    BY <1>1, <1>2 DEF ConsoleInv, Pending
  <1>4. Logged' = Len(printed) /\ Logged = Len(printed)
    BY <1>1, <1>2 DEF Logged
  <1>5. LogTypes' /\ Holds(log', log_start', log_size', printed', Logged')
    BY <1>1, <1>4 DEF ConsoleInv, LogTypes
  <1>6. WriteTypes'
    BY <1>2, EmptySeq DEF WriteTypes
  <1>7. ListTypes' /\ Given(Pending)'
    BY <1>1, <1>3 DEF ConsoleInv, ListTypes, Given
  <1> QED
    BY <1>2, <1>5, <1>6, <1>7 DEF ConsoleInv

LEMMA ConsoleStarts == ConsoleInit => ConsoleInv
  <1> SUFFICES ASSUME ConsoleInit PROVE ConsoleInv
    OBVIOUS
  <1>1. LogSize \in Nat \ {0}
    BY ConsoleAssumption
  <1>2. <<>> \in Seq(Nat) /\ <<>> \in Seq(Consoles) /\ <<>> \in Seq(WriteRecord) /\ Len(<<>>) = 0
    BY EmptySeq
  <1>3. ListTypes
    BY <1>2 DEF ConsoleInit, ListTypes
  <1>4. LogTypes /\ WriteTypes
    BY <1>1, <1>2 DEF ConsoleInit, LogTypes, WriteTypes, Log
  <1>5. Logged = 0 /\ Len(printed) = 0
    BY <1>2 DEF ConsoleInit, Logged
  <1>6. Holds(log, log_start, log_size, printed, Logged)
    BY <1>1, <1>5 DEF ConsoleInit, Holds
  <1>7. Given(Pending)
    BY DEF ConsoleInit, Given, Range
  <1> QED
    BY <1>3, <1>4, <1>6, <1>7 DEF ConsoleInv, ConsoleInit

LEMMA ConsoleStep ==
    MaxNested = 0 /\ ConsoleInv /\ [ConsoleNext]_console_vars => ConsoleInv'
  <1>1. ASSUME ConsoleInv, UNCHANGED console_vars PROVE ConsoleInv'
    BY <1>1 DEF console_vars, ConsoleInv, ListTypes, LogTypes, WriteTypes, Given, Pending, Logged
  <1> QED
    BY <1>1, registerInv, unregisterInv, console_writeInv, StoreInv, CountInv, LineInv, ReturnInv
       DEF ConsoleNext

(* For any size of the log, any messages and any number of consoles, as long  *)
(* as no handler prints in the middle of a message: between messages every    *)
(* registered console has been given, once and in order, what the log held    *)
(* when it was registered and everything since, and the log holds the last    *)
(* KERNEL_LOG_SIZE characters, wrapped round or not.                          *)
THEOREM LogIsComplete ==
    MaxNested = 0 => (ServicesSpec => []NothingUnprinted)
  <1> SUFFICES ASSUME MaxNested = 0 PROVE ServicesSpec => []NothingUnprinted
    OBVIOUS
  <1>1. ServicesInit => ConsoleInv
    BY ConsoleStarts DEF ServicesInit
  <1>2. ConsoleInv /\ [ServicesNext]_services_vars => ConsoleInv'
    <2> SUFFICES ASSUME ConsoleInv, [ServicesNext]_services_vars PROVE ConsoleInv'
      OBVIOUS
    <2>1. [ConsoleNext]_console_vars
      BY DEF ServicesNext, RingSteps, RtcSteps, ConsoleSteps, IoSteps, services_vars
    <2> QED
      BY <2>1, ConsoleStep
  <1>3. ConsoleInv => NothingUnprinted
    <2> SUFFICES ASSUME ConsoleInv, writes = <<>>
                 PROVE  /\ Replay = LastOf(LogSize, printed)
                        /\ \A c \in Range(consoles) :
                              out[c] = LastOf(LogSize, SubSeq(printed, 1, since[c]))
                                          \o SubSeq(printed, since[c] + 1, Len(printed))
      BY DEF NothingUnprinted
    <2>1. ListTypes /\ LogTypes /\ Given(<<>>)
          /\ Holds(log, log_start, log_size, printed, Len(printed))
      BY DEF ConsoleInv, Pending, Logged
    <2>2. Replay = LastOf(LogSize, printed)
      BY <2>1, ReplayIsDue DEF LogTypes
    <2>3. ASSUME NEW c \in Range(consoles)
          PROVE  out[c] = LastOf(LogSize, SubSeq(printed, 1, since[c]))
                             \o SubSeq(printed, since[c] + 1, Len(printed))
      <3>1. c \in Consoles
        BY <2>1, RangeOfSeq DEF ListTypes
      <3>2. out[c] \in Seq(Nat) /\ since[c] \in Nat /\ since[c] <= Len(printed)
        BY <2>1, <3>1 DEF ListTypes
      <3>3. out[c] = Due(printed, since[c])
        BY <2>1, <3>2, ConcatEmptySeq DEF Given
      <3>4. printed \in Seq(Nat)
        BY <2>1 DEF LogTypes
      <3> QED
        BY <3>2, <3>3, <3>4, DueParts, Zenon
    <2> QED
      BY <2>2, <2>3
  <1> QED
    BY <1>1, <1>2, <1>3, PTL DEF ServicesSpec

-------------------------------------------------------------------------------
(* The I/O port ranges.                                                     *)

(* What drivers ask for are ranges of ports, none of which starts below     *)
(* another and reaches into it; the search of reserve_io_range misses that  *)
(* overlap.                                                                 *)
NoneReachesUp ==
    /\ PoolSize \in Nat
    /\ Ranges \subseteq [base : Nat, count : Nat \ {0}]
    /\ \A r, s \in Ranges : Overlap(r, s) => r.base = s.base

(* q is the list from its head round to the head: n items, linked both ways. *)
Linked(n, q) ==
    /\ n \in Nat /\ n <= taken /\ q \in [0 .. n + 1 -> Nodes]
    /\ q[0] = ListHead /\ q[n + 1] = ListHead
    /\ \A k \in 1 .. n : q[k] \in 1 .. taken
    /\ \A j, k \in 1 .. n : q[j] = q[k] => j = k
    /\ \A k \in 0 .. n : next[q[k]] = q[k + 1] /\ prev[q[k + 1]] = q[k]

(* Its ranges are those that were granted, each ending before the next. *)
InOrder(n, q) ==
    /\ \A k \in 1 .. n : item[q[k]] \in Ranges
    /\ \A j, k \in 1 .. n : j < k => item[q[j]].base + item[q[j]].count <= item[q[k]].base
    /\ granted = {item[q[k]] : k \in 1 .. n}

IoTypes ==
    /\ prev \in [Nodes -> Nodes] /\ next \in [Nodes -> Nodes]
    /\ item \in [Items -> [base : Nat, count : Nat]]
    /\ taken \in 0 .. PoolSize

IoInv == IoTypes /\ \E n, q : Linked(n, q) /\ InOrder(n, q)

LEMMA LeastNumber ==
    ASSUME NEW S, S \subseteq Nat, S # {}
    PROVE  \E m \in S : \A n \in S : m <= n
  <1> DEFINE R == {ss \in Nat \X Nat : ss[1] < ss[2]}
  <1>1. IsWellFoundedOn(R, Nat)
    BY NatLessThanWellFounded DEF OpToRel
  <1> HIDE DEF R
  <1>2. PICK m \in S : \A n \in S : <<n, m>> \notin R
    BY <1>1, WFMin, Zenon
  <1>3. \A n \in S : ~(n < m)
    BY <1>2 DEF R
  <1> QED
    BY <1>3

(* Following a link function from the head is well defined. *)
LEMMA FromSteps ==
    ASSUME PoolSize \in Nat, NEW link \in [Nodes -> Nodes]
    PROVE  /\ From(link) \in [0 .. PoolSize + 1 -> Nodes]
           /\ From(link)[0] = ListHead
           /\ \A k \in 1 .. PoolSize + 1 : From(link)[k] = link[From(link)[k - 1]]
  <1> DEFINE N == PoolSize + 1
             Steps(f, m) == /\ f \in [0 .. m -> Nodes] /\ f[0] = ListHead
                            /\ \A k \in 1 .. m : f[k] = link[f[k - 1]]
             B == {m \in 0 .. N : ~ \E f : Steps(f, m)}
  <1>0. ListHead \in Nodes /\ N \in Nat
    BY DEF Nodes, ListHead
  <1>1. B = {}
    <2> SUFFICES ASSUME B # {} PROVE FALSE
      OBVIOUS
    <2>1. PICK m \in B : \A n \in B : m <= n
      <3>1. B \subseteq Nat
        BY <1>0
      <3> HIDE DEF B
      <3> QED
        BY <3>1, LeastNumber, Zenon
    <2>2. CASE m = 0
      <3>1. Steps([k \in 0 .. 0 |-> ListHead], 0)
        BY <1>0
      <3> QED
        BY <2>2, <3>1
    <2>3. CASE m # 0
      <3>0. m \in 0 .. N
        OBVIOUS
      <3>1. m - 1 \in 0 .. N /\ m - 1 \notin B
        <4> HIDE DEF B
        <4> QED
          BY <2>1, <2>3, <3>0, <1>0
      <3>2. PICK f : Steps(f, m - 1)
        BY <3>1
      <3> DEFINE g == [k \in 0 .. m |-> IF k = m THEN link[f[m - 1]] ELSE f[k]]
      <3>3. m \in Nat /\ f[m - 1] \in Nodes
        BY <2>1, <2>3, <3>2, <1>0
      <3>4. g \in [0 .. m -> Nodes] /\ g[0] = ListHead
        BY <2>3, <3>2, <3>3
      <3>5. \A k \in 1 .. m : g[k] = link[g[k - 1]]
        BY <2>3, <3>2, <3>3
      <3>6. Steps(g, m)
        BY <3>4, <3>5
      <3> QED
        BY <3>6
    <2> QED
      BY <2>2, <2>3
  <1>2. PICK f : Steps(f, N)
    BY <1>0, <1>1
  <1>3. f = [k \in 0 .. PoolSize + 1 |-> IF k = 0 THEN ListHead ELSE link[f[k - 1]]]
    BY <1>2
  <1>4. From(link) = [k \in 0 .. PoolSize + 1 |-> IF k = 0 THEN ListHead ELSE link[From(link)[k - 1]]]
    BY <1>3 DEF From
  <1> DEFINE w == From(link)
  <1>5. w = [k \in 0 .. N |-> IF k = 0 THEN ListHead ELSE link[w[k - 1]]]
    BY <1>4
  <1>6. \A k \in 0 .. N : w[k] = IF k = 0 THEN ListHead ELSE link[w[k - 1]]
    BY <1>5
  <1> HIDE DEF w
  <1> DEFINE C == {m \in 0 .. N : w[m] \notin Nodes}
  <1>7. C = {}
    <2> SUFFICES ASSUME C # {} PROVE FALSE
      OBVIOUS
    <2>1. PICK m \in C : \A n \in C : m <= n
      <3>1. C \subseteq Nat
        BY <1>0
      <3> HIDE DEF C
      <3> QED
        BY <3>1, LeastNumber, Zenon
    <2>2. m # 0
      BY <1>6, <1>0
    <2>3. m - 1 \in 0 .. N /\ m - 1 \notin C
      BY <2>1, <2>2, <1>0
    <2> QED
      BY <2>1, <2>2, <2>3, <1>6
  <1>8. /\ w \in [0 .. N -> Nodes] /\ w[0] = ListHead
        /\ \A k \in 1 .. N : w[k] = link[w[k - 1]]
    <2>1. \A k \in 0 .. N : w[k] \in Nodes
      BY <1>7
    <2>2. DOMAIN w = 0 .. N /\ w = [k \in 0 .. N |-> w[k]]
      BY <1>5
    <2>3. \A k \in 1 .. N : k \in 0 .. N /\ k # 0
      BY <1>0
    <2>4. w \in [0 .. N -> Nodes]
      <3> HIDE DEF N
      <3> QED
        BY <2>1, <2>2
    <2>5. w[0] = ListHead
      BY <1>0, <1>6
    <2>6. \A k \in 1 .. N : w[k] = link[w[k - 1]]
      BY <2>3, <1>6
    <2> QED
      BY <2>4, <2>5, <2>6
  <1> QED
    BY <1>8 DEF w

(* A walk along either link function visits the items in their order. *)
LEMMA WalkIs ==
    ASSUME PoolSize \in Nat, NEW link \in [Nodes -> Nodes],
           NEW n \in 0 .. PoolSize, NEW q \in [0 .. n + 1 -> Nodes],
           q[0] = ListHead, q[n + 1] = ListHead,
           \A k \in 1 .. n : q[k] # ListHead,
           \A k \in 0 .. n : link[q[k]] = q[k + 1]
    PROVE  Walk(link) = [k \in 1 .. n |-> q[k]]
  <1> DEFINE w == From(link)
             ends == {k \in 1 .. PoolSize + 1 : w[k] = ListHead}
             first == CHOOSE k \in ends : \A l \in ends : k <= l
             D == {m \in 0 .. n + 1 : w[m] # q[m]}
  <1>1. /\ w \in [0 .. PoolSize + 1 -> Nodes] /\ w[0] = ListHead
        /\ \A k \in 1 .. PoolSize + 1 : w[k] = link[w[k - 1]]
    BY FromSteps
  <1> HIDE DEF w
  <1>2. D = {}
    <2> SUFFICES ASSUME D # {} PROVE FALSE
      OBVIOUS
    <2>1. PICK m \in D : \A l \in D : m <= l
      <3>1. D \subseteq Nat
        OBVIOUS
      <3> HIDE DEF D
      <3> QED
        BY <3>1, LeastNumber, Zenon
    <2>2. m \in 0 .. n + 1 /\ m # 0
      BY <1>1
    <2>3. m - 1 \in 0 .. n /\ m - 1 \in 0 .. n + 1 /\ m \in 1 .. PoolSize + 1 /\ (m - 1) + 1 = m
      BY <2>2
    <2>4. w[m - 1] = q[m - 1]
      BY <2>1, <2>3
    <2>5. w[m] = link[w[m - 1]] /\ link[q[m - 1]] = q[(m - 1) + 1]
      BY <1>1, <2>3
    <2> QED
      BY <2>1, <2>3, <2>4, <2>5
  <1>3. \A k \in 0 .. n + 1 : w[k] = q[k]
    BY <1>2
  <1>4. n + 1 \in ends /\ \A k \in ends : n + 1 <= k
    BY <1>3
  <1>5. first = n + 1
    <2>1. \A k \in ends : (\A l \in ends : k <= l) => k = n + 1
      BY <1>4
    <2> HIDE DEF ends
    <2> QED
      BY <1>4, <2>1
  <1>6. ends # {}
    BY <1>4
  <1>7. Walk(link) = [k \in 1 .. n |-> w[k]]
    <2>1. Walk(link) = [k \in 1 .. (IF ends = {} THEN PoolSize ELSE first - 1) |-> w[k]]
      BY DEF Walk, w
    <2> HIDE DEF ends, first
    <2>2. (IF ends = {} THEN PoolSize ELSE first - 1) = n
      BY <1>5, <1>6
    <2> QED
      BY <2>1, <2>2
  <1>8. \A k \in 1 .. n : w[k] = q[k]
    BY <1>3
  <1> QED
    BY <1>7, <1>8

(* What both walks see under the invariant. *)
LEMMA BothWalks ==
    ASSUME PoolSize \in Nat, IoTypes, NEW n, NEW q, Linked(n, q)
    PROVE  /\ Walk(next) = [k \in 1 .. n |-> q[k]]
           /\ Walk(prev) = [k \in 1 .. n |-> q[n + 1 - k]]
  <1>1. /\ n \in Nat /\ n \in 0 .. PoolSize /\ q \in [0 .. n + 1 -> Nodes]
        /\ q[0] = ListHead /\ q[n + 1] = ListHead
        /\ \A k \in 1 .. n : q[k] # ListHead
        /\ \A k \in 0 .. n : next[q[k]] = q[k + 1] /\ prev[q[k + 1]] = q[k]
        /\ next \in [Nodes -> Nodes] /\ prev \in [Nodes -> Nodes]
    BY DEF Linked, IoTypes, ListHead
  <1>2. Walk(next) = [k \in 1 .. n |-> q[k]]
    <2>1. \A k \in 0 .. n : next[q[k]] = q[k + 1]
      BY <1>1
    <2> QED
      BY <1>1, <2>1, WalkIs
  <1>3. PICK p : p = [k \in 0 .. n + 1 |-> q[n + 1 - k]]
    OBVIOUS
  <1>4. /\ p \in [0 .. n + 1 -> Nodes] /\ p[0] = ListHead /\ p[n + 1] = ListHead
        /\ \A k \in 1 .. n : p[k] # ListHead
    BY <1>1, <1>3
  <1>5. \A k \in 0 .. n : prev[p[k]] = p[k + 1]
    <2> TAKE k \in 0 .. n
    <2>1. n - k \in 0 .. n /\ (n - k) + 1 = n + 1 - k /\ n + 1 - (k + 1) = n - k
          /\ k \in 0 .. n + 1 /\ k + 1 \in 0 .. n + 1
      BY <1>1
    <2>2. prev[q[(n - k) + 1]] = q[n - k]
      BY <1>1, <2>1
    <2> QED
      BY <1>3, <2>1, <2>2
  <1>6. Walk(prev) = [k \in 1 .. n |-> p[k]]
    BY <1>1, <1>4, <1>5, WalkIs
  <1>7. \A k \in 1 .. n : p[k] = q[n + 1 - k]
    BY <1>1, <1>3
  <1> QED
    BY <1>2, <1>6, <1>7

(* The invariant gives the property. *)
LEMMA InOrderDisjoint ==
    ASSUME NoneReachesUp, IoInv
    PROVE  RangesDisjoint
  <1>1. PICK n, q : Linked(n, q) /\ InOrder(n, q)
    BY DEF IoInv
  <1>2. PoolSize \in Nat /\ IoTypes
    BY DEF NoneReachesUp, IoInv
  <1>3. /\ Walk(next) = [k \in 1 .. n |-> q[k]]
        /\ Walk(prev) = [k \in 1 .. n |-> q[n + 1 - k]]
    BY <1>1, <1>2, BothWalks
  <1>4. n \in Nat
    BY <1>1 DEF Linked
  <1>5. PICK l : l = Listed(next)
    OBVIOUS
  <1>6. l = [k \in 1 .. n |-> item[q[k]]]
    BY <1>3, <1>5 DEF Listed
  <1>7. Len(l) = n
    BY <1>4, <1>6
  <1>8. /\ \A k \in 1 .. n : l[k].base \in Nat /\ l[k].count \in Nat /\ l[k].count > 0
        /\ \A j, k \in 1 .. n : j < k => l[j].base + l[j].count <= l[k].base
        /\ granted = {l[k] : k \in 1 .. n}
    <2>1. \A k \in 1 .. n : l[k] = item[q[k]] /\ item[q[k]] \in Ranges
      BY <1>1, <1>6 DEF InOrder
    <2>2. \A k \in 1 .. n : l[k].base \in Nat /\ l[k].count \in Nat /\ l[k].count > 0
      BY <2>1 DEF NoneReachesUp
    <2>3. \A j, k \in 1 .. n : j < k => l[j].base + l[j].count <= l[k].base
      BY <1>1, <2>1 DEF InOrder
    <2> QED
      BY <1>1, <2>1, <2>2, <2>3 DEF InOrder
  <1>9. \A j, k \in 1 .. n : j < k => l[j].base < l[k].base /\ ~Overlap(l[j], l[k])
    <2> TAKE j, k \in 1 .. n
    <2> HAVE j < k
    <2>1. l[j].base + l[j].count <= l[k].base
      BY <1>8
    <2> QED
      BY <1>8, <2>1 DEF Overlap
  <1>10. Cardinality(granted) = n
    <2>1. ExistsBijection(1 .. n, granted)
      <3>1. \A j, k \in 1 .. n : l[j] = l[k] => j = k
        <4> TAKE j, k \in 1 .. n
        <4> HAVE l[j] = l[k]
        <4>1. ~(j < k) /\ ~(k < j)
          BY <1>8, <1>9
        <4> QED
          BY <4>1, <1>4
      <3>2. l \in [1 .. n -> granted]
        BY <1>6, <1>8
      <3>3. l \in Bijection(1 .. n, granted)
        BY <1>8, <3>1, <3>2 DEF Bijection, Injection, Surjection, IsInjective
      <3> QED
        BY <3>3 DEF ExistsBijection
    <2>2. IsFiniteSet(1 .. n) /\ Cardinality(1 .. n) = n
      BY <1>4, FS_Interval
    <2> QED
      BY <2>1, <2>2, FS_Bijection
  <1>11. Walk(prev) = [k \in 1 .. n |-> Walk(next)[n + 1 - k]]
    <2>1. \A k \in 1 .. n : n + 1 - k \in 1 .. n
      BY <1>4
    <2>2. \A k \in 1 .. n : Walk(next)[n + 1 - k] = q[n + 1 - k]
      BY <1>3, <2>1
    <2> QED
      BY <1>3, <2>2
  <1> QED
    BY <1>5, <1>7, <1>8, <1>9, <1>10, <1>11 DEF RangesDisjoint

(* The list after an item goes in before position p, and after the item at  *)
(* position p comes out.                                                     *)
PutIn(n, q, p, i) == [k \in 0 .. n + 2 |-> IF k < p THEN q[k] ELSE IF k = p THEN i ELSE q[k - 1]]
TakenOut(n, q, p) == [k \in 0 .. n |-> IF k < p THEN q[k] ELSE q[k + 1]]

LEMMA TwoStores ==
    ASSUME NEW f \in [Nodes -> Nodes], NEW a \in Nodes, NEW b \in Nodes,
           NEW x \in Nodes, NEW y \in Nodes,
           NEW g, g = [[f EXCEPT ![a] = x] EXCEPT ![b] = y]
    PROVE  /\ g \in [Nodes -> Nodes] /\ g[b] = y
           /\ a # b => g[a] = x
           /\ \A z \in Nodes : z # a /\ z # b => g[z] = f[z]
  OBVIOUS

LEMMA ItemAdded ==
    ASSUME PoolSize \in Nat, IoTypes, taken < PoolSize, taken' = taken + 1,
           NEW n, NEW q, Linked(n, q), NEW p \in 1 .. n + 1,
           list_add(q[p], taken + 1),
           NEW u, u = PutIn(n, q, p, taken + 1)
    PROVE  /\ Linked(n + 1, u)'
           /\ prev' \in [Nodes -> Nodes] /\ next' \in [Nodes -> Nodes]
  <1> DEFINE i == taken + 1
  <1>1. /\ n \in Nat /\ n <= taken /\ taken \in Nat /\ q \in [0 .. n + 1 -> Nodes]
        /\ q[0] = ListHead /\ q[n + 1] = ListHead
        /\ \A k \in 1 .. n : q[k] \in 1 .. taken
        /\ \A j, k \in 1 .. n : q[j] = q[k] => j = k
        /\ \A k \in 0 .. n : next[q[k]] = q[k + 1] /\ prev[q[k + 1]] = q[k]
    BY DEF Linked, IoTypes
  <1>2. i \in Nodes /\ i # ListHead /\ i \in Nat
    BY <1>1 DEF Nodes, Items, ListHead
  <1>3. \A k \in 0 .. n + 1 : q[k] # i /\ q[k] \in Nodes
    <2> TAKE k \in 0 .. n + 1
    <2>1. CASE k \in 1 .. n
      BY <1>1, <2>1
    <2>2. CASE k = 0 \/ k = n + 1
      BY <1>1, <1>2, <2>2
    <2> QED
      BY <1>1, <2>1, <2>2
  <1>4. p - 1 \in 0 .. n /\ (p - 1) + 1 = p /\ p \in 0 .. n + 1
    BY <1>1
  <1>5. prev[q[p]] = q[p - 1] /\ next[q[p - 1]] = q[p]
    BY <1>1, <1>4
  <1>6. /\ prev' = [[prev EXCEPT ![q[p]] = i] EXCEPT ![i] = q[p - 1]]
        /\ next' = [[next EXCEPT ![q[p - 1]] = i] EXCEPT ![i] = q[p]]
    BY <1>5 DEF list_add, insert_into_list
  <1>7a. /\ prev \in [Nodes -> Nodes] /\ next \in [Nodes -> Nodes]
         /\ q[p] \in Nodes /\ q[p - 1] \in Nodes /\ q[p] # i /\ q[p - 1] # i
    <2>1. p - 1 \in 0 .. n + 1
      BY <1>1, <1>4
    <2> QED
      BY <1>3, <1>4, <2>1 DEF IoTypes
  <1>7b. /\ prev' \in [Nodes -> Nodes] /\ prev'[i] = q[p - 1] /\ prev'[q[p]] = i
         /\ \A x \in Nodes : x # i /\ x # q[p] => prev'[x] = prev[x]
    <2> HIDE DEF i
    <2> QED
      BY <1>2, <1>6, <1>7a, TwoStores
  <1>7c. /\ next' \in [Nodes -> Nodes] /\ next'[i] = q[p] /\ next'[q[p - 1]] = i
         /\ \A x \in Nodes : x # i /\ x # q[p - 1] => next'[x] = next[x]
    <2> HIDE DEF i
    <2> QED
      BY <1>2, <1>6, <1>7a, TwoStores
  <1>7. prev' \in [Nodes -> Nodes] /\ next' \in [Nodes -> Nodes]
    BY <1>7b, <1>7c
  <1>8. /\ next'[i] = q[p] /\ prev'[i] = q[p - 1]
        /\ next'[q[p - 1]] = i /\ prev'[q[p]] = i
        /\ \A x \in Nodes : x # i /\ x # q[p - 1] => next'[x] = next[x]
        /\ \A x \in Nodes : x # i /\ x # q[p] => prev'[x] = prev[x]
    BY <1>7b, <1>7c
  <1>9. \A j, k \in 0 .. n : q[j] = q[k] => j = k
    <2> TAKE j, k \in 0 .. n
    <2> HAVE q[j] = q[k]
    <2>1. \A l \in 1 .. n : q[l] # q[0]
      BY <1>1 DEF ListHead
    <2> QED
      BY <1>1, <2>1, SMTT(30)
  <1>10. \A j, k \in 1 .. n + 1 : q[j] = q[k] => j = k
    <2> TAKE j, k \in 1 .. n + 1
    <2> HAVE q[j] = q[k]
    <2>1. \A l \in 1 .. n : q[l] # q[n + 1]
      BY <1>1 DEF ListHead
    <2> QED
      BY <1>1, <2>1
  <1>11. /\ DOMAIN u = 0 .. n + 2
         /\ \A k \in 0 .. n + 2 : k < p => u[k] = q[k]
         /\ u[p] = i
         /\ \A k \in 0 .. n + 2 : k > p => u[k] = q[k - 1]
    BY <1>1, <1>4 DEF PutIn
  <1>12. u \in [0 .. n + 2 -> Nodes]
    <2>1. \A k \in 0 .. n + 2 : u[k] \in Nodes
      <3> TAKE k \in 0 .. n + 2
      <3>1. (k < p => k \in 0 .. n + 1) /\ (k > p => k - 1 \in 0 .. n + 1)
        BY <1>1, <1>4
      <3> QED
        BY <1>2, <1>3, <1>4, <1>11, <3>1
    <2> QED
      BY <2>1 DEF PutIn
  <1>13. u[0] = ListHead /\ u[n + 2] = ListHead
    BY <1>1, <1>4, <1>11
  <1>14. \A k \in 1 .. n + 1 : u[k] \in 1 .. taken'
    <2> TAKE k \in 1 .. n + 1
    <2>1. CASE k < p
      BY <1>1, <1>4, <1>11, <2>1
    <2>2. CASE k = p
      BY <1>1, <1>11, <2>2
    <2>3. CASE k > p
      BY <1>1, <1>4, <1>11, <2>3, SMTT(30)
    <2> QED
      BY <1>4, <2>1, <2>2, <2>3
  <1>15. \A j, k \in 1 .. n + 1 : u[j] = u[k] => j = k
    <2>1. \A k \in 1 .. n + 1 : k # p => \E l \in 1 .. n : u[k] = q[l] /\ l = IF k < p THEN k ELSE k - 1
      <3> TAKE k \in 1 .. n + 1
      <3> HAVE k # p
      <3>1. CASE k < p
        BY <1>1, <1>4, <1>11, <3>1
      <3>2. CASE k > p
        <4>1. k - 1 \in 1 .. n /\ u[k] = q[k - 1]
          BY <1>1, <1>4, <1>11, <3>2
        <4> QED
          BY <3>2, <4>1
      <3> QED
        BY <1>4, <3>1, <3>2
    <2> TAKE j, k \in 1 .. n + 1
    <2> HAVE u[j] = u[k]
    <2>2. CASE j = p
      <3>1. CASE k # p
        <4>1. PICK l \in 1 .. n : u[k] = q[l]
          BY <2>1, <3>1
        <4> QED
          BY <1>1, <1>3, <1>11, <2>2, <4>1
      <3> QED
        BY <2>2, <3>1
    <2>3. CASE k = p
      <3>1. CASE j # p
        <4>1. PICK l \in 1 .. n : u[j] = q[l]
          BY <2>1, <3>1
        <4> QED
          BY <1>1, <1>3, <1>11, <2>3, <4>1
      <3> QED
        BY <2>3, <3>1
    <2>4. CASE j # p /\ k # p
      <3>1. PICK l \in 1 .. n : u[j] = q[l] /\ l = IF j < p THEN j ELSE j - 1
        BY <2>1, <2>4
      <3>2. PICK m \in 1 .. n : u[k] = q[m] /\ m = IF k < p THEN k ELSE k - 1
        BY <2>1, <2>4
      <3>3. l = m
        BY <1>1, <3>1, <3>2, SMTT(60)
      <3> QED
        BY <1>4, <2>4, <3>1, <3>2, <3>3
    <2> QED
      BY <2>2, <2>3, <2>4
  <1>16. \A k \in 0 .. n + 1 : next'[u[k]] = u[k + 1] /\ prev'[u[k + 1]] = u[k]
    <2> TAKE k \in 0 .. n + 1
    <2>1. CASE k + 1 < p
      <3>1. k \in 0 .. n /\ k + 1 \in 1 .. n + 1 /\ k \in 0 .. n + 1 /\ k + 1 \in 0 .. n + 1
            /\ k # p - 1 /\ k + 1 # p /\ k \in 0 .. n + 2 /\ k + 1 \in 0 .. n + 2 /\ k < p
        BY <1>1, <1>4, <2>1
      <3>2. u[k] = q[k] /\ u[k + 1] = q[k + 1]
        BY <1>11, <2>1, <3>1
      <3>3. q[k] # q[p - 1] /\ q[k + 1] # q[p]
        BY <1>4, <1>9, <1>10, <3>1
      <3>4. next'[q[k]] = next[q[k]] /\ prev'[q[k + 1]] = prev[q[k + 1]]
        BY <1>3, <1>8, <3>1, <3>3
      <3> QED
        BY <1>1, <3>1, <3>2, <3>4
    <2>2. CASE k + 1 = p
      <3>1. k = p - 1 /\ u[k] = q[k] /\ u[k + 1] = i
        BY <1>1, <1>4, <1>11, <2>2
      <3> QED
        BY <1>8, <3>1
    <2>3. CASE k = p
      <3>1. u[k] = i /\ u[k + 1] = q[p]
        <4>1. k + 1 \in 0 .. n + 2 /\ k + 1 > p /\ (k + 1) - 1 = p
          BY <1>1, <1>4, <2>3
        <4> QED
          BY <1>11, <2>3, <4>1
      <3> QED
        BY <1>8, <3>1
    <2>4. CASE k > p
      <3>1. k - 1 \in 0 .. n /\ k - 1 \in 0 .. n + 1 /\ k \in 1 .. n + 1 /\ k \in 0 .. n + 1
            /\ k - 1 # p - 1 /\ k # p /\ (k - 1) + 1 = k /\ k \in 0 .. n + 2 /\ k + 1 \in 0 .. n + 2
            /\ k + 1 > p /\ (k + 1) - 1 = k
        BY <1>1, <1>4, <2>4
      <3>2. u[k] = q[k - 1] /\ u[k + 1] = q[k]
        BY <1>11, <2>4, <3>1
      <3>3. q[k - 1] # q[p - 1] /\ q[k] # q[p]
        BY <1>4, <1>9, <1>10, <3>1
      <3>4. next'[q[k - 1]] = next[q[k - 1]] /\ prev'[q[k]] = prev[q[k]]
        BY <1>3, <1>8, <3>1, <3>3
      <3>5. next[q[k - 1]] = q[(k - 1) + 1] /\ prev[q[(k - 1) + 1]] = q[k - 1]
        BY <1>1, <3>1
      <3> QED
        BY <3>1, <3>2, <3>4, <3>5
    <2> QED
      BY <1>1, <1>4, <2>1, <2>2, <2>3, <2>4
  <1>17. n + 1 \in Nat /\ n + 1 <= taken' /\ (n + 1) + 1 = n + 2
    BY <1>1
  <1> QED
    BY <1>7, <1>12, <1>13, <1>14, <1>15, <1>16, <1>17 DEF Linked

LEMMA ItemRemoved ==
    ASSUME IoTypes, taken' = taken,
           NEW n, NEW q, Linked(n, q), NEW p \in 1 .. n,
           list_remove(q[p]),
           NEW v, v = TakenOut(n, q, p)
    PROVE  /\ Linked(n - 1, v)'
           /\ prev' \in [Nodes -> Nodes] /\ next' \in [Nodes -> Nodes]
  <1>1. /\ n \in Nat /\ n <= taken /\ taken \in Nat /\ q \in [0 .. n + 1 -> Nodes]
        /\ q[0] = ListHead /\ q[n + 1] = ListHead
        /\ \A k \in 1 .. n : q[k] \in 1 .. taken
        /\ \A j, k \in 1 .. n : q[j] = q[k] => j = k
        /\ \A k \in 0 .. n : next[q[k]] = q[k + 1] /\ prev[q[k + 1]] = q[k]
    BY DEF Linked, IoTypes
  <1>2. \A k \in 0 .. n + 1 : q[k] \in Nodes
    BY <1>1
  <1>3. /\ p - 1 \in 0 .. n /\ (p - 1) + 1 = p /\ p \in 0 .. n /\ p + 1 \in 1 .. n + 1
        /\ p - 1 \in 0 .. n + 1 /\ p \in 0 .. n + 1 /\ p + 1 \in 0 .. n + 1
        /\ p \in 1 .. n + 1 /\ p # p - 1 /\ p # p + 1
    BY <1>1
  <1>4. \A j, k \in 0 .. n : q[j] = q[k] => j = k
    <2> TAKE j, k \in 0 .. n
    <2> HAVE q[j] = q[k]
    <2>1. \A l \in 1 .. n : q[l] # q[0]
      BY <1>1 DEF ListHead
    <2> QED
      BY <1>1, <2>1
  <1>5. \A j, k \in 1 .. n + 1 : q[j] = q[k] => j = k
    <2> TAKE j, k \in 1 .. n + 1
    <2> HAVE q[j] = q[k]
    <2>1. \A l \in 1 .. n : q[l] # q[n + 1]
      BY <1>1 DEF ListHead
    <2>2. (j \in 1 .. n \/ j = n + 1) /\ (k \in 1 .. n \/ k = n + 1)
      BY <1>1
    <2> QED
      BY <1>1, <2>1, <2>2
  <1>6. prev[q[p]] = q[p - 1] /\ next[q[p]] = q[p + 1]
    <2>1. prev[q[(p - 1) + 1]] = q[p - 1]
      BY <1>1, <1>3
    <2> QED
      BY <1>1, <1>3, <2>1
  <1>7. /\ prev' = [[prev EXCEPT ![q[p + 1]] = q[p - 1]] EXCEPT ![q[p]] = q[p]]
        /\ next' = [[next EXCEPT ![q[p - 1]] = q[p + 1]] EXCEPT ![q[p]] = q[p]]
    BY <1>6 DEF list_remove, remove_from_list
  <1>8. /\ prev \in [Nodes -> Nodes] /\ next \in [Nodes -> Nodes]
        /\ q[p] \in Nodes /\ q[p - 1] \in Nodes /\ q[p + 1] \in Nodes
        /\ q[p - 1] # q[p] /\ q[p + 1] # q[p]
    BY <1>2, <1>3, <1>4, <1>5 DEF IoTypes
  <1>9. /\ prev' \in [Nodes -> Nodes] /\ prev'[q[p + 1]] = q[p - 1]
        /\ \A x \in Nodes : x # q[p + 1] /\ x # q[p] => prev'[x] = prev[x]
    BY <1>7, <1>8, TwoStores
  <1>10. /\ next' \in [Nodes -> Nodes] /\ next'[q[p - 1]] = q[p + 1]
         /\ \A x \in Nodes : x # q[p - 1] /\ x # q[p] => next'[x] = next[x]
    BY <1>7, <1>8, TwoStores
  <1>11. /\ v \in [0 .. n -> Nodes]
         /\ \A k \in 0 .. n : k < p => v[k] = q[k]
         /\ \A k \in 0 .. n : k >= p => v[k] = q[k + 1]
    <2>1. \A k \in 0 .. n : k \in 0 .. n + 1 /\ k + 1 \in 0 .. n + 1
      BY <1>1
    <2>2. \A k \in 0 .. n : q[k] \in Nodes /\ q[k + 1] \in Nodes
      BY <1>2, <2>1
    <2> QED
      BY <1>1, <2>2 DEF TakenOut
  <1>12. v[0] = ListHead /\ v[n] = ListHead
    BY <1>1, <1>3, <1>11
  <1>13. \A k \in 1 .. n - 1 : \E l \in 1 .. n : v[k] = q[l] /\ l = IF k < p THEN k ELSE k + 1
    <2> TAKE k \in 1 .. n - 1
    <2>1. CASE k < p
      BY <1>1, <1>11, <2>1
    <2>2. CASE k >= p
      <3>1. k + 1 \in 1 .. n /\ v[k] = q[k + 1]
        BY <1>1, <1>11, <2>2
      <3> QED
        BY <2>2, <3>1
    <2> QED
      BY <1>3, <2>1, <2>2
  <1>14. \A k \in 1 .. n - 1 : v[k] \in 1 .. taken
    BY <1>1, <1>13
  <1>15. \A j, k \in 1 .. n - 1 : v[j] = v[k] => j = k
    <2> TAKE j, k \in 1 .. n - 1
    <2> HAVE v[j] = v[k]
    <2>1. PICK l \in 1 .. n : v[j] = q[l] /\ l = IF j < p THEN j ELSE j + 1
      BY <1>13
    <2>2. PICK m \in 1 .. n : v[k] = q[m] /\ m = IF k < p THEN k ELSE k + 1
      BY <1>13
    <2>3. l = m
      BY <1>1, <2>1, <2>2, ZenonT(60)
    <2> QED
      BY <1>3, <2>1, <2>2, <2>3
  <1>16. \A k \in 0 .. n - 1 : next'[v[k]] = v[k + 1] /\ prev'[v[k + 1]] = v[k]
    <2> TAKE k \in 0 .. n - 1
    <2>1. CASE k + 1 < p
      <3>1. /\ k \in 0 .. n /\ k + 1 \in 0 .. n /\ k + 1 \in 1 .. n + 1 /\ k < p
            /\ k \in 0 .. n + 1 /\ k + 1 \in 0 .. n + 1
            /\ k # p - 1 /\ k # p /\ k + 1 # p /\ k + 1 # p + 1
        BY <1>1, <1>3, <2>1
      <3>2. v[k] = q[k] /\ v[k + 1] = q[k + 1]
        BY <1>11, <2>1, <3>1
      <3>3. q[k] # q[p - 1] /\ q[k] # q[p] /\ q[k + 1] # q[p + 1] /\ q[k + 1] # q[p]
        BY <1>3, <1>4, <1>5, <3>1
      <3>4. next'[q[k]] = next[q[k]] /\ prev'[q[k + 1]] = prev[q[k + 1]]
        BY <1>2, <1>9, <1>10, <3>1, <3>3
      <3> QED
        BY <1>1, <3>1, <3>2, <3>4
    <2>2. CASE k + 1 = p
      <3>1. k = p - 1 /\ v[k] = q[p - 1] /\ v[k + 1] = q[p + 1]
        <4>1. k = p - 1 /\ k \in 0 .. n /\ k < p /\ p >= p
          BY <1>1, <1>3, <2>2
        <4> QED
          BY <1>3, <1>11, <2>2, <4>1
      <3> QED
        BY <1>9, <1>10, <3>1
    <2>3. CASE k >= p
      <3>1. /\ k \in 0 .. n /\ k + 1 \in 0 .. n /\ k + 1 >= p
            /\ k + 1 \in 0 .. n + 1 /\ k + 2 \in 0 .. n + 1 /\ k + 2 \in 1 .. n + 1
            /\ k + 1 # p - 1 /\ k + 1 # p /\ k + 2 # p /\ k + 2 # p + 1
            /\ (k + 1) + 1 = k + 2
        BY <1>1, <1>3, <2>3
      <3>2. v[k] = q[k + 1] /\ v[k + 1] = q[k + 2]
        BY <1>11, <2>3, <3>1
      <3>3. q[k + 1] # q[p - 1] /\ q[k + 1] # q[p] /\ q[k + 2] # q[p + 1] /\ q[k + 2] # q[p]
        BY <1>3, <1>4, <1>5, <3>1
      <3>4. next'[q[k + 1]] = next[q[k + 1]] /\ prev'[q[k + 2]] = prev[q[k + 2]]
        BY <1>2, <1>9, <1>10, <3>1, <3>3
      <3>5. next[q[k + 1]] = q[k + 2] /\ prev[q[k + 2]] = q[k + 1]
        BY <1>1, <3>1
      <3> QED
        BY <3>2, <3>4, <3>5
    <2> QED
      BY <1>1, <1>3, <2>1, <2>2, <2>3
  <1>17. n - 1 \in Nat /\ n - 1 <= taken' /\ (n - 1) + 1 = n
    BY <1>1
  <1> QED
    BY <1>9, <1>10, <1>11, <1>12, <1>14, <1>15, <1>16, <1>17 DEF Linked

(* A new range goes where the search of reserve_io_range stops. *)
LEMMA reserve_io_rangeInv ==
    ASSUME NoneReachesUp, IoInv, NEW r \in Ranges, reserve_io_range(r)
    PROVE  IoInv'
  <1>1. PICK n, q : Linked(n, q) /\ InOrder(n, q)
    BY DEF IoInv
  <1>2. /\ PoolSize \in Nat /\ IoTypes /\ n \in Nat /\ n <= taken /\ taken \in Nat
        /\ taken < PoolSize /\ taken' = taken + 1 /\ item' = [item EXCEPT ![taken + 1] = r]
        /\ \A k \in 1 .. n : q[k] \in 1 .. taken
        /\ q[n + 1] = ListHead
    BY <1>1 DEF NoneReachesUp, IoInv, IoTypes, Linked, reserve_io_range
  <1>3. /\ r.base \in Nat /\ r.count \in Nat /\ r.count > 0 /\ r \in [base : Nat, count : Nat]
    BY DEF NoneReachesUp
  <1>4. \A k \in 1 .. n : /\ q[k] \in Items /\ q[k] # taken + 1 /\ item[q[k]] \in Ranges
                          /\ item[q[k]].base \in Nat /\ item[q[k]].count \in Nat
                          /\ item[q[k]].count > 0
    <2> TAKE k \in 1 .. n
    <2>1. item[q[k]] \in Ranges
      BY <1>1 DEF InOrder
    <2> QED
      BY <1>2, <2>1 DEF NoneReachesUp, Items
  <1>5. /\ item' \in [Items -> [base : Nat, count : Nat]] /\ taken' \in 0 .. PoolSize
        /\ item'[taken + 1] = r
        /\ \A k \in 1 .. n : item'[q[k]] = item[q[k]]
    <2>1. taken + 1 \in Items
      BY <1>2 DEF Items
    <2> QED
      BY <1>2, <1>3, <1>4, <2>1 DEF IoTypes
  <1>6. PICK seq : seq = Walk(next)
    OBVIOUS
  <1>7. seq = [k \in 1 .. n |-> q[k]]
    BY <1>1, <1>2, <1>6, BothWalks
  <1>8. PICK hits : hits = {k \in DOMAIN seq : Below(r, item[seq[k]]) \/ Inside(r, item[seq[k]])}
    OBVIOUS
  <1>9. /\ hits \subseteq 1 .. n
        /\ \A k \in 1 .. n : k \in hits <=> Below(r, item[q[k]]) \/ Inside(r, item[q[k]])
    BY <1>7, <1>8
  <1> DEFINE least == CHOOSE k \in hits : \A l \in hits : k <= l
  <1>10. PICK e : e = IF hits = {} THEN ListHead ELSE seq[least]
    <2> HIDE DEF least
    <2> QED
      OBVIOUS
  <1>11. IF e # ListHead /\ Inside(r, item[e])
         THEN UNCHANGED <<prev, next, granted>>
         ELSE list_add(e, taken + 1) /\ granted' = granted \cup {r}
    BY <1>6, <1>8, <1>10 DEF reserve_io_range
  <1>12. PICK p \in 1 .. n + 1 :
            /\ e = q[p]
            /\ \A k \in 1 .. n : k < p => k \notin hits
            /\ p # n + 1 => p \in hits
    <2>1. CASE hits = {}
      BY <1>2, <1>10, <2>1
    <2>2. CASE hits # {}
      <3>1. PICK m \in hits : \A l \in hits : m <= l
        <4>1. hits \subseteq Nat
          BY <1>2, <1>9
        <4> QED
          BY <2>2, <4>1, LeastNumber, Zenon
      <3>2. PICK c : c = least
        OBVIOUS
      <3>3. c \in hits /\ \A l \in hits : c <= l
        BY <3>1, <3>2
      <3>4. c \in 1 .. n /\ e = q[c]
        BY <1>7, <1>9, <1>10, <2>2, <3>2, <3>3
      <3> QED
        BY <1>2, <3>3, <3>4
    <2> QED
      BY <2>1, <2>2
  <1>13. CASE e # ListHead /\ Inside(r, item[e])
    <2>1. UNCHANGED <<prev, next, granted>>
      BY <1>11, <1>13
    <2>2. Linked(n, q)'
      BY <1>1, <1>2, <2>1 DEF Linked
    <2>3. InOrder(n, q)'
      BY <1>1, <1>2, <1>5, <2>1 DEF InOrder
    <2>4. IoTypes'
      BY <1>2, <1>5, <2>1 DEF IoTypes
    <2> QED
      BY <2>2, <2>3, <2>4 DEF IoInv
  <1>14. CASE ~(e # ListHead /\ Inside(r, item[e]))
    <2>1. list_add(q[p], taken + 1) /\ granted' = granted \cup {r}
      BY <1>11, <1>12, <1>14
    <2>2. PICK u : u = PutIn(n, q, p, taken + 1)
      OBVIOUS
    <2>3. Linked(n + 1, u)' /\ prev' \in [Nodes -> Nodes] /\ next' \in [Nodes -> Nodes]
      BY <1>1, <1>2, <1>12, <2>1, <2>2, ItemAdded
    <2>4. IoTypes'
      BY <1>5, <2>3 DEF IoTypes
    <2>5. /\ \A k \in 1 .. n + 1 : k < p => u[k] = q[k] /\ k \in 1 .. n
          /\ u[p] = taken + 1
          /\ \A k \in 1 .. n + 1 : k > p => u[k] = q[k - 1] /\ k - 1 \in 1 .. n
      BY <1>2, <2>2 DEF PutIn
    <2>6. \A k \in 1 .. n : k < p => item[q[k]].base + item[q[k]].count <= r.base
      <3> TAKE k \in 1 .. n
      <3> HAVE k < p
      <3>1. ~Below(r, item[q[k]]) /\ ~Inside(r, item[q[k]])
        BY <1>9, <1>12
      <3>2. Overlap(r, item[q[k]]) => r.base = item[q[k]].base
        BY <1>4 DEF NoneReachesUp
      <3> QED
        BY <1>3, <1>4, <3>1, <3>2 DEF Below, Inside, Overlap
    <2>7. \A k \in 1 .. n : k >= p => r.base + r.count <= item[q[k]].base
      <3> TAKE k \in 1 .. n
      <3> HAVE k >= p
      <3>1. p \in 1 .. n /\ p \in hits /\ q[p] # ListHead
        BY <1>2, <1>12 DEF ListHead
      <3>2. Below(r, item[q[p]])
        BY <1>9, <1>12, <1>14, <3>1
      <3>3. k = p \/ item[q[p]].base + item[q[p]].count <= item[q[k]].base
        BY <1>1, <3>1 DEF InOrder
      <3> QED
        BY <1>3, <1>4, <3>1, <3>2, <3>3 DEF Below
    <2>8. /\ \A k \in 1 .. n + 1 : k < p => item'[u[k]] = item[q[k]] /\ k \in 1 .. n
          /\ item'[u[p]] = r
          /\ \A k \in 1 .. n + 1 : k > p => item'[u[k]] = item[q[k - 1]] /\ k - 1 \in 1 .. n
      BY <1>5, <2>5
    <2>9. \A k \in 1 .. n + 1 : item'[u[k]] \in Ranges
      <3> TAKE k \in 1 .. n + 1
      <3>1. k < p \/ k = p \/ k > p
        BY <1>2
      <3> QED
        BY <1>4, <2>8, <3>1
    <2>10. \A j, k \in 1 .. n + 1 : j < k => item'[u[j]].base + item'[u[j]].count <= item'[u[k]].base
      <3> TAKE j, k \in 1 .. n + 1
      <3> HAVE j < k
      <3>0. \A a, b \in 1 .. n : a < b => item[q[a]].base + item[q[a]].count <= item[q[b]].base
        BY <1>1 DEF InOrder
      <3>1. CASE k < p
        <4>1. j < p
          BY <1>2, <3>1
        <4> QED
          BY <2>8, <3>0, <3>1, <4>1
      <3>2. CASE k = p
        BY <2>6, <2>8, <3>2
      <3>3. CASE k > p /\ j < p
        <4>1. item'[u[j]] = item[q[j]] /\ j \in 1 .. n
          BY <2>8, <3>3
        <4>2. item'[u[k]] = item[q[k - 1]] /\ k - 1 \in 1 .. n /\ j < k - 1
          BY <2>8, <1>2, <3>3
        <4> QED
          BY <3>0, <4>1, <4>2
      <3>4. CASE k > p /\ j = p
        <4>1. item'[u[k]] = item[q[k - 1]] /\ k - 1 \in 1 .. n /\ k - 1 >= p
          BY <2>8, <1>2, <3>4
        <4> QED
          BY <2>7, <2>8, <3>4, <4>1
      <3>5. CASE k > p /\ j > p
        <4>1. item'[u[j]] = item[q[j - 1]] /\ j - 1 \in 1 .. n
          BY <2>8, <3>5
        <4>2. item'[u[k]] = item[q[k - 1]] /\ k - 1 \in 1 .. n /\ j - 1 < k - 1
          BY <2>8, <1>2, <3>5
        <4> QED
          BY <3>0, <4>1, <4>2
      <3> QED
        BY <1>2, <3>1, <3>2, <3>3, <3>4, <3>5
    <2>11. granted' = {item'[u[k]] : k \in 1 .. n + 1}
      <3>1. granted = {item[q[k]] : k \in 1 .. n}
        BY <1>1 DEF InOrder
      <3>2. ASSUME NEW x \in granted' PROVE \E k \in 1 .. n + 1 : x = item'[u[k]]
        <4>1. CASE x = r
          BY <2>8, <4>1
        <4>2. CASE x # r
          <5>1. PICK k \in 1 .. n : x = item[q[k]]
            BY <2>1, <3>1, <3>2, <4>2
          <5>2. CASE k < p
            BY <1>2, <2>8, <5>1, <5>2
          <5>3. CASE k >= p
            <6>1. k + 1 \in 1 .. n + 1 /\ k + 1 > p /\ (k + 1) - 1 = k
              BY <1>2, <5>3
            <6> QED
              BY <2>8, <5>1, <6>1
          <5> QED
            BY <1>2, <5>2, <5>3
        <4> QED
          BY <4>1, <4>2
      <3>3. ASSUME NEW k \in 1 .. n + 1 PROVE item'[u[k]] \in granted'
        <4>1. k < p \/ k = p \/ k > p
          BY <1>2
        <4> QED
          BY <2>1, <2>8, <3>1, <4>1
      <3> QED
        BY <3>2, <3>3
    <2>12. InOrder(n + 1, u)'
      BY <2>9, <2>10, <2>11 DEF InOrder
    <2> QED
      BY <2>3, <2>4, <2>12 DEF IoInv
  <1> QED
    BY <1>13, <1>14

LEMMA release_io_rangeInv ==
    ASSUME NoneReachesUp, IoInv, NEW r \in Ranges, release_io_range(r)
    PROVE  IoInv'
  <1>1. PICK n, q : Linked(n, q) /\ InOrder(n, q)
    BY DEF IoInv
  <1>2. /\ PoolSize \in Nat /\ IoTypes /\ n \in Nat
        /\ UNCHANGED <<item, taken>> /\ granted' = granted \ {r}
        /\ \A k \in 1 .. n : q[k] \in Items
    <2>1. PoolSize \in Nat /\ IoTypes
      BY DEF NoneReachesUp, IoInv
    <2>2. UNCHANGED <<item, taken>> /\ granted' = granted \ {r}
      BY DEF release_io_range
    <2>3. n \in Nat /\ taken \in 0 .. PoolSize /\ \A k \in 1 .. n : q[k] \in 1 .. taken
      BY <1>1, <2>1 DEF IoTypes, Linked
    <2> QED
      BY <2>1, <2>2, <2>3 DEF Items
  <1>3. \A k \in 1 .. n : /\ item[q[k]].base \in Nat /\ item[q[k]].count \in Nat
                          /\ item[q[k]].count > 0
    BY <1>1 DEF InOrder, NoneReachesUp
  <1>4. PICK seq : seq = Walk(next)
    OBVIOUS
  <1>5. seq = [k \in 1 .. n |-> q[k]]
    BY <1>1, <1>2, <1>4, BothWalks
  <1>6. PICK same : same = {i \in Items : (\E k \in DOMAIN seq : seq[k] = i) /\ item[i] = r}
    OBVIOUS
  <1>7. \A i : i \in same <=> \E k \in 1 .. n : q[k] = i /\ item[q[k]] = r
    BY <1>2, <1>5, <1>6
  <1>8. IF same = {} THEN UNCHANGED <<prev, next>> ELSE list_remove(CHOOSE i \in same : TRUE)
    BY <1>4, <1>6 DEF release_io_range
  <1>9. /\ granted = {item[q[k]] : k \in 1 .. n}
        /\ \A k \in 1 .. n : item[q[k]] \in Ranges
        /\ \A a, b \in 1 .. n : a < b => item[q[a]].base + item[q[a]].count <= item[q[b]].base
    BY <1>1 DEF InOrder
  <1>10. CASE same = {}
    <2>1. UNCHANGED <<prev, next>> /\ \A k \in 1 .. n : item[q[k]] # r
      BY <1>7, <1>8, <1>10
    <2>2. granted' = granted
      BY <1>2, <1>9, <2>1
    <2>3. IoTypes'
      BY <1>2, <2>1 DEF IoTypes
    <2>4. Linked(n, q)'
      BY <1>1, <1>2, <2>1 DEF Linked
    <2>5. InOrder(n, q)'
      BY <1>1, <1>2, <2>2 DEF InOrder
    <2> QED
      BY <2>3, <2>4, <2>5 DEF IoInv
  <1>11. CASE same # {}
    <2>1. PICK i : i = CHOOSE j \in same : TRUE
      OBVIOUS
    <2>2. i \in same /\ list_remove(i)
      BY <1>8, <1>11, <2>1
    <2>3. PICK p \in 1 .. n : q[p] = i /\ item[q[p]] = r
      BY <1>7, <2>2
    <2>4. PICK v : v = TakenOut(n, q, p)
      OBVIOUS
    <2>5. Linked(n - 1, v)' /\ prev' \in [Nodes -> Nodes] /\ next' \in [Nodes -> Nodes]
      BY <1>1, <1>2, <2>2, <2>3, <2>4, ItemRemoved
    <2>6. IoTypes'
      BY <1>2, <2>5 DEF IoTypes
    <2>7. /\ \A k \in 1 .. n - 1 : k < p => v[k] = q[k] /\ k \in 1 .. n
          /\ \A k \in 1 .. n - 1 : k >= p => v[k] = q[k + 1] /\ k + 1 \in 1 .. n
      BY <1>2, <2>4 DEF TakenOut
    <2>8. \A k \in 1 .. n : k # p => item[q[k]] # r
      <3> TAKE k \in 1 .. n
      <3> HAVE k # p
      <3>1. k < p \/ p < k
        BY <1>2
      <3> QED
        BY <1>3, <1>9, <2>3, <3>1
    <2>9. \A k \in 1 .. n - 1 : item[v[k]] \in Ranges
      <3> TAKE k \in 1 .. n - 1
      <3>1. k < p \/ k >= p
        BY <1>2
      <3> QED
        BY <1>9, <2>7, <3>1
    <2>10. \A j, k \in 1 .. n - 1 : j < k => item[v[j]].base + item[v[j]].count <= item[v[k]].base
      <3> TAKE j, k \in 1 .. n - 1
      <3> HAVE j < k
      <3>1. CASE k < p
        <4>1. j < p
          BY <1>2, <3>1
        <4> QED
          BY <1>9, <2>7, <3>1, <4>1
      <3>2. CASE k >= p /\ j < p
        <4>1. v[j] = q[j] /\ j \in 1 .. n
          BY <2>7, <3>2
        <4>2. v[k] = q[k + 1] /\ k + 1 \in 1 .. n /\ j < k + 1
          BY <1>2, <2>7, <3>2
        <4> QED
          BY <1>9, <4>1, <4>2
      <3>3. CASE k >= p /\ j >= p
        <4>1. v[j] = q[j + 1] /\ j + 1 \in 1 .. n
          BY <2>7, <3>3
        <4>2. v[k] = q[k + 1] /\ k + 1 \in 1 .. n /\ j + 1 < k + 1
          BY <1>2, <2>7, <3>3
        <4> QED
          BY <1>9, <4>1, <4>2
      <3> QED
        BY <1>2, <3>1, <3>2, <3>3
    <2>11. granted' = {item[v[k]] : k \in 1 .. n - 1}
      <3>1. ASSUME NEW x \in granted' PROVE \E k \in 1 .. n - 1 : x = item[v[k]]
        <4>1. PICK k \in 1 .. n : x = item[q[k]]
          BY <1>2, <1>9, <3>1
        <4>2. k # p
          BY <1>2, <2>3, <3>1, <4>1
        <4>3. CASE k < p
          <5>1. k \in 1 .. n - 1
            BY <1>2, <4>3
          <5> QED
            BY <2>7, <4>1, <4>3, <5>1
        <4>4. CASE k > p
          <5>1. k - 1 \in 1 .. n - 1 /\ k - 1 >= p /\ (k - 1) + 1 = k
            BY <1>2, <4>4
          <5> QED
            BY <2>7, <4>1, <5>1
        <4> QED
          BY <1>2, <4>2, <4>3, <4>4
      <3>2. ASSUME NEW k \in 1 .. n - 1 PROVE item[v[k]] \in granted'
        <4>1. CASE k < p
          <5>1. v[k] = q[k] /\ k \in 1 .. n /\ k # p
            BY <1>2, <2>7, <4>1
          <5> QED
            BY <1>2, <1>9, <2>8, <5>1
        <4>2. CASE k >= p
          <5>1. v[k] = q[k + 1] /\ k + 1 \in 1 .. n /\ k + 1 # p
            BY <1>2, <2>7, <4>2
          <5> QED
            BY <1>2, <1>9, <2>8, <5>1
        <4> QED
          BY <1>2, <4>1, <4>2
      <3> QED
        BY <3>1, <3>2
    <2>12. InOrder(n - 1, v)'
      BY <1>2, <2>9, <2>10, <2>11 DEF InOrder
    <2> QED
      BY <2>5, <2>6, <2>12 DEF IoInv
  <1> QED
    BY <1>10, <1>11

LEMMA IoStarts == NoneReachesUp /\ init_io => IoInv
  <1> SUFFICES ASSUME NoneReachesUp, init_io PROVE IoInv
    OBVIOUS
  <1>1. IoTypes
    BY DEF NoneReachesUp, init_io, IoTypes
  <1>2. PICK q : q = [k \in 0 .. 1 |-> ListHead]
    OBVIOUS
  <1>3. Linked(0, q)
    BY <1>2 DEF init_io, Linked, Nodes, ListHead
  <1>4. InOrder(0, q)
    BY DEF init_io, InOrder
  <1> QED
    BY <1>1, <1>3, <1>4 DEF IoInv

LEMMA IoStep == NoneReachesUp /\ IoInv /\ [IoNext]_io_vars => IoInv'
  <1> SUFFICES ASSUME NoneReachesUp, IoInv, [IoNext]_io_vars PROVE IoInv'
    OBVIOUS
  <1>1. CASE UNCHANGED <<prev, next, item, taken, granted>>
    <2>1. PICK n, q : Linked(n, q) /\ InOrder(n, q)
      BY DEF IoInv
    <2>2. IoTypes'
      BY <1>1 DEF IoInv, IoTypes
    <2>3. Linked(n, q)'
      BY <1>1, <2>1 DEF Linked
    <2>4. InOrder(n, q)'
      BY <1>1, <2>1 DEF InOrder
    <2> QED
      BY <2>2, <2>3, <2>4 DEF IoInv
  <1> QED
    BY <1>1, reserve_io_rangeInv, release_io_rangeInv DEF IoNext, io_vars, reserve_io_range_full

(* For any number of ranges and of items: if no range a driver asks for     *)
(* starts below another and reaches into it, then after any reservations    *)
(* and releases the list holds exactly what was granted, in order, without  *)
(* overlap, and the same along next as along prev.                          *)
THEOREM RangesStayDisjoint ==
    NoneReachesUp => (ServicesSpec => []RangesDisjoint)
  <1> SUFFICES ASSUME NoneReachesUp PROVE ServicesSpec => []RangesDisjoint
    OBVIOUS
  <1>1. ServicesInit => IoInv
    BY IoStarts DEF ServicesInit
  <1>2. IoInv /\ [ServicesNext]_services_vars => IoInv'
    <2> SUFFICES ASSUME IoInv, [ServicesNext]_services_vars PROVE IoInv'
      OBVIOUS
    <2>1. [IoNext]_io_vars
      BY DEF ServicesNext, RingSteps, RtcSteps, ConsoleSteps, IoSteps, services_vars
    <2> QED
      BY <2>1, IoStep
  <1>3. IoInv => RangesDisjoint
    BY InOrderDisjoint
  <1> QED
    BY <1>1, <1>2, <1>3, PTL DEF ServicesSpec
===============================================================================
