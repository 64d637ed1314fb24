---------------------------- MODULE KeyboardProofs ----------------------------
(***************************************************************************)
(* Theorems about the PS/2 keyboard driver (Keyboard), for every value of  *)
(* the constants.                                                          *)
(***************************************************************************)
EXTENDS Keyboard, SequenceTheorems, TLAPS

-------------------------------------------------------------------------------
(* Types.                                                                   *)

Byte == 0 .. 255

KbFields == {"leds", "scset", "e0", "e1", "mods", "numlk", "capslk", "scrlk", "altchar",
             "pollchar", "crashkey", "term", "ready"}
CpuFields == {"pc", "kind", "byte", "left", "then", "ret", "ok", "resp", "old", "key", "rel"}
Ps2Fields == {"on", "full", "data", "irq", "int", "translate"}
DevFields == {"model", "q", "rep", "leds", "set", "scan", "await"}
UserFields == {"held", "caps", "num", "scr", "code", "term", "text", "events"}

KbTypes(k) ==
    /\ DOMAIN k = KbFields
    /\ k.leds \in 0 .. 7 /\ k.scset \in 0 .. 3 /\ k.mods \subseteq ModKeys
    /\ k.altchar \in Byte /\ k.term \in 1 .. NR_TERMINAL
    /\ k.e0 \in BOOLEAN /\ k.e1 \in BOOLEAN /\ k.ready \in BOOLEAN
    /\ k.numlk \in BOOLEAN /\ k.capslk \in BOOLEAN /\ k.scrlk \in BOOLEAN

CpuTypes(c) ==
    /\ DOMAIN c = CpuFields
    /\ c.byte \in Byte /\ c.left \in 0 .. RETRY_COUNT /\ c.resp \in Byte /\ c.old \in Byte
    /\ c.ok \in BOOLEAN /\ c.rel \in BOOLEAN /\ c.kind \in {"cmd", "data"}

Ps2Types(p) ==
    /\ DOMAIN p = Ps2Fields
    /\ p.data \in Byte /\ p.full \in BOOLEAN /\ p.irq \in BOOLEAN
    /\ p.translate \in BOOLEAN /\ p.on \in BOOLEAN /\ p.int \in BOOLEAN

DevTypes(d) ==
    /\ DOMAIN d = DevFields
    /\ d.q \in Seq(Byte) /\ d.rep \in Seq(Byte) /\ d.set \in Byte /\ d.await \in Byte
    /\ d.leds \in Byte /\ d.model \in {"full", "noread", "fixed"}

Types ==
    /\ KbTypes(kb) /\ CpuTypes(cpu) /\ Ps2Types(ps2) /\ DevTypes(dev)
    /\ DOMAIN user = UserFields /\ user.held \subseteq Keys
    /\ out \in Seq(Byte) /\ faults \in 0 .. MaxFaults

LEMMA Numbers ==
    /\ ACK = 250 /\ RESEND = 254 /\ TYPEMATIC_BYTE = 34
    /\ CMD.SETLED = 237 /\ CMD.SCANCODE = 240 /\ CMD.IDENT = 242 /\ CMD.TYPEMATIC = 243
    /\ CMD.SCANON = 244 /\ CMD.SCANOFF = 245
  BY DEF ACK, RESEND, CMD, TYPEMATIC_BYTE

(* The driver's calls: what they leave in its locals. *)
LEMMA SendIs ==
    ASSUME NEW c, CpuTypes(c), NEW b \in Byte, NEW then, NEW u, u = Send(c, b, then)
    PROVE  /\ CpuTypes(u) /\ u.pc = "wr" /\ u.kind = "cmd" /\ u.byte = b
           /\ u.left = RETRY_COUNT /\ u.then = then
           /\ u.ret = c.ret /\ u.ok = c.ok /\ u.resp = c.resp /\ u.old = c.old
           /\ u.key = c.key /\ u.rel = c.rel
  <1>1. RETRY_COUNT \in 0 .. RETRY_COUNT
    BY KeyboardAssumption
  <1> QED
    BY <1>1 DEF Send, CpuTypes, CpuFields

LEMMA WriteIs ==
    ASSUME NEW c, CpuTypes(c), NEW b \in Byte, NEW then, NEW u, u = Write(c, b, then)
    PROVE  /\ CpuTypes(u) /\ u.pc = "wr" /\ u.kind = "data" /\ u.byte = b /\ u.then = then
           /\ u.left = c.left /\ u.ret = c.ret /\ u.ok = c.ok /\ u.resp = c.resp /\ u.old = c.old
           /\ u.key = c.key /\ u.rel = c.rel
  BY DEF Write, CpuTypes, CpuFields

LEMMA ReadIs ==
    ASSUME NEW c, CpuTypes(c), NEW then, NEW u, u = Read(c, then)
    PROVE  /\ CpuTypes(u) /\ u.pc = "rd" /\ u.kind = "data" /\ u.byte = c.byte /\ u.then = then
           /\ u.left = c.left /\ u.ret = c.ret /\ u.ok = c.ok /\ u.resp = c.resp /\ u.old = c.old
           /\ u.key = c.key /\ u.rel = c.rel
  BY DEF Read, CpuTypes, CpuFields

LEMMA GotoIs ==
    ASSUME NEW c, CpuTypes(c), NEW label, NEW u, u = Goto(c, label)
    PROVE  /\ CpuTypes(u) /\ u.pc = label /\ u.kind = c.kind /\ u.byte = c.byte /\ u.then = c.then
           /\ u.left = c.left /\ u.ret = c.ret /\ u.ok = c.ok /\ u.resp = c.resp /\ u.old = c.old
           /\ u.key = c.key /\ u.rel = c.rel
  BY DEF Goto, CpuTypes, CpuFields

AnsweredAs(u, c, r) ==
    /\ u.kind = c.kind /\ u.byte = c.byte /\ u.then = c.then
    /\ u.ret = c.ret /\ u.old = c.old /\ u.key = c.key /\ u.rel = c.rel
    /\ c.kind = "data" => u.pc = c.then /\ u.resp = r /\ u.ok = c.ok /\ u.left = c.left
    /\ c.kind = "cmd" =>
         /\ u.resp = c.resp
         /\ r = ACK => u.pc = c.then /\ u.ok = TRUE /\ u.left = c.left
         /\ r # ACK /\ r # 0 /\ c.left > 1 => u.pc = "wr" /\ u.left = c.left - 1
         /\ r # ACK /\ (r = 0 \/ c.left <= 1) => u.pc = c.then /\ u.ok = FALSE /\ u.left = c.left

LEMMA AnsweredIs ==
    ASSUME NEW c, CpuTypes(c), NEW r \in Byte, NEW u, u = Answered(c, r)
    PROVE  CpuTypes(u) /\ AnsweredAs(u, c, r)
  <1>1. RETRY_COUNT \in Nat /\ c.left \in Nat /\ c.left <= RETRY_COUNT
    BY KeyboardAssumption DEF CpuTypes
  <1>2. CASE c.kind = "data"
    BY <1>2 DEF Answered, AnsweredAs, CpuTypes, CpuFields
  <1>3. CASE c.kind = "cmd" /\ r = ACK
    BY <1>3 DEF Answered, AnsweredAs, CpuTypes, CpuFields
  <1>4. CASE c.kind = "cmd" /\ r # ACK /\ r # 0 /\ c.left > 1
    <2>1. u = [c EXCEPT !.pc = "wr", !.left = @ - 1]
      BY <1>4 DEF Answered
    <2>2. c.left - 1 \in 0 .. RETRY_COUNT
      BY <1>1, <1>4
    <2> QED
      BY <1>4, <2>1, <2>2 DEF AnsweredAs, CpuTypes, CpuFields
  <1>5. CASE c.kind = "cmd" /\ r # ACK /\ ~(r # 0 /\ c.left > 1)
    <2>1. u = [c EXCEPT !.pc = c.then, !.ok = FALSE]
      BY <1>5 DEF Answered
    <2> QED
      BY <1>1, <1>5, <2>1 DEF AnsweredAs, CpuTypes, CpuFields
  <1> QED
    BY <1>2, <1>3, <1>4, <1>5 DEF CpuTypes

LEMMA IdleIs ==
    /\ CpuTypes(Idle) /\ Idle.pc = "idle"
    /\ \A p : CpuTypes([Idle EXCEPT !.pc = p]) /\ [Idle EXCEPT !.pc = p].pc = p
  <1>1. 0 \in 0 .. RETRY_COUNT
    BY KeyboardAssumption
  <1> QED
    BY <1>1 DEF Idle, CpuTypes, CpuFields, Byte

LEMMA LedsOfRange == ASSUME NEW k PROVE LedsOf(k) \in 0 .. 7 /\ LedsOf(k) \in Byte
  BY DEF LedsOf, Byte

LEMMA update_ledsIs ==
    ASSUME NEW k, NEW c, CpuTypes(c), NEW ret, NEW u, u = update_leds(k, c, ret)
    PROVE  /\ CpuTypes(u) /\ u.key = c.key /\ u.rel = c.rel /\ u.old = c.old
           /\ k.leds = LedsOf(k) => u.pc = ret
           /\ k.leds # LedsOf(k) => /\ u.pc = "wr" /\ u.kind = "cmd" /\ u.byte = CMD.SETLED
                                    /\ u.left = RETRY_COUNT /\ u.then = "leds" /\ u.ret = ret
  <1>1. CASE k.leds = LedsOf(k)
    BY <1>1, GotoIs DEF update_leds
  <1>2. CASE k.leds # LedsOf(k)
    <2>1. PICK s : s = Send(c, CMD.SETLED, "leds")
      OBVIOUS
    <2>2. CMD.SETLED \in Byte
      BY Numbers DEF Byte
    <2>3. /\ CpuTypes(s) /\ s.pc = "wr" /\ s.kind = "cmd" /\ s.byte = CMD.SETLED
          /\ s.left = RETRY_COUNT /\ s.then = "leds" /\ s.old = c.old /\ s.key = c.key /\ s.rel = c.rel
      BY <2>1, <2>2, SendIs
    <2>4. u = [s EXCEPT !.ret = ret]
      BY <1>2, <2>1 DEF update_leds
    <2> QED
      BY <1>2, <2>3, <2>4 DEF CpuTypes, CpuFields
  <1> QED
    BY <1>1, <1>2

(* The keyboard d takes byte b and becomes e; the commands as in Numbers. *)
Taken(e, d, b) ==
    /\ e.model = d.model
    /\ b # 245 => e.q = d.q
    /\ b = 245 => e.q = << >>
    /\ b = 240 /\ d.model = "fixed" =>
         e.await = d.await /\ e.rep = d.rep /\ e.set = d.set /\ e.leds = d.leds
    /\ b \in {237, 243} \/ (b = 240 /\ d.model # "fixed") =>
         e.await = b /\ e.rep = d.rep \o <<ACK>> /\ e.set = d.set /\ e.leds = d.leds
    /\ b = 242 => e.await = 0 /\ e.rep = d.rep \o <<ACK, 171, 131>> /\ e.set = d.set /\ e.leds = d.leds
    /\ b \in {244, 245} => e.await = 0 /\ e.rep = d.rep \o <<ACK>> /\ e.set = d.set /\ e.leds = d.leds
    /\ b < 237 =>
         /\ e.await = 0
         /\ e.leds = IF d.await = 237 THEN b ELSE d.leds
         /\ e.set = IF d.await = 240 /\ b # 0 THEN b ELSE d.set
         /\ e.rep = IF d.await = 240 /\ b = 0 /\ d.model # "noread"
                    THEN d.rep \o <<ACK, d.set>> ELSE d.rep \o <<ACK>>

LEMMA TakesIs ==
    ASSUME NEW d, DevTypes(d), NEW b \in Byte, NEW e, e = Takes(d, b)
    PROVE  DevTypes(e) /\ Taken(e, d, b)
  <1>0. /\ ACK \in Byte /\ 0 \in Byte /\ 171 \in Byte /\ 131 \in Byte
        /\ d.set \in Byte /\ d.rep \in Seq(Byte) /\ << >> \in Seq(Byte)
    BY Numbers DEF Byte, DevTypes
  <1>1. /\ d.rep \o <<ACK, 171, 131>> \in Seq(Byte)
        /\ d.rep \o <<ACK, d.set>> \in Seq(Byte) /\ d.rep \o <<ACK>> \in Seq(Byte)
    <2>1. <<ACK, 171, 131>> \in Seq(Byte) /\ <<ACK, d.set>> \in Seq(Byte) /\ <<ACK>> \in Seq(Byte)
      BY <1>0
    <2> QED
      BY <1>0, <2>1, ConcatProperties
  <1>a. PICK r1 : r1 = d.rep \o <<ACK>>
    OBVIOUS
  <1>b. PICK r2 : r2 = d.rep \o <<ACK, d.set>>
    OBVIOUS
  <1>c. PICK r3 : r3 = d.rep \o <<ACK, 171, 131>>
    OBVIOUS
  <1>d. r1 \in Seq(Byte) /\ r2 \in Seq(Byte) /\ r3 \in Seq(Byte)
    BY <1>1, <1>a, <1>b, <1>c
  <1>e. PICK S : S = Seq(Byte)
    OBVIOUS
  <1>f. /\ DOMAIN d = DevFields
        /\ d.q \in S /\ d.rep \in S /\ d.set \in Byte /\ d.await \in Byte
        /\ d.leds \in Byte /\ d.model \in {"full", "noread", "fixed"}
        /\ r1 \in S /\ r2 \in S /\ r3 \in S /\ << >> \in S
    BY <1>0, <1>d, <1>e DEF DevTypes
  <1>g. ASSUME DOMAIN e = DevFields, e.q \in S, e.rep \in S, e.set \in Byte, e.await \in Byte,
               e.leds \in Byte, e.model \in {"full", "noread", "fixed"}
        PROVE  DevTypes(e)
    BY <1>e, <1>g DEF DevTypes
  <1> DEFINE Goal(x1, x2, x3) ==
               /\ DOMAIN e = DevFields /\ e.q \in S /\ e.rep \in S /\ e.set \in Byte /\ e.await \in Byte
               /\ e.leds \in Byte /\ e.model \in {"full", "noread", "fixed"}
               /\ e.model = d.model
               /\ b # 245 => e.q = d.q
               /\ b = 245 => e.q = << >>
               /\ b = 240 /\ d.model = "fixed" =>
                    e.await = d.await /\ e.rep = d.rep /\ e.set = d.set /\ e.leds = d.leds
               /\ b \in {237, 243} \/ (b = 240 /\ d.model # "fixed") =>
                    e.await = b /\ e.rep = x1 /\ e.set = d.set /\ e.leds = d.leds
               /\ b = 242 => e.await = 0 /\ e.rep = x3 /\ e.set = d.set /\ e.leds = d.leds
               /\ b \in {244, 245} => e.await = 0 /\ e.rep = x1 /\ e.set = d.set /\ e.leds = d.leds
               /\ b < 237 =>
                    /\ e.await = 0
                    /\ e.leds = IF d.await = 237 THEN b ELSE d.leds
                    /\ e.set = IF d.await = 240 /\ b # 0 THEN b ELSE d.set
                    /\ e.rep = IF d.await = 240 /\ b = 0 /\ d.model # "noread" THEN x2 ELSE x1
  <1>2. ASSUME b = 240 /\ d.model = "fixed" PROVE Goal(r1, r2, r3)
    <2>1. e = d
      BY <1>2, Numbers DEF Takes
    <2>2. Goal(r1, r2, r3)
      BY <1>2, <2>1, <1>f
    <2> QED
      BY <2>2
  <1>3. ASSUME b \in {237, 243} \/ (b = 240 /\ d.model # "fixed") PROVE Goal(r1, r2, r3)
    <2>1. e = [d EXCEPT !.await = b, !.rep = r1]
      BY <1>3, <1>a, Numbers DEF Takes
    <2> QED
      BY <1>3, <2>1, <1>f DEF DevFields
  <1>4. ASSUME b = 242 PROVE Goal(r1, r2, r3)
    <2>1. e = [d EXCEPT !.await = 0, !.rep = r3]
      BY <1>4, <1>c, Numbers DEF Takes
    <2>2. /\ DOMAIN e = DevFields /\ e.await = 0 /\ e.rep = r3 /\ e.q = d.q
          /\ e.set = d.set /\ e.leds = d.leds /\ e.model = d.model
      BY <2>1, <1>f DEF DevFields
    <2>3. DOMAIN e = DevFields /\ e.q \in S /\ e.rep \in S
      BY <1>4, <2>2, <1>f
    <2>4. e.set \in Byte
      BY <1>4, <2>2, <1>f
    <2>5. e.await \in Byte
      BY <1>4, <2>2, <1>f DEF Byte
    <2>6. e.leds \in Byte /\ e.model \in {"full", "noread", "fixed"}
      BY <1>4, <2>2, <1>f
    <2>7. ~(b < 237)
      BY <1>4
    <2>8. b # 245 /\ b # 240 /\ b \notin {237, 243} /\ b \notin {244, 245}
      BY <1>4
    <2> QED
      BY <2>2, <2>3, <2>4, <2>5, <2>6, <2>7, <2>8
  <1>5. ASSUME b = 244 PROVE Goal(r1, r2, r3)
    <2>1. e = [d EXCEPT !.await = 0, !.rep = r1, !.scan = TRUE]
      BY <1>5, <1>a, Numbers DEF Takes
    <2>2. /\ DOMAIN e = DevFields /\ e.await = 0 /\ e.rep = r1 /\ e.q = d.q
          /\ e.set = d.set /\ e.leds = d.leds /\ e.model = d.model
      BY <2>1, <1>f DEF DevFields
    <2>3. DOMAIN e = DevFields /\ e.q \in S /\ e.rep \in S
      BY <2>2, <1>f
    <2>4. e.set \in Byte /\ e.leds \in Byte /\ e.model \in {"full", "noread", "fixed"}
      BY <2>2, <1>f
    <2>5. e.await \in Byte
      BY <2>2 DEF Byte
    <2>6. ~(b < 237) /\ b # 245 /\ b # 240 /\ b # 242 /\ b \notin {237, 243}
      BY <1>5
    <2> QED
      BY <1>5, <2>2, <2>3, <2>4, <2>5, <2>6
  <1>6. ASSUME b = 245 PROVE Goal(r1, r2, r3)
    <2>1. e = [d EXCEPT !.await = 0, !.rep = r1, !.scan = FALSE, !.q = << >>]
      BY <1>6, <1>a, Numbers DEF Takes
    <2>2. /\ DOMAIN e = DevFields /\ e.await = 0 /\ e.rep = r1 /\ e.q = << >>
          /\ e.set = d.set /\ e.leds = d.leds /\ e.model = d.model
      BY <2>1, <1>f DEF DevFields
    <2>3. DOMAIN e = DevFields /\ e.q \in S /\ e.rep \in S
      BY <2>2, <1>f
    <2>4. e.set \in Byte /\ e.leds \in Byte /\ e.model \in {"full", "noread", "fixed"}
      BY <2>2, <1>f
    <2>5. e.await \in Byte
      BY <2>2 DEF Byte
    <2>6. ~(b < 237) /\ b # 240 /\ b # 242 /\ b \notin {237, 243}
      BY <1>6
    <2> QED
      BY <1>6, <2>2, <2>3, <2>4, <2>5, <2>6
  <1>7. ASSUME b \notin {237, 240, 242, 243, 244, 245} PROVE Goal(r1, r2, r3)
    <2>1. CASE d.await = 240 /\ b = 0 /\ d.model # "noread"
      <3>1. e = [d EXCEPT !.await = 0, !.rep = r2]
        BY <1>7, <2>1, <1>b, Numbers DEF Takes
      <3>2. /\ DOMAIN e = DevFields /\ e.await = 0 /\ e.rep = r2 /\ e.q = d.q
            /\ e.set = d.set /\ e.leds = d.leds /\ e.model = d.model
        BY <3>1, <1>f DEF DevFields
      <3>3. DOMAIN e = DevFields /\ e.q \in S /\ e.rep \in S
        BY <3>2, <1>f
      <3>4. e.set \in Byte /\ e.leds \in Byte /\ e.model \in {"full", "noread", "fixed"}
        BY <3>2, <1>f
      <3>5. e.await \in Byte
        BY <3>2 DEF Byte
      <3> QED
        BY <1>7, <2>1, <3>2, <3>3, <3>4, <3>5
    <2>2. CASE ~(d.await = 240 /\ b = 0 /\ d.model # "noread")
      <3>1. e = [d EXCEPT !.await = 0, !.rep = r1,
                          !.leds = IF d.await = 237 THEN b ELSE d.leds,
                          !.set = IF d.await = 240 /\ b # 0 THEN b ELSE d.set]
        BY <1>7, <2>2, <1>a, Numbers DEF Takes
      <3> QED
        BY <1>0, <1>7, <2>2, <3>1, <1>f DEF DevFields
    <2> QED
      BY <2>1, <2>2
  <1>8. Goal(r1, r2, r3)
    BY <1>2, <1>3, <1>4, <1>5, <1>6, <1>7
  <1>9. DevTypes(e)
    BY <1>8, <1>g
  <1>10. Goal(d.rep \o <<ACK>>, d.rep \o <<ACK, d.set>>, d.rep \o <<ACK, 171, 131>>)
    BY <1>8, <1>a, <1>b, <1>c, ZenonT(60)
  <1> QED
    BY <1>9, <1>10 DEF Taken

(* The tables give characters. *)
LEMMA KeymapRange ==
    ASSUME NEW k PROVE keymap(k) \in Byte /\ keymap_shift(k) \in Byte
  <1>1. keymap(k) \in Byte
    BY DEF keymap, Byte, Special
  <1>2. keymap_shift(k) \in Byte
    BY DEF keymap_shift, Byte
  <1> QED
    BY <1>1, <1>2

LEMMA KeyNumbers ==
    /\ KEY.F1 = 11 /\ KEY.F12 = 22 /\ KEY.KP0 = 100 /\ KEY.KP9 = 109 /\ KEY.KP5 = 105
    /\ KEY.NUMLK = 30 /\ KEY.CAPSLK = 29 /\ KEY.SCRLK = 31 /\ KEY.PAUSE = 26 /\ KEY.SYSRQ = 28
    /\ KEY.LCTRL = 1 /\ KEY.RCTRL = 2 /\ KEY.LSHIFT = 3 /\ KEY.RSHIFT = 4 /\ KEY.LALT = 5
    /\ KEY.RALT = 6 /\ KEY.UP = 121 /\ KEY.DELETE = 113
    /\ KEY.K2 = 50 /\ KEY.K6 = 54 /\ KEY.BACKSPACE = 8
  BY DEF KEY

LEMMA CtrlRange ==
    ASSUME NEW k, NEW c \in Byte PROVE CtrlChar(k, c) \in Byte
  <1>1. \A x \in Byte : Control(x) \in Byte
    BY DEF Control, Byte
  <1>2. (CASE k = KEY.K2 -> 64 [] k = KEY.K6 -> 94 [] k = 45 -> 95 [] k = 47 -> 63
              [] k = KEY.BACKSPACE -> 8
              [] k \in 91 .. 93 \/ IsLetter(k) -> k
              [] OTHER -> c) \in Byte
    BY KeyNumbers DEF IsLetter, Byte
  <1> QED
    BY <1>1, <1>2 DEF CtrlChar

LEMMA SequenceRange ==
    ASSUME NEW k PROVE Sequence(k) \in Seq(Byte)
  <1> DEFINE letter == CASE k = KEY.UP -> 65 [] k = KEY.DOWN -> 66 [] k = KEY.RIGHT -> 67
                         [] k = KEY.LEFT -> 68 [] k = KEY.KP5 -> 71 [] k = KEY.PRTSC -> 80
                         [] OTHER -> 0
             digit == CASE k = KEY.HOME -> 49 [] k = KEY.INSERT -> 50 [] k = KEY.DELETE -> 51
                        [] k = KEY.END -> 52 [] k = KEY.PGUP -> 53 [] k = KEY.PGDOWN -> 54
                        [] OTHER -> 0
             fn == <<11, 12, 13, 14, 15, 17, 18, 19, 20, 21, 23, 24>>
             n == fn[fnkey_index(k)]
  <1>1. letter \in Byte
    BY DEF Byte, KEY
  <1>2. digit \in Byte
    BY DEF Byte, KEY
  <1>3. is_fnkey(k) => n \in 11 .. 24
    BY KeyNumbers DEF is_fnkey, fnkey_index
  <1>4. is_fnkey(k) => 48 + (n \div 10) \in Byte /\ 48 + (n % 10) \in Byte
    <2> HIDE DEF n
    <2> QED
      BY <1>3 DEF Byte
  <1>5. ESC \in Byte /\ 91 \in Byte /\ 126 \in Byte
    BY DEF ESC, Byte
  <1>6. /\ <<ESC, 91, letter>> \in Seq(Byte) /\ <<ESC, 91, digit, 126>> \in Seq(Byte)
        /\ is_fnkey(k) => <<ESC, 91, 48 + (n \div 10), 48 + (n % 10), 126>> \in Seq(Byte)
        /\ << >> \in Seq(Byte)
    <2> HIDE DEF letter, digit, n
    <2> QED
      BY <1>1, <1>2, <1>4, <1>5
  <1>7. Sequence(k) = IF letter # 0 THEN <<ESC, 91, letter>>
                      ELSE IF digit # 0 THEN <<ESC, 91, digit, 126>>
                      ELSE IF is_fnkey(k) THEN <<ESC, 91, 48 + (n \div 10), 48 + (n % 10), 126>>
                      ELSE << >>
    <2>1. /\ letter # 0 => digit = 0 /\ ~is_fnkey(k)
          /\ digit # 0 => ~is_fnkey(k)
      BY DEF KEY, is_fnkey
    <2> QED
      BY <2>1, SMTT(60) DEF Sequence
  <1> HIDE DEF letter, digit, n
  <1> QED
    BY <1>6, <1>7

LEMMA CharsRange ==
    ASSUME NEW k, NEW key PROVE CharsOf(k, key) \in Seq(Byte)
  <1> DEFINE m == Mods(k.mods)
             c0 == IF "shift" \in m /\ key \in 32 .. 96 THEN keymap_shift(key) ELSE keymap(key)
             c1 == IF "ctrl" \in m THEN CtrlChar(key, c0) ELSE c0
             c2 == IF k.capslk /\ "alt" \notin m THEN CapsChar(c1) ELSE c1
  <1>1. c0 \in Byte
    BY KeymapRange
  <1>2. c1 \in Byte
    <2> HIDE DEF c0
    <2> QED
      BY <1>1, CtrlRange
  <1>3. c2 \in Byte
    <2> HIDE DEF c1
    <2> QED
      BY <1>2 DEF CapsChar, Byte
  <1>4. /\ CharsOf(k, key) = IF c0 = 0 THEN << >>
                             ELSE IF c0 = Special \/ (key = KEY.KP5 /\ ~k.numlk) THEN Sequence(key)
                             ELSE IF KEY.SYSRQ \in k.mods THEN << >>
                             ELSE IF "alt" \in m THEN <<ESC, c2>> ELSE <<c2>>
    BY DEF CharsOf
  <1> HIDE DEF c0, c1, c2
  <1>5. <<ESC, c2>> \in Seq(Byte) /\ <<c2>> \in Seq(Byte) /\ << >> \in Seq(Byte)
    BY <1>3 DEF ESC, Byte
  <1> QED
    BY <1>4, <1>5, SequenceRange

(* Scancodes are bytes. *)
LEMMA MakeRange ==
    ASSUME NEW k \in ModelledKeys
    PROVE  IF k = KEY.PAUSE THEN Make(k) = <<225, 29, 69, 225, 157, 197>>
           ELSE \E b \in 1 .. 90 : Make(k) = <<b>> \/ Make(k) = <<224, b>>
  <1>1. CASE k = KEY.LCTRL
    <2>1. Make(k) = <<29>> /\ k # KEY.PAUSE /\ 29 \in 1 .. 90
      BY <1>1, KeyNumbers DEF Make
    <2> QED
      BY <2>1
  <1>2. CASE k = KEY.RCTRL
    <2>1. Make(k) = <<224, 29>> /\ k # KEY.PAUSE /\ 29 \in 1 .. 90
      BY <1>2, KeyNumbers DEF Make
    <2> QED
      BY <2>1
  <1>3. CASE k = KEY.LSHIFT
    <2>1. Make(k) = <<42>> /\ k # KEY.PAUSE /\ 42 \in 1 .. 90
      BY <1>3, KeyNumbers DEF Make
    <2> QED
      BY <2>1
  <1>4. CASE k = KEY.RSHIFT
    <2>1. Make(k) = <<54>> /\ k # KEY.PAUSE /\ 54 \in 1 .. 90
      BY <1>4, KeyNumbers DEF Make
    <2> QED
      BY <2>1
  <1>5. CASE k = KEY.LALT
    <2>1. Make(k) = <<56>> /\ k # KEY.PAUSE /\ 56 \in 1 .. 90
      BY <1>5, KeyNumbers DEF Make
    <2> QED
      BY <2>1
  <1>6. CASE k = KEY.RALT
    <2>1. Make(k) = <<224, 56>> /\ k # KEY.PAUSE /\ 56 \in 1 .. 90
      BY <1>6, KeyNumbers DEF Make
    <2> QED
      BY <2>1
  <1>7. CASE k = KEY.CAPSLK
    <2>1. Make(k) = <<58>> /\ k # KEY.PAUSE /\ 58 \in 1 .. 90
      BY <1>7, KeyNumbers DEF Make
    <2> QED
      BY <2>1
  <1>8. CASE k = KEY.NUMLK
    <2>1. Make(k) = <<69>> /\ k # KEY.PAUSE /\ 69 \in 1 .. 90
      BY <1>8, KeyNumbers DEF Make
    <2> QED
      BY <2>1
  <1>9. CASE k = KEY.SCRLK
    <2>1. Make(k) = <<70>> /\ k # KEY.PAUSE /\ 70 \in 1 .. 90
      BY <1>9, KeyNumbers DEF Make
    <2> QED
      BY <2>1
  <1>10. CASE k = KEY.UP
    <2>1. Make(k) = <<224, 72>> /\ k # KEY.PAUSE /\ 72 \in 1 .. 90
      BY <1>10, KeyNumbers DEF Make
    <2> QED
      BY <2>1
  <1>11. CASE k = KEY.DELETE
    <2>1. Make(k) = <<224, 83>> /\ k # KEY.PAUSE /\ 83 \in 1 .. 90
      BY <1>11, KeyNumbers DEF Make
    <2> QED
      BY <2>1
  <1>12. CASE k = KEY.SYSRQ
    <2>1. Make(k) = <<84>> /\ k # KEY.PAUSE /\ 84 \in 1 .. 90
      BY <1>12, KeyNumbers DEF Make
    <2> QED
      BY <2>1
  <1>13. CASE k = 65
    <2>1. Make(k) = <<30>> /\ k # KEY.PAUSE /\ 30 \in 1 .. 90
      BY <1>13, KeyNumbers DEF Make
    <2> QED
      BY <2>1
  <1>14. CASE k = 67
    <2>1. Make(k) = <<46>> /\ k # KEY.PAUSE /\ 46 \in 1 .. 90
      BY <1>14, KeyNumbers DEF Make
    <2> QED
      BY <2>1
  <1>15. CASE k = 71
    <2>1. Make(k) = <<34>> /\ k # KEY.PAUSE /\ 34 \in 1 .. 90
      BY <1>15, KeyNumbers DEF Make
    <2> QED
      BY <2>1
  <1>16. CASE k = 82
    <2>1. Make(k) = <<19>> /\ k # KEY.PAUSE /\ 19 \in 1 .. 90
      BY <1>16, KeyNumbers DEF Make
    <2> QED
      BY <2>1
  <1>17. CASE k = 50
    <2>1. Make(k) = <<3>> /\ k # KEY.PAUSE /\ 3 \in 1 .. 90
      BY <1>17, KeyNumbers DEF Make
    <2> QED
      BY <2>1
  <1>18. CASE k = 47
    <2>1. Make(k) = <<53>> /\ k # KEY.PAUSE /\ 53 \in 1 .. 90
      BY <1>18, KeyNumbers DEF Make
    <2> QED
      BY <2>1
  <1>19. CASE k = 109
    <2>1. Make(k) = <<73>> /\ k # KEY.PAUSE /\ 73 \in 1 .. 90
      BY <1>19, KeyNumbers DEF Make
    <2> QED
      BY <2>1
  <1>20. CASE k = 108
    <2>1. Make(k) = <<72>> /\ k # KEY.PAUSE /\ 72 \in 1 .. 90
      BY <1>20, KeyNumbers DEF Make
    <2> QED
      BY <2>1
  <1>21. CASE k = KEY.F1
    <2>1. Make(k) = <<59>> /\ k # KEY.PAUSE /\ 59 \in 1 .. 90
      BY <1>21, KeyNumbers DEF Make
    <2> QED
      BY <2>1
  <1>22. CASE k = KEY.F1 + 8
    <2>1. Make(k) = <<67>> /\ k # KEY.PAUSE /\ 67 \in 1 .. 90
      BY <1>22, KeyNumbers DEF Make
    <2> QED
      BY <2>1
  <1>23. CASE k = KEY.PAUSE
    BY <1>23, KeyNumbers DEF Make
  <1> QED
    BY <1>1, <1>2, <1>3, <1>4, <1>5, <1>6, <1>7, <1>8, <1>9, <1>10, <1>11, <1>12,
       <1>13, <1>14, <1>15, <1>16, <1>17, <1>18, <1>19, <1>20, <1>21, <1>22, <1>23 DEF ModelledKeys

LEMMA KeyBytes ==
    ASSUME NEW k \in ModelledKeys, NEW held
    PROVE  PressBytes(k, held) \in Seq(Byte) /\ ReleaseBytes(k, held) \in Seq(Byte)
  <1>1. CASE k = KEY.PAUSE
    <2>1. Make(k) = <<225, 29, 69, 225, 157, 197>>
      BY <1>1, MakeRange
    <2>2. ~Bracketed(k, held)
      BY <1>1, KeyNumbers DEF Bracketed
    <2>3. /\ <<225, 29, 69, 225, 157, 197>> \in Seq(Byte)
          /\ <<224, 70, 224, 198>> \in Seq(Byte) /\ << >> \in Seq(Byte)
      BY DEF Byte
    <2> QED
      BY <1>1, <2>1, <2>2, <2>3 DEF PressBytes, ReleaseBytes
  <1>2. CASE k # KEY.PAUSE
    <2>1. PICK b \in 1 .. 90 : Make(k) = <<b>> \/ Make(k) = <<224, b>>
      BY <1>2, MakeRange
    <2>2. /\ <<b>> \in Seq(Byte) /\ <<224, b>> \in Seq(Byte)
          /\ <<b + 128>> \in Seq(Byte) /\ <<224, b + 128>> \in Seq(Byte)
          /\ <<224, 42>> \in Seq(Byte) /\ <<224, 170>> \in Seq(Byte)
      BY DEF Byte
    <2>3. BreakOf(k) = <<b + 128>> \/ BreakOf(k) = <<224, b + 128>>
      <3>1. CASE Make(k) = <<b>>
        BY <3>1 DEF BreakOf
      <3>2. CASE Make(k) = <<224, b>>
        BY <3>2 DEF BreakOf
      <3> QED
        BY <2>1, <3>1, <3>2
    <2>4. Make(k) \in Seq(Byte) /\ BreakOf(k) \in Seq(Byte)
      BY <2>1, <2>2, <2>3
    <2>5. <<224, 42>> \o Make(k) \in Seq(Byte) /\ BreakOf(k) \o <<224, 170>> \in Seq(Byte)
      BY <2>2, <2>4, ConcatProperties
    <2> QED
      BY <1>2, <2>4, <2>5 DEF PressBytes, ReleaseBytes
  <1> QED
    BY <1>1, <1>2

(* A fault is counted up to its bound. *)
LEMMA FaultCounts ==
    ASSUME faults \in 0 .. MaxFaults, NEW kind, Fault(kind)
    PROVE  faults' \in 0 .. MaxFaults /\ faults' = faults + 1
  BY KeyboardAssumption DEF Fault

LEMMA ControllerTypes ==
    ASSUME NEW p, Ps2Types(p)
    PROVE  /\ \A f \in BOOLEAN : Ps2Types([p EXCEPT !.full = f])
           /\ \A o \in BOOLEAN : Ps2Types([p EXCEPT !.on = o])
           /\ \A f, o \in BOOLEAN : \A i \in BOOLEAN : Ps2Types([p EXCEPT !.irq = i, !.full = f, !.on = o])
           /\ \A d \in Byte : Ps2Types([p EXCEPT !.full = TRUE, !.data = d, !.irq = p.int])
           /\ Ps2Types([p EXCEPT !.on = FALSE, !.full = FALSE, !.int = TRUE])
           /\ \A t, i \in BOOLEAN : Ps2Types([p EXCEPT !.full = FALSE, !.translate = t, !.int = i])
           /\ \A t \in BOOLEAN : Ps2Types([p EXCEPT !.translate = t, !.on = TRUE])
  BY DEF Ps2Types, Ps2Fields

LEMMA InitTypes == Init => Types
  <1> SUFFICES ASSUME Init PROVE Types
    OBVIOUS
  <1>1. KbTypes(kb)
    BY KeyboardAssumption DEF Init, KbTypes, KbFields, Byte
  <1>2. CpuTypes(cpu)
    BY IdleIs DEF Init
  <1>3. Ps2Types(ps2)
    BY DEF Init, Ps2Types, Ps2Fields, Byte
  <1>4. DevTypes(dev)
    BY KeyboardAssumption DEF Init, DevTypes, DevFields, Byte
  <1>5. /\ DOMAIN user = UserFields /\ user.held \subseteq Keys
    BY DEF Init, UserFields
  <1>6. out \in Seq(Byte) /\ faults \in 0 .. MaxFaults
    BY KeyboardAssumption DEF Init
  <1> QED
    BY <1>1, <1>2, <1>3, <1>4, <1>5, <1>6 DEF Types

LEMMA DeliverTypes == Types /\ Deliver => Types'
  <1> SUFFICES ASSUME Types, Deliver PROVE Types'
    OBVIOUS
  <1>0. /\ dev.rep \in Seq(Byte) /\ dev.q \in Seq(Byte) /\ DOMAIN dev = DevFields /\ faults \in 0 .. MaxFaults
    BY DEF Types, DevTypes
  <1>1. /\ dev.rep # << >> => Head(dev.rep) \in Byte /\ Tail(dev.rep) \in Seq(Byte)
        /\ dev.q # << >> => Head(dev.q) \in Byte /\ Tail(dev.q) \in Seq(Byte)
    BY <1>0, HeadTailProperties
  <1>2. DevTypes(dev')
    <2>1. CASE dev.rep # << >> /\ dev' = [dev EXCEPT !.rep = Tail(@)]
      BY <1>1, <2>1 DEF Types, DevTypes, DevFields
    <2>2. CASE dev.q # << >> /\ dev' = [dev EXCEPT !.q = Tail(@)]
      BY <1>1, <2>2 DEF Types, DevTypes, DevFields
    <2> QED
      BY <2>1, <2>2 DEF Deliver
  <1>3. Ps2Types(ps2')
    <2>1. PICK d \in Byte : ps2' = [ps2 EXCEPT !.full = TRUE, !.data = d, !.irq = ps2.int]
      BY <1>1 DEF Deliver
    <2>2. Ps2Types(ps2)
      BY DEF Types
    <2> QED
      BY <2>1, <2>2, ControllerTypes
  <1>4. faults' \in 0 .. MaxFaults
    BY <1>0, FaultCounts DEF Deliver
  <1> QED
    BY <1>2, <1>3, <1>4 DEF Types, Deliver

LEMMA UserTypes ==
    ASSUME Types, NEW k \in Keys, PressKey(k) \/ ReleaseKey(k) PROVE Types'
  <1>1. k \in ModelledKeys
    BY KeyboardAssumption
  <1>2. /\ dev.q \in Seq(Byte)
        /\ \A held : PressBytes(k, held) \in Seq(Byte) /\ ReleaseBytes(k, held) \in Seq(Byte)
    BY <1>1, KeyBytes DEF Types, DevTypes
  <1>3. \A held : dev.q \o PressBytes(k, held) \in Seq(Byte) /\ dev.q \o ReleaseBytes(k, held) \in Seq(Byte)
    BY <1>2, ConcatProperties
  <1>4. DevTypes(dev')
    <2>1. PICK x : x \in Seq(Byte) /\ dev' = [dev EXCEPT !.q = x]
      BY <1>3 DEF PressKey, ReleaseKey
    <2> QED
      BY <2>1 DEF Types, DevTypes, DevFields
  <1>5. DOMAIN user' = UserFields /\ user'.held \subseteq Keys
    <2>0. DOMAIN user = UserFields /\ user.held \subseteq Keys
      BY DEF Types
    <2>1. CASE PressKey(k)
      <3>1. user' = Typed(k)
        BY <2>1 DEF PressKey
      <3> QED
        BY <2>0, <3>1 DEF Typed, UserFields
    <2>2. CASE ReleaseKey(k)
      BY <2>0, <2>2 DEF ReleaseKey, UserFields
    <2> QED
      BY <2>1, <2>2
  <1> QED
    BY <1>4, <1>5 DEF Types, PressKey, ReleaseKey

LEMMA kb_wrportTypes == Types /\ kb_wrport => Types'
  <1> SUFFICES ASSUME Types, kb_wrport PROVE Types'
    OBVIOUS
  <1>1. CpuTypes(cpu') /\ Ps2Types(ps2')
    BY GotoIs, ControllerTypes DEF kb_wrport, Goto, Types
  <1>2. DevTypes(dev')
    <2>1. CASE dev' = Takes(dev, cpu.byte)
      <3>1. DevTypes(dev) /\ cpu.byte \in Byte
        BY DEF Types, CpuTypes
      <3> QED
        BY <2>1, <3>1, TakesIs
    <2>2. CASE UNCHANGED dev
      BY <2>2 DEF Types
    <2>3. CASE dev' = [dev EXCEPT !.rep = Append(@, RESEND)]
      <3>1. Append(dev.rep, RESEND) \in Seq(Byte)
        BY Numbers, AppendProperties DEF Types, DevTypes, Byte
      <3> QED
        BY <2>3, <3>1 DEF Types, DevTypes, DevFields
    <2> QED
      BY <2>1, <2>2, <2>3 DEF kb_wrport
  <1>3. faults' \in 0 .. MaxFaults
    BY FaultCounts DEF kb_wrport, Types
  <1> QED
    BY <1>1, <1>2, <1>3 DEF Types, kb_wrport

LEMMA kb_rdportTypes == Types /\ kb_rdport => Types'
  <1> SUFFICES ASSUME Types, kb_rdport PROVE Types'
    OBVIOUS
  <1>1. ps2.data \in Byte /\ 0 \in Byte /\ CpuTypes(cpu) /\ Ps2Types(ps2) /\ faults \in 0 .. MaxFaults
    BY DEF Types, Ps2Types, Byte
  <1>2. CpuTypes(cpu')
    <2>1. PICK r \in Byte : cpu' = Answered(cpu, r)
      BY <1>1 DEF kb_rdport
    <2> QED
      BY <1>1, <2>1, AnsweredIs
  <1>3. Ps2Types(ps2')
    BY <1>1, ControllerTypes DEF kb_rdport
  <1>4. faults' \in 0 .. MaxFaults
    BY <1>1, FaultCounts DEF kb_rdport
  <1> QED
    BY <1>2, <1>3, <1>4 DEF Types, kb_rdport

(* One step of the configuration, by the label it starts from. *)
LEMMA ConfigureIs ==
    ASSUME ConfigureKeyboard
    PROVE  /\ cpu.pc = "ident" => cpu' = IF cpu.ok THEN Read(cpu, "ident2") ELSE Send(cpu, 243, "typ")
           /\ cpu.pc = "ident2" => cpu' = Read(cpu, "ident3")
           /\ cpu.pc = "ident3" => cpu' = Send(cpu, 243, "typ")
           /\ cpu.pc = "typ" => cpu' = IF cpu.ok THEN Write(cpu, 34, "typ2") ELSE Send(cpu, 240, "set1")
           /\ cpu.pc = "typ2" => cpu' = Send(cpu, 240, "set1")
           /\ cpu.pc = "set1" => cpu' = IF cpu.ok THEN Write(cpu, 0, "set2") ELSE Goto(cpu, "failed")
           /\ cpu.pc = "set2" => cpu' = Read(cpu, "set3")
           /\ cpu.pc = "set3" => cpu' = IF cpu.resp = 0 THEN Send(cpu, 240, "set4")
                                        ELSE Send([cpu EXCEPT !.old = cpu.resp], 240, "set5")
           /\ cpu.pc = "set4" => cpu' = Write(cpu, 1, "chosen")
           /\ cpu.pc = "set5" => cpu' = Write(cpu, 1, "set6")
           /\ cpu.pc = "set6" => cpu' = Send(cpu, 240, "set7")
           /\ cpu.pc = "set7" => cpu' = Write(cpu, 0, "set8")
           /\ cpu.pc = "set8" => cpu' = Read(cpu, "set9")
           /\ cpu.pc = "set9" => cpu' = IF cpu.resp = 1 THEN Goto(cpu, "chosen") ELSE Send(cpu, 240, "set10")
           /\ cpu.pc = "set10" => cpu' = Write(cpu, cpu.old, "failed")
           /\ cpu.pc \in {"ident", "ident2", "ident3", "typ", "typ2", "set1", "set2", "set3", "set4",
                          "set5", "set6", "set7", "set8", "set9", "set10"}
  <1>1. CASE cpu.pc \in {"ident", "ident2", "ident3"} /\ cpu' = kb_ident(cpu)
    <2>1. CASE cpu.pc = "ident"
      BY <1>1, <2>1, Numbers DEF kb_ident
    <2>2. CASE cpu.pc = "ident2"
      BY <1>1, <2>2, Numbers DEF kb_ident
    <2>3. CASE cpu.pc = "ident3"
      BY <1>1, <2>3, Numbers DEF kb_ident
    <2> QED
      BY <1>1, <2>1, <2>2, <2>3
  <1>2. CASE cpu.pc \in {"typ", "typ2"} /\ cpu' = kb_typematic(cpu)
    <2>1. CASE cpu.pc = "typ"
      BY <1>2, <2>1, Numbers DEF kb_typematic
    <2>2. CASE cpu.pc = "typ2"
      BY <1>2, <2>2, Numbers DEF kb_typematic
    <2> QED
      BY <1>2, <2>1, <2>2
  <1>3. CASE /\ cpu.pc \in {"set1", "set2", "set3", "set4", "set5", "set6", "set7", "set8", "set9", "set10"}
             /\ cpu' = kb_scset(cpu)
    <2>1. CASE cpu.pc = "set1"
      BY <1>3, <2>1, Numbers DEF kb_scset
    <2>2. CASE cpu.pc = "set2"
      BY <1>3, <2>2, Numbers DEF kb_scset
    <2>3. CASE cpu.pc = "set3"
      BY <1>3, <2>3, Numbers DEF kb_scset
    <2>4. CASE cpu.pc = "set4"
      BY <1>3, <2>4, Numbers DEF kb_scset
    <2>5. CASE cpu.pc = "set5"
      BY <1>3, <2>5, Numbers DEF kb_scset
    <2>6. CASE cpu.pc = "set6"
      BY <1>3, <2>6, Numbers DEF kb_scset
    <2>7. CASE cpu.pc = "set7"
      BY <1>3, <2>7, Numbers DEF kb_scset
    <2>8. CASE cpu.pc = "set8"
      BY <1>3, <2>8, Numbers DEF kb_scset
    <2>9. CASE cpu.pc = "set9"
      BY <1>3, <2>9, Numbers DEF kb_scset
    <2>10. CASE cpu.pc = "set10"
      BY <1>3, <2>10, Numbers DEF kb_scset
    <2> QED
      BY <1>3, <2>1, <2>2, <2>3, <2>4, <2>5, <2>6, <2>7, <2>8, <2>9, <2>10
  <1> QED
    BY <1>1, <1>2, <1>3 DEF ConfigureKeyboard

LEMMA ConfigureTypes == Types /\ ConfigureKeyboard => Types'
  <1> SUFFICES ASSUME Types, ConfigureKeyboard PROVE Types'
    OBVIOUS
  <1>0. /\ CpuTypes(cpu) /\ cpu.old \in Byte /\ cpu.resp \in Byte
        /\ 243 \in Byte /\ 240 \in Byte /\ 34 \in Byte /\ 0 \in Byte /\ 1 \in Byte
    BY DEF Types, CpuTypes, Byte
  <1>1. CpuTypes([cpu EXCEPT !.old = cpu.resp])
    BY <1>0 DEF CpuTypes, CpuFields
  <1>3. CpuTypes(cpu')
    <2>1. CASE cpu.pc = "ident"
      BY <1>0, <2>1, ConfigureIs, ReadIs, SendIs
    <2>2. CASE cpu.pc = "ident2"
      BY <1>0, <2>2, ConfigureIs, ReadIs
    <2>3. CASE cpu.pc = "ident3"
      BY <1>0, <2>3, ConfigureIs, SendIs
    <2>4. CASE cpu.pc = "typ"
      BY <1>0, <2>4, ConfigureIs, WriteIs, SendIs
    <2>5. CASE cpu.pc = "typ2"
      BY <1>0, <2>5, ConfigureIs, SendIs
    <2>6. CASE cpu.pc = "set1"
      BY <1>0, <2>6, ConfigureIs, WriteIs, GotoIs
    <2>7. CASE cpu.pc = "set2"
      BY <1>0, <2>7, ConfigureIs, ReadIs
    <2>8. CASE cpu.pc = "set3"
      BY <1>0, <1>1, <2>8, ConfigureIs, SendIs
    <2>9. CASE cpu.pc = "set4"
      BY <1>0, <2>9, ConfigureIs, WriteIs
    <2>10. CASE cpu.pc = "set5"
      BY <1>0, <2>10, ConfigureIs, WriteIs
    <2>11. CASE cpu.pc = "set6"
      BY <1>0, <2>11, ConfigureIs, SendIs
    <2>12. CASE cpu.pc = "set7"
      BY <1>0, <2>12, ConfigureIs, WriteIs
    <2>13. CASE cpu.pc = "set8"
      BY <1>0, <2>13, ConfigureIs, ReadIs
    <2>14. CASE cpu.pc = "set9"
      BY <1>0, <2>14, ConfigureIs, GotoIs, SendIs
    <2>15. CASE cpu.pc = "set10"
      BY <1>0, <2>15, ConfigureIs, WriteIs
    <2> QED
      BY <2>1, <2>2, <2>3, <2>4, <2>5, <2>6, <2>7, <2>8, <2>9, <2>10, <2>11, <2>12, <2>13, <2>14, <2>15, ConfigureIs
  <1> QED
    BY <1>3 DEF Types, ConfigureKeyboard

LEMMA StartTypes == Types /\ (init_ps2 \/ RewriteConfig \/ EnableKeyboard) => Types'
  <1>0. 245 \in Byte /\ 242 \in Byte /\ 244 \in Byte /\ TRUE \in BOOLEAN /\ FALSE \in BOOLEAN
    BY DEF Byte
  <1>1. ASSUME Types, init_ps2 PROVE Types'
    <2>1. CpuTypes(cpu')
      BY <1>0, <1>1, SendIs, GotoIs, Numbers DEF init_ps2, Types
    <2>2. Ps2Types(ps2')
      BY <1>1, ControllerTypes DEF init_ps2, Types
    <2> QED
      BY <1>1, <2>1, <2>2 DEF init_ps2, Types
  <1>2. ASSUME Types, RewriteConfig PROVE Types'
    <2>1. CpuTypes(cpu')
      BY <1>0, <1>2, SendIs, GotoIs, Numbers DEF RewriteConfig, Types
    <2>2. Ps2Types(ps2')
      <3>1. CASE ps2' = [ps2 EXCEPT !.full = FALSE]
        BY <1>2, <3>1, ControllerTypes DEF Types
      <3>2. CASE ps2' = [ps2 EXCEPT !.full = FALSE, !.translate = FALSE,
                        !.int = IF ps2.full THEN ps2.data % 2 = 1 ELSE @]
        <4>1. (IF ps2.full THEN ps2.data % 2 = 1 ELSE ps2.int) \in BOOLEAN
          BY <1>2 DEF Types, Ps2Types
        <4>2. PICK i \in BOOLEAN : ps2' = [ps2 EXCEPT !.full = FALSE, !.translate = FALSE, !.int = i]
          BY <3>2, <4>1, Zenon
        <4> QED
          BY <1>2, <4>2, ControllerTypes DEF Types
      <3> QED
        BY <1>2, <3>1, <3>2 DEF RewriteConfig
    <2> QED
      BY <1>2, <2>1, <2>2 DEF RewriteConfig, Types
  <1>3. ASSUME Types, EnableKeyboard PROVE Types'
    <2>1. CpuTypes(cpu')
      BY <1>0, <1>3, SendIs, Numbers DEF EnableKeyboard, Types
    <2>2. Ps2Types(ps2')
      <3>1. PICK t \in BOOLEAN : ps2' = [ps2 EXCEPT !.translate = t, !.on = TRUE]
        BY <1>3, Zenon DEF EnableKeyboard
      <3> QED
        BY <1>3, <3>1, ControllerTypes DEF Types
    <2>3. KbTypes(kb')
      BY <1>3 DEF EnableKeyboard, Types, KbTypes, KbFields
    <2> QED
      BY <1>3, <2>1, <2>2, <2>3 DEF EnableKeyboard, Types
  <1> QED
    BY <1>1, <1>2, <1>3

LEMMA LedsTypes == Types /\ (kb_setleds \/ FinishInit) => Types'
  <1>1. ASSUME Types, kb_setleds PROVE Types'
    <2>1. LedsOf(kb) \in 0 .. 7 /\ LedsOf(kb) \in Byte /\ CpuTypes(cpu)
      BY <1>1, LedsOfRange DEF Types
    <2>2. CpuTypes(cpu')
      <3>1. CASE cpu' = Goto(cpu, cpu.ret)
        BY <2>1, <3>1, GotoIs
      <3>2. CASE cpu' = Write(cpu, LedsOf(kb), cpu.ret)
        BY <2>1, <3>2, WriteIs
      <3> QED
        BY <1>1, <3>1, <3>2 DEF kb_setleds
    <2>3. KbTypes(kb')
      <3>1. CASE kb' = [kb EXCEPT !.leds = LedsOf(kb)]
        <4>1. PICK l \in 0 .. 7 : kb' = [kb EXCEPT !.leds = l]
          BY <2>1, <3>1
        <4> QED
          BY <1>1, <4>1 DEF Types, KbTypes, KbFields
      <3> QED
        BY <1>1, <3>1 DEF kb_setleds, Types
    <2> QED
      BY <1>1, <2>2, <2>3 DEF kb_setleds, Types
  <1>2. ASSUME Types, FinishInit PROVE Types'
    <2>1. CpuTypes(cpu')
      <3>1. CASE cpu' = update_leds(kb, cpu, "register")
        BY <1>2, <3>1, update_ledsIs DEF Types
      <3> QED
        BY <1>2, <3>1, IdleIs DEF FinishInit
    <2>2. Ps2Types(ps2')
      BY <1>2, ControllerTypes DEF FinishInit, Types
    <2>3. KbTypes(kb')
      BY <1>2 DEF FinishInit, Types, KbTypes, KbFields
    <2> QED
      BY <1>2, <2>1, <2>2, <2>3 DEF FinishInit, Types
  <1> QED
    BY <1>1, <1>2

LEMMA InterruptTypes == Types /\ kb_interrupt => Types'
  <1> SUFFICES ASSUME Types, kb_interrupt PROVE Types'
    OBVIOUS
  <1>0. KbTypes(kb) /\ CpuTypes(cpu) /\ Ps2Types(ps2) /\ ps2.data \in Byte
    BY DEF Types, Ps2Types
  <1> DEFINE sc == ps2.data
  <1>1. Ps2Types(ps2')
    <2>1. PICK o \in BOOLEAN : ps2' = [ps2 EXCEPT !.irq = FALSE, !.full = FALSE, !.on = o]
      BY DEF kb_interrupt, Stray, Prefix, Decode
    <2> QED
      BY <1>0, <2>1, ControllerTypes
  <1>2. CASE Stray(sc)
    BY <1>1, <1>2 DEF Stray, kb_interrupt, Types
  <1>3. CASE Prefix(sc)
    <2>1. KbTypes(kb')
      BY <1>0, <1>3 DEF Prefix, KbTypes, KbFields
    <2> QED
      BY <1>1, <1>3, <2>1 DEF Prefix, kb_interrupt, Types
  <1>4. CASE Decode(sc)
    <2> DEFINE raw == KeyOf(kb.e0, sc % 128)
               key == IF kb.e1 /\ raw = KEY.NUMLK THEN KEY.PAUSE
                      ELSE IF kb.numlk THEN raw ELSE Unlocked(raw)
               k1 == Prefixed(kb, sc, raw)
               k2 == IF sc >= 128 THEN k1 ELSE Toggled(k1, key)
               c1 == [cpu EXCEPT !.key = key, !.rel = sc >= 128]
    <2>1. KbTypes(k1)
      BY <1>0 DEF Prefixed, KbTypes, KbFields
    <2>2. KbTypes(k2)
      <3> HIDE DEF k1, key
      <3> QED
        BY <2>1, ZenonT(60) DEF Toggled, KbTypes, KbFields
    <2>3. CpuTypes(c1)
      <3> HIDE DEF key
      <3> QED
        BY <1>0 DEF CpuTypes, CpuFields
    <2>4. /\ kb' = k2
          /\ cpu' = IF kb.scset # 1 \/ (kb.e0 /\ kb.e1) THEN Goto(cpu, "panic")
                    ELSE update_leds(k2, c1, "key")
      BY <1>4 DEF Decode
    <2> HIDE DEF k2, c1
    <2>5. CpuTypes(cpu')
      <3>1. CASE cpu' = Goto(cpu, "panic")
        BY <1>0, <3>1, GotoIs
      <3>2. CASE cpu' = update_leds(k2, c1, "key")
        BY <2>3, <3>2, update_ledsIs
      <3> QED
        BY <2>4, <3>1, <3>2
    <2> QED
      BY <1>1, <2>2, <2>4, <2>5 DEF kb_interrupt, Types
  <1> QED
    BY <1>2, <1>3, <1>4 DEF kb_interrupt

LEMMA HandleKeyTypes == Types /\ HandleKey => Types'
  <1> SUFFICES ASSUME Types, HandleKey PROVE Types'
    OBVIOUS
  <1> DEFINE key == cpu.key
             k == [kb EXCEPT !.mods = handle_modifier(kb, key, cpu.rel)]
             m == Mods(k.mods)
             submit == cpu.rel /\ is_alt(key) /\ k.altchar # 0
             reset == ~cpu.rel /\ {"ctrl", "alt"} \subseteq m /\ key \in {KEY.DELETE, KEY.KPDOT}
             crash == ~cpu.rel /\ {"ctrl", "alt"} \subseteq m /\ is_fnkey(key) /\ k.crashkey = 0
             switch == ~cpu.rel /\ m \cap {"ctrl", "alt"} = {"alt"} /\ is_fnkey(key)
                       /\ fnkey_index(key) <= NR_TERMINAL
             digit == ~cpu.rel /\ "alt" \in m /\ is_numpad(key)
             chars == IF submit THEN <<k.altchar>>
                      ELSE IF cpu.rel \/ reset \/ switch \/ digit THEN << >>
                      ELSE CharsOf(k, key)
  <1>0. KbTypes(kb) /\ CpuTypes(cpu) /\ Ps2Types(ps2)
    BY DEF Types
  <1>1. KbTypes(k)
    <2>1. handle_modifier(kb, key, cpu.rel) \subseteq ModKeys
      BY <1>0 DEF handle_modifier, KbTypes
    <2>2. PICK x : x = handle_modifier(kb, key, cpu.rel)
      OBVIOUS
    <2> QED
      BY <1>0, <2>1, <2>2 DEF KbTypes, KbFields
  <1>2. chars \in Seq(Byte)
    <2>1. <<k.altchar>> \in Seq(Byte)
      BY <1>1 DEF KbTypes
    <2>2. CharsOf(k, key) \in Seq(Byte)
      BY CharsRange
    <2> HIDE DEF k
    <2> QED
      BY <2>1, <2>2
  <1>3. switch => fnkey_index(key) \in 1 .. NR_TERMINAL
    BY KeyboardAssumption, KeyNumbers DEF is_fnkey, fnkey_index
  <1>4. digit => AltDigit(k.altchar, key) \in Byte
    <2>1. ASSUME NEW a \in Byte, NEW d \in Nat PROVE (10 * a + d) % 256 \in Byte
      BY DEF Byte
    <2>2. digit => numpad_index(key) \in Nat
      BY KeyNumbers DEF is_numpad, numpad_index
    <2>3. k.altchar \in Byte
      BY <1>1 DEF KbTypes
    <2> HIDE DEF k, digit
    <2> QED
      BY <2>1, <2>2, <2>3 DEF AltDigit
  <1>5. /\ kb' = [k EXCEPT
                    !.altchar = IF submit THEN 0 ELSE IF digit THEN AltDigit(@, key) ELSE @,
                    !.crashkey = IF crash THEN fnkey_index(key) ELSE @,
                    !.term = IF switch THEN fnkey_index(key) ELSE @,
                    !.pollchar = IF chars = << >> THEN @ ELSE Last(chars)]
        /\ out' = out \o chars
        /\ \E p : cpu' = [Idle EXCEPT !.pc = p]
        /\ ps2' = [ps2 EXCEPT !.on = ~reset]
        /\ UNCHANGED <<dev, user, task, faults>>
    BY DEF HandleKey
  <1> HIDE DEF k, submit, reset, crash, switch, digit, chars
  <1>6. KbTypes(kb')
    <2>1. PICK a, c, t, p :
             /\ a = IF submit THEN 0 ELSE IF digit THEN AltDigit(k.altchar, key) ELSE k.altchar
             /\ t = IF switch THEN fnkey_index(key) ELSE k.term
             /\ kb' = [k EXCEPT !.altchar = a, !.crashkey = c, !.term = t, !.pollchar = p]
      BY <1>5, ZenonT(60)
    <2>2. a \in Byte /\ t \in 1 .. NR_TERMINAL
      <3>1. 0 \in Byte /\ k.altchar \in Byte /\ k.term \in 1 .. NR_TERMINAL
        BY <1>1 DEF KbTypes, Byte
      <3> QED
        BY <1>3, <1>4, <2>1, <3>1
    <2> QED
      BY <1>1, <2>1, <2>2 DEF KbTypes, KbFields
  <1>7. CpuTypes(cpu')
    BY <1>5, IdleIs
  <1>8. Ps2Types(ps2')
    <2>1. PICK o \in BOOLEAN : ps2' = [ps2 EXCEPT !.on = o]
      BY <1>5, Zenon DEF reset
    <2> QED
      BY <1>0, <2>1, ControllerTypes
  <1>9. out' \in Seq(Byte)
    BY <1>2, <1>5, ConcatProperties DEF Types
  <1> QED
    BY <1>5, <1>6, <1>7, <1>8, <1>9 DEF Types

LEMMA PollTypes == Types /\ kb_getc => Types'
  <1> SUFFICES ASSUME Types, kb_getc PROVE Types'
    OBVIOUS
  <1>1. KbTypes(kb')
    BY DEF kb_getc, Types, KbTypes, KbFields
  <1> QED
    BY <1>1 DEF kb_getc, Types

LEMMA TypesStep == Types /\ [Next]_vars => Types'
  <1>1. Types /\ UNCHANGED vars => Types'
    BY DEF Types, vars
  <1> QED
    BY <1>1, DeliverTypes, UserTypes, kb_wrportTypes, kb_rdportTypes, ConfigureTypes, StartTypes,
       LedsTypes, InterruptTypes, HandleKeyTypes, PollTypes DEF Next, Driver

LEMMA TypesHold == Spec => []Types
  BY InitTypes, TypesStep, PTL DEF Spec

(* The driver's variables keep their widths whatever the keyboard sends:   *)
(* kb_sendcmd's retries never go below zero, an ALT code stays a byte, a    *)
(* terminal switch names a terminal there is, and only characters reach the *)
(* line discipline (kb_interrupt, kb_sendcmd, switch_console).              *)
THEOREM KeyboardTypes == Spec => []TypeOK
  <1>1. Types => TypeOK
    BY DEF Types, TypeOK, KbTypes, CpuTypes, Byte
  <1> QED
    BY <1>1, TypesHold, PTL

-------------------------------------------------------------------------------
(* Initialisation ends with scancode set 1.  What is on its way to the      *)
(* driver, byte by byte: in the controller, or still in the keyboard.       *)

None == ~ps2.full /\ dev.rep = << >>
One(a) == \/ ps2.full /\ ps2.data = a /\ dev.rep = << >>
          \/ ~ps2.full /\ dev.rep = <<a>>
Two(a, b) == \/ ps2.full /\ ps2.data = a /\ dev.rep = <<b>>
             \/ ~ps2.full /\ dev.rep = <<a, b>>
Three(a, b, c) == \/ ps2.full /\ ps2.data = a /\ dev.rep = <<b, c>>
                  \/ ~ps2.full /\ dev.rep = <<a, b, c>>

(* The place in init_kb the driver is at, or comes to after its call. *)
Heading == IF cpu.pc \in {"wr", "rd"} THEN cpu.then ELSE cpu.pc

(* The keyboard has taken the command to choose a set and awaits the number. *)
Chooses == dev.await = CMD.SCANCODE

(* A command was refused as often as it is tried; two of them were. *)
Refused == faults >= RETRY_COUNT
RefusedTwice == faults >= 2 * RETRY_COUNT

CommandFor(l) ==
    IF l = "off" THEN 245 ELSE IF l = "ident" THEN 242 ELSE IF l = "typ" THEN 243
    ELSE IF l = "flush" THEN 244 ELSE IF l = "leds" THEN 237 ELSE 240

CommandLabels == {"off", "ident", "typ", "set1", "set4", "set5", "set7", "set10", "flush", "leds"}
WriteLabels == {"typ2", "set2", "chosen", "set6", "set8", "failed", "register"}
ReadLabels == {"ident2", "ident3", "set3", "set9"}

Accepted(b) ==
    IF b = 240
    THEN IF dev.model = "fixed" THEN None /\ ~Chooses ELSE One(ACK) /\ Chooses
    ELSE ~Chooses /\ (IF b = 242 THEN Three(ACK, 171, 131) ELSE One(ACK))

(* Refusals a command that heads for l has behind it before its first try. *)
Before(l) == IF l = "set10" THEN RETRY_COUNT ELSE 0

(* kb_sendcmd: each retry has a refusal behind it. *)
Command ==
    cpu.pc \in {"wr", "rd"} /\ cpu.kind = "cmd" =>
        /\ cpu.then \in CommandLabels /\ cpu.byte = CommandFor(cpu.then)
        /\ cpu.left \in 1 .. RETRY_COUNT
        /\ cpu.pc = "wr" => None /\ ~Chooses /\ faults >= Before(cpu.then) + RETRY_COUNT - cpu.left
        /\ cpu.pc = "rd" =>
             \/ Accepted(cpu.byte)
             \/ One(RESEND) /\ ~Chooses /\ faults > Before(cpu.then) + RETRY_COUNT - cpu.left

(* A data byte about to be written. *)
DataOut ==
    cpu.pc = "wr" /\ cpu.kind = "data" =>
        /\ None /\ cpu.then \in WriteLabels
        /\ cpu.then = "typ2" => cpu.byte = 34 /\ ~Chooses
        /\ cpu.then = "set2" => cpu.byte = 0 /\ Chooses
        /\ cpu.then = "set8" => cpu.byte = 0 /\ (Chooses \/ Refused)
        /\ cpu.then \in {"chosen", "set6"} => cpu.byte = 1 /\ (Chooses \/ Refused)
        /\ cpu.then = "failed" => cpu.byte = 2 /\ (Chooses \/ RefusedTwice)
        /\ cpu.then = "register" => cpu.byte \in 0 .. 7 /\ ~Chooses

(* An answer about to be read. *)
DataIn ==
    cpu.pc = "rd" /\ cpu.kind = "data" =>
        /\ ~Chooses /\ cpu.then \in WriteLabels \cup ReadLabels
        /\ cpu.then \in {"typ2", "chosen", "set6", "failed", "register"} => One(ACK)
        /\ cpu.then = "ident2" => Two(171, 131)
        /\ cpu.then = "ident3" => One(131)
        /\ cpu.then = "set2" => IF dev.model = "full" THEN Two(ACK, 2) ELSE One(ACK)
        /\ cpu.then = "set3" => IF dev.model = "full" THEN One(2) ELSE None
        /\ cpu.then = "set8" => Two(ACK, dev.set) \/ (One(ACK) /\ Refused)
        /\ cpu.then = "set9" => One(dev.set) \/ (None /\ Refused)

(* Between two calls. *)
Between ==
    cpu.pc \notin {"wr", "rd"} =>
        /\ cpu.pc = "ident" => IF cpu.ok THEN Two(171, 131) ELSE None
        /\ cpu.pc = "ident2" => One(131)
        /\ cpu.pc = "set2" => IF dev.model = "full" THEN One(2) ELSE None
        /\ cpu.pc = "set8" => One(dev.set) \/ (None /\ Refused)
        /\ cpu.pc \notin {"ident", "ident2", "set2", "set8"} => None
        /\ cpu.pc = "set1" => (cpu.ok <=> Chooses) /\ (cpu.ok => dev.model # "fixed")
        /\ cpu.pc = "set3" => cpu.resp = IF dev.model = "full" THEN 2 ELSE 0
        /\ cpu.pc \in {"set4", "set5", "set7"} => Chooses \/ Refused
        /\ cpu.pc = "set9" => cpu.resp = dev.set \/ (cpu.resp = 0 /\ Refused)
        /\ cpu.pc = "set10" => Chooses \/ RefusedTwice
        /\ Chooses => cpu.pc \in {"set1", "set4", "set5", "set7", "set10"}

(* The set the keyboard sends, on the way to a label. *)
SetAt(l) ==
    /\ l \in {"boot", "off", "cfg", "ident", "ident2", "ident3", "typ", "typ2", "set1", "set2", "set3",
              "set4", "set5"} => dev.set = 2
    /\ l \in {"set2", "set3"} => dev.model \in {"full", "noread"}
    /\ l = "set4" => dev.model = "noread"
    /\ l \in {"set5", "set6", "set7", "set8", "set9", "set10"} => dev.model = "full" /\ cpu.old = 2
    /\ l = "set6" /\ cpu.pc = "wr" => dev.set = 2
    /\ l \in {"set7", "set8", "set9"} \/ (l = "set6" /\ cpu.pc # "wr") =>
          dev.set = 1 \/ (dev.set = 2 /\ Refused)
    /\ l = "set10" => Refused
    /\ l = "chosen" /\ cpu.pc = "wr" => dev.set = 2 /\ dev.model = "noread"
    /\ l = "chosen" /\ cpu.pc # "wr" => dev.set = 1 \/ (dev.model = "noread" /\ Refused)
    /\ l = "failed" /\ cpu.pc # "wr" => dev.set = 2 \/ RefusedTwice

(* The scancodes that arrive are those of set 1, as far as init_kb can tell. *)
Right == \/ dev.set = 1 /\ ~ps2.translate
         \/ dev.set = 2 /\ ps2.translate
         \/ dev.model = "noread" /\ Refused

BootLabels == {"boot", "cfg", "halt"} \cup CommandLabels \cup WriteLabels \cup ReadLabels

BootInv ==
    /\ dev.q = << >> /\ user.held = {}
    /\ Heading \in BootLabels
    /\ Command /\ DataOut /\ DataIn /\ Between /\ SetAt(Heading)
    /\ Heading \in {"flush", "leds", "register"} => Right \/ RefusedTwice
    /\ Heading = "leds" => cpu.ret = "register"

RunInv ==
    /\ ~Chooses
    /\ Heading \in {"idle", "leds", "key", "panic", "reset", "crash"}
    /\ Heading = "leds" => cpu.ret = "key"
    /\ cpu.pc \in {"wr", "rd"} => cpu.byte = 237 \/ cpu.byte \in 0 .. 7

SetInv == (~kb.ready => BootInv) /\ (kb.ready => RunInv)

(* While init_kb runs the keyboard refuses fewer commands than two of them  *)
(* are tried: the choice of set 1, and then the return to the old one.      *)
FewRefusals == ~kb.ready => faults < 2 * RETRY_COUNT

OnlyRefuses == BootFaults \subseteq {"nak"}

LEMMA Pops ==
    ASSUME Types, kb_rdport, OnlyRefuses, ~kb.ready, dev.q = << >>
    PROVE  \E r \in Byte :
             /\ cpu' = Answered(cpu, r)
             /\ UNCHANGED <<kb, dev, user, faults>> /\ ps2'.translate = ps2.translate
             /\ None => r = 0 /\ None'
             /\ \A a : One(a) => r = a /\ None'
             /\ \A a, b : Two(a, b) => r = a /\ One(b)'
             /\ \A a, b, c : Three(a, b, c) => r = a /\ Two(b, c)'
  <1>0. /\ DOMAIN ps2 = Ps2Fields /\ ps2.data \in Byte /\ 0 \in Byte
    BY DEF Types, Ps2Types, Byte
  <1>1. CASE ps2.full
    <2>1. /\ ps2' = [ps2 EXCEPT !.full = FALSE] /\ cpu' = Answered(cpu, ps2.data)
          /\ UNCHANGED <<kb, dev, user, faults>>
      BY <1>1 DEF kb_rdport
    <2>2. ~ps2'.full /\ ps2'.translate = ps2.translate /\ dev' = dev
      BY <1>0, <2>1 DEF Ps2Fields
    <2>3. None => ps2.data = 0 /\ None'
      BY <1>1 DEF None
    <2>4. \A a : One(a) => ps2.data = a /\ None'
      BY <1>1, <2>2 DEF None, One
    <2>5. \A a, b : Two(a, b) => ps2.data = a /\ One(b)'
      BY <1>1, <2>2 DEF Two, One
    <2>6. \A a, b, c : Three(a, b, c) => ps2.data = a /\ Two(b, c)'
      BY <1>1, <2>2 DEF Two, Three
    <2> QED
      BY <1>0, <2>1, <2>2, <2>3, <2>4, <2>5, <2>6
  <1>2. CASE ~ps2.full
    <2>1. ~Fault("late")
      BY DEF Fault, OnlyRefuses
    <2>2. /\ dev.rep = << >> /\ UNCHANGED <<kb, dev, user, faults, ps2>> /\ cpu' = Answered(cpu, 0)
      BY <1>2, <2>1 DEF kb_rdport
    <2>3. None' /\ ps2'.translate = ps2.translate
      BY <1>2, <2>2 DEF None
    <2>4. /\ \A a : ~One(a)
          /\ \A a, b : ~Two(a, b)
          /\ \A a, b, c : ~Three(a, b, c)
      BY <1>2, <2>2 DEF One, Two, Three
    <2> QED
      BY <1>0, <2>2, <2>3, <2>4
  <1> QED
    BY <1>1, <1>2

LEMMA Moves ==
    ASSUME Types, Deliver, dev.q = << >>
    PROVE  /\ UNCHANGED <<kb, cpu, user, faults>> /\ ps2'.translate = ps2.translate
           /\ dev'.q = << >> /\ dev'.set = dev.set /\ dev'.await = dev.await /\ dev'.model = dev.model
           /\ ~None
           /\ \A a : One(a) => One(a)'
           /\ \A a, b : Two(a, b) => Two(a, b)'
           /\ \A a, b, c : Three(a, b, c) => Three(a, b, c)'
  <1>0. /\ DOMAIN ps2 = Ps2Fields /\ DOMAIN dev = DevFields
    BY DEF Types, Ps2Types, DevTypes
  <1>1. /\ ~ps2.full /\ dev.rep # << >>
        /\ ps2' = [ps2 EXCEPT !.full = TRUE, !.data = Head(dev.rep), !.irq = ps2.int]
        /\ dev' = [dev EXCEPT !.rep = Tail(@)]
        /\ UNCHANGED <<kb, cpu, user, faults>>
    BY DEF Deliver
  <1>2. /\ ps2'.full /\ ps2'.data = Head(dev.rep) /\ ps2'.translate = ps2.translate
        /\ dev'.rep = Tail(dev.rep) /\ dev'.q = dev.q /\ dev'.set = dev.set
        /\ dev'.await = dev.await /\ dev'.model = dev.model
    BY <1>0, <1>1 DEF Ps2Fields, DevFields
  <1>3. ASSUME NEW a, One(a) PROVE One(a)'
    <2>1. dev.rep = <<a>>
      BY <1>1, <1>3 DEF One
    <2>2. Head(<<a>>) = a /\ Tail(<<a>>) = << >>
      OBVIOUS
    <2>3. Head(dev.rep) = a /\ Tail(dev.rep) = << >>
      BY <2>1, <2>2
    <2> QED
      BY <1>2, <2>3 DEF One
  <1>4. ASSUME NEW a, NEW b, Two(a, b) PROVE Two(a, b)'
    <2>1. dev.rep = <<a, b>>
      BY <1>1, <1>4 DEF Two
    <2>2. Head(<<a, b>>) = a /\ Tail(<<a, b>>) = <<b>>
      OBVIOUS
    <2>3. Head(dev.rep) = a /\ Tail(dev.rep) = <<b>>
      BY <2>1, <2>2
    <2> QED
      BY <1>2, <2>3 DEF Two
  <1>5. ASSUME NEW a, NEW b, NEW c, Three(a, b, c) PROVE Three(a, b, c)'
    <2>1. dev.rep = <<a, b, c>>
      BY <1>1, <1>5 DEF Three
    <2>2. Head(<<a, b, c>>) = a /\ Tail(<<a, b, c>>) = <<b, c>>
      OBVIOUS
    <2>3. Head(dev.rep) = a /\ Tail(dev.rep) = <<b, c>>
      BY <2>1, <2>2
    <2> QED
      BY <1>2, <2>3 DEF Three
  <1> QED
    BY <1>1, <1>2, <1>3, <1>4, <1>5 DEF None

LEMMA Writes ==
    ASSUME Types, kb_wrport, OnlyRefuses, ~kb.ready, None
    PROVE  /\ UNCHANGED <<kb, user>> /\ ps2'.translate = ps2.translate /\ ~ps2'.full
           /\ CpuTypes(cpu') /\ cpu'.pc = "rd" /\ cpu'.kind = cpu.kind /\ cpu'.byte = cpu.byte
           /\ cpu'.left = cpu.left /\ cpu'.then = cpu.then /\ cpu'.ret = cpu.ret /\ cpu'.old = cpu.old
           /\ \/ dev' = Takes(dev, cpu.byte) /\ UNCHANGED faults
              \/ /\ cpu.kind = "cmd" /\ faults' = faults + 1 /\ One(RESEND)'
                 /\ dev'.q = dev.q /\ dev'.set = dev.set /\ dev'.await = dev.await
                 /\ dev'.model = dev.model
  <1>0. /\ DOMAIN ps2 = Ps2Fields /\ DOMAIN dev = DevFields /\ CpuTypes(cpu)
    BY DEF Types, Ps2Types, DevTypes
  <1>1. /\ UNCHANGED <<kb, user>> /\ ps2'.translate = ps2.translate /\ ~ps2'.full
    BY <1>0 DEF kb_wrport, None, Ps2Fields
  <1>2. cpu' = Goto(cpu, "rd")
    BY DEF kb_wrport, Goto
  <1>3. ~Fault("lost") /\ ~Fault("nakdata")
    BY DEF Fault, OnlyRefuses
  <1>4. CASE dev' = Takes(dev, cpu.byte) /\ UNCHANGED faults
    BY <1>0, <1>1, <1>2, <1>4, GotoIs
  <1>5. CASE cpu.kind = "cmd" /\ Fault("nak") /\ dev' = [dev EXCEPT !.rep = Append(@, RESEND)]
    <2>1. Append(dev.rep, RESEND) = <<RESEND>>
      BY DEF None
    <2>2. /\ dev'.rep = <<RESEND>> /\ dev'.q = dev.q /\ dev'.set = dev.set /\ dev'.await = dev.await
          /\ dev'.model = dev.model
      BY <1>0, <1>5, <2>1 DEF DevFields
    <2>3. One(RESEND)'
      BY <1>1, <2>2 DEF One
    <2>4. faults' = faults + 1
      BY <1>5 DEF Fault
    <2> QED
      BY <1>0, <1>1, <1>2, <1>5, <2>2, <2>3, <2>4, GotoIs
  <1> QED
    BY <1>3, <1>4, <1>5 DEF kb_wrport

(* A state that differs from another in nothing the invariant looks at. *)
LEMMA BootDeliver ==
    ASSUME Types, BootInv, Deliver PROVE BootInv'
  <1>0. dev.q = << >>
    BY DEF BootInv
  <1>1. /\ UNCHANGED <<kb, cpu, user, faults>> /\ ps2'.translate = ps2.translate
        /\ dev'.q = << >> /\ dev'.set = dev.set /\ dev'.await = dev.await /\ dev'.model = dev.model
        /\ ~None
        /\ \A a : One(a) => One(a)'
        /\ \A a, b : Two(a, b) => Two(a, b)'
        /\ \A a, b, c : Three(a, b, c) => Three(a, b, c)'
    BY <1>0, Moves
  <1>2. /\ (Chooses <=> Chooses') /\ (Refused <=> Refused') /\ (RefusedTwice <=> RefusedTwice')
        /\ (Right => Right') /\ Heading' = Heading
    BY <1>1 DEF Chooses, Refused, RefusedTwice, Right, Heading
  <1>3. Command'
    BY <1>1, <1>2 DEF BootInv, Command, Accepted, Before
  <1>4. DataOut' /\ DataIn'
    BY <1>1, <1>2 DEF BootInv, DataOut, DataIn
  <1>5. Between'
    BY <1>1, <1>2 DEF BootInv, Between
  <1>6. SetAt(Heading)'
    BY <1>1, <1>2 DEF BootInv, SetAt
  <1> QED
    BY <1>1, <1>2, <1>3, <1>4, <1>5, <1>6 DEF BootInv

LEMMA BootWriteCommand ==
    ASSUME Types, BootInv, kb_wrport, OnlyRefuses, ~kb.ready, cpu.kind = "cmd" PROVE BootInv'
  <1>0. /\ cpu.pc = "wr" /\ dev.q = << >> /\ user.held = {} /\ DevTypes(dev) /\ cpu.byte \in Byte
        /\ faults \in Nat /\ RETRY_COUNT \in Nat /\ cpu.left \in Nat
    BY KeyboardAssumption DEF kb_wrport, BootInv, Types, CpuTypes
  <1>1. /\ cpu.then \in CommandLabels /\ cpu.byte = CommandFor(cpu.then) /\ cpu.left \in 1 .. RETRY_COUNT
        /\ None /\ ~Chooses /\ faults >= Before(cpu.then) + RETRY_COUNT - cpu.left
    BY <1>0 DEF BootInv, Command
  <1>2. cpu.byte \in {237, 240, 242, 243, 244, 245}
    BY <1>1 DEF CommandFor
  <1>3. /\ UNCHANGED <<kb, user>> /\ ps2'.translate = ps2.translate /\ ~ps2'.full
        /\ cpu'.pc = "rd" /\ cpu'.kind = cpu.kind /\ cpu'.byte = cpu.byte
        /\ cpu'.left = cpu.left /\ cpu'.then = cpu.then /\ cpu'.ret = cpu.ret /\ cpu'.old = cpu.old
    BY <1>1, Writes
  <1>4. Heading' = Heading /\ Heading = cpu.then
    BY <1>0, <1>3 DEF Heading
  <1>5. /\ dev'.q = << >> /\ dev'.set = dev.set /\ dev'.model = dev.model
        /\ faults' \in Nat /\ faults' >= faults
        /\ \/ Accepted(cpu.byte)'
           \/ One(RESEND)' /\ ~Chooses' /\ faults' = faults + 1
    <2>1. CASE dev' = Takes(dev, cpu.byte) /\ UNCHANGED faults
      <3>1. PICK e, b : e = dev' /\ b = cpu.byte
        OBVIOUS
      <3>a. DevTypes(dev) /\ b \in Byte /\ e = Takes(dev, b)
        BY <1>0, <2>1, <3>1
      <3>t. Taken(e, dev, b)
        BY <3>a, TakesIs
      <3>b. /\ b # 245 => e.q = dev.q
            /\ b = 245 => e.q = << >>
            /\ e.model = dev.model
        BY <3>t DEF Taken
      <3>c. b = 240 /\ dev.model = "fixed" => e.await = dev.await /\ e.rep = dev.rep /\ e.set = dev.set
        BY <3>t DEF Taken
      <3>d. b \in {237, 243} \/ (b = 240 /\ dev.model # "fixed") =>
               e.await = b /\ e.rep = dev.rep \o <<ACK>> /\ e.set = dev.set
        BY <3>t DEF Taken
      <3>e. b = 242 => e.await = 0 /\ e.rep = dev.rep \o <<ACK, 171, 131>> /\ e.set = dev.set
        BY <3>t DEF Taken
      <3>f. b \in {244, 245} => e.await = 0 /\ e.rep = dev.rep \o <<ACK>> /\ e.set = dev.set
        BY <3>t DEF Taken
      <3>2. e.q = << >> /\ e.model = dev.model
        BY <1>0, <3>b
      <3>3. e.set = dev.set
        BY <1>2, <3>1, <3>c, <3>d, <3>e, <3>f
      <3>4. /\ dev.rep \o <<ACK>> = <<ACK>> /\ dev.rep \o <<ACK, 171, 131>> = <<ACK, 171, 131>>
        BY <1>1 DEF None
      <3>5. Accepted(cpu.byte)'
        <4>0. CMD.SCANCODE = 240 /\ dev'.rep = e.rep /\ dev'.await = e.await /\ dev'.model = dev.model
          BY <3>1, <3>2, Numbers
        <4>1. CASE b = 240 /\ dev.model = "fixed"
          <5>1. None' /\ ~Chooses'
            BY <1>1, <1>3, <3>c, <4>0, <4>1 DEF None, Chooses
          <5> QED
            BY <1>3, <3>1, <4>0, <4>1, <5>1 DEF Accepted
        <4>2. CASE b = 240 /\ dev.model # "fixed"
          <5>1. One(ACK)' /\ Chooses'
            BY <1>3, <3>d, <3>4, <4>0, <4>2 DEF One, Chooses, ACK
          <5> QED
            BY <1>3, <3>1, <4>0, <4>2, <5>1 DEF Accepted
        <4>3. CASE b = 242
          <5>0. ~ps2'.full /\ dev'.rep = <<ACK, 171, 131>> /\ dev'.await = 0
            BY <1>3, <3>e, <3>4, <4>0, <4>3
          <5>1. Three(ACK, 171, 131)' /\ ~Chooses'
            BY <4>0, <5>0 DEF Three, Chooses, ACK
          <5> QED
            BY <1>3, <3>1, <4>3, <5>1 DEF Accepted
        <4>4. CASE b \in {237, 243, 244, 245}
          <5>0. ~ps2'.full /\ dev'.rep = <<ACK>> /\ (dev'.await = 0 \/ dev'.await \in {237, 243})
            BY <1>3, <3>d, <3>f, <3>4, <4>0, <4>4
          <5>1. One(ACK)' /\ ~Chooses'
            BY <4>0, <5>0 DEF One, Chooses, ACK
          <5> QED
            BY <1>3, <3>1, <4>4, <5>1 DEF Accepted
        <4> QED
          BY <1>2, <3>1, <4>1, <4>2, <4>3, <4>4
      <3> QED
        BY <1>0, <2>1, <3>1, <3>2, <3>3, <3>5
    <2>2. CASE ~(dev' = Takes(dev, cpu.byte) /\ UNCHANGED faults)
      <3>1. /\ faults' = faults + 1 /\ One(RESEND)' /\ dev'.q = dev.q /\ dev'.set = dev.set
            /\ dev'.await = dev.await /\ dev'.model = dev.model
        BY <1>1, <2>2, Writes
      <3> QED
        BY <1>0, <1>1, <3>1 DEF Chooses
    <2> QED
      BY <2>1, <2>2
  <1>6. /\ (Refused => Refused') /\ (Right => Right') /\ (RefusedTwice => RefusedTwice')
    BY <1>0, <1>3, <1>5 DEF Refused, RefusedTwice, Right
  <1>7. Command'
    BY <1>0, <1>1, <1>3, <1>5 DEF Command, Before
  <1>8. DataOut' /\ DataIn' /\ Between'
    BY <1>0, <1>3 DEF DataOut, DataIn, Between
  <1>9. SetAt(Heading)'
    <2>1. SetAt(cpu.then) /\ cpu.then \notin {"set6", "chosen", "failed"}
      BY <1>1, <1>4 DEF BootInv, CommandLabels
    <2> QED
      BY <1>3, <1>4, <1>5, <1>6, <2>1 DEF SetAt
  <1> QED
    BY <1>0, <1>3, <1>4, <1>5, <1>6, <1>7, <1>8, <1>9 DEF BootInv

LEMMA BootWriteData ==
    ASSUME Types, BootInv, kb_wrport, OnlyRefuses, ~kb.ready, cpu.kind = "data" PROVE BootInv'
  <1>0. /\ cpu.pc = "wr" /\ dev.q = << >> /\ user.held = {} /\ DevTypes(dev) /\ cpu.byte \in Byte
    BY DEF kb_wrport, BootInv, Types, CpuTypes
  <1>1. /\ None /\ cpu.then \in WriteLabels
        /\ cpu.then = "typ2" => cpu.byte = 34 /\ ~Chooses
        /\ cpu.then = "set2" => cpu.byte = 0 /\ Chooses
        /\ cpu.then = "set8" => cpu.byte = 0 /\ (Chooses \/ Refused)
        /\ cpu.then \in {"chosen", "set6"} => cpu.byte = 1 /\ (Chooses \/ Refused)
        /\ cpu.then = "failed" => cpu.byte = 2 /\ (Chooses \/ RefusedTwice)
        /\ cpu.then = "register" => cpu.byte \in 0 .. 7 /\ ~Chooses
    BY <1>0 DEF BootInv, DataOut
  <1>2. cpu.byte < 237
    BY <1>1 DEF WriteLabels
  <1>3. /\ UNCHANGED <<kb, user>> /\ ps2'.translate = ps2.translate /\ ~ps2'.full
        /\ cpu'.pc = "rd" /\ cpu'.kind = cpu.kind /\ cpu'.byte = cpu.byte
        /\ cpu'.left = cpu.left /\ cpu'.then = cpu.then /\ cpu'.ret = cpu.ret /\ cpu'.old = cpu.old
        /\ dev' = Takes(dev, cpu.byte) /\ UNCHANGED faults
    BY <1>1, Writes
  <1>4. Heading' = Heading /\ Heading = cpu.then
    BY <1>0, <1>3 DEF Heading
  <1>5. /\ dev'.q = << >> /\ dev'.model = dev.model /\ dev'.await = 0
        /\ dev'.set = (IF Chooses /\ cpu.byte # 0 THEN cpu.byte ELSE dev.set)
        /\ dev'.rep = (IF Chooses /\ cpu.byte = 0 /\ dev.model # "noread"
                       THEN <<ACK, dev.set>> ELSE <<ACK>>)
    <2>1. PICK e, b : e = dev' /\ b = cpu.byte
      OBVIOUS
    <2>a. DevTypes(dev) /\ b \in Byte /\ e = Takes(dev, b) /\ b < 237 /\ b # 245
      BY <1>0, <1>2, <1>3, <2>1
    <2>t. Taken(e, dev, b)
      BY <2>a, TakesIs
    <2>b. e.q = << >> /\ e.model = dev.model /\ e.await = 0
      BY <1>0, <2>a, <2>t DEF Taken
    <2>c. e.set = IF dev.await = 240 /\ b # 0 THEN b ELSE dev.set
      BY <2>a, <2>t DEF Taken
    <2>d. e.rep = IF dev.await = 240 /\ b = 0 /\ dev.model # "noread"
                  THEN dev.rep \o <<ACK, dev.set>> ELSE dev.rep \o <<ACK>>
      BY <2>a, <2>t DEF Taken
    <2>3. /\ dev.rep \o <<ACK>> = <<ACK>> /\ dev.rep \o <<ACK, dev.set>> = <<ACK, dev.set>>
      BY <1>1 DEF None
    <2>4. Chooses <=> dev.await = 240
      BY Numbers DEF Chooses
    <2> QED
      BY <2>1, <2>b, <2>c, <2>d, <2>3, <2>4, ZenonT(60)
  <1>6. /\ (Refused <=> Refused') /\ (RefusedTwice <=> RefusedTwice') /\ ~Chooses' /\ CMD.SCANCODE = 240
    BY <1>3, <1>5, Numbers DEF Refused, RefusedTwice, Chooses
  <1>7. SetAt(cpu.then)
    BY <1>4 DEF BootInv
  <1>8. Command' /\ DataOut' /\ Between'
    BY <1>0, <1>3 DEF Command, DataOut, Between
  <1>9. /\ dev'.rep = <<ACK>> => One(ACK)'
        /\ dev'.rep = <<ACK, dev'.set>> => Two(ACK, dev.set)'
    BY <1>3 DEF One, Two, ACK
  <1>10. DataIn'
    <2>1. CASE cpu.then \in {"typ2", "chosen", "set6", "failed", "register"}
      BY <1>1, <1>3, <1>5, <1>6, <1>9, <2>1 DEF DataIn, WriteLabels
    <2>2. CASE cpu.then = "set2"
      <3>1. dev.set = 2 /\ dev.model \in {"full", "noread"}
        BY <1>7, <2>2 DEF SetAt
      <3> QED
        BY <1>1, <1>3, <1>5, <1>6, <1>9, <2>2, <3>1 DEF DataIn, WriteLabels
    <2>3. CASE cpu.then = "set8"
      <3>1. dev.model = "full"
        BY <1>7, <2>3 DEF SetAt
      <3>3. dev'.set = dev.set
        BY <1>1, <1>5, <2>3
      <3>2. Two(ACK, dev.set)' \/ (One(ACK)' /\ Refused)
        BY <1>1, <1>5, <1>9, <2>3, <3>1, <3>3
      <3> QED
        BY <1>3, <1>6, <2>3, <3>2, <3>3 DEF DataIn, WriteLabels
    <2> QED
      BY <1>1, <2>1, <2>2, <2>3 DEF WriteLabels
  <1>11. SetAt(Heading)'
    BY <1>0, <1>1, <1>3, <1>4, <1>5, <1>6, <1>7 DEF SetAt, WriteLabels
  <1>12. cpu.then = "register" => Right' \/ RefusedTwice'
    BY <1>1, <1>3, <1>4, <1>5, <1>6 DEF BootInv, Right
  <1> QED
    BY <1>0, <1>1, <1>3, <1>4, <1>5, <1>8, <1>10, <1>11, <1>12 DEF BootInv, WriteLabels

LEMMA BootReadCommand ==
    ASSUME Types, BootInv, kb_rdport, OnlyRefuses, ~kb.ready, cpu.kind = "cmd" PROVE BootInv'
  <1>0. /\ cpu.pc = "rd" /\ dev.q = << >> /\ user.held = {} /\ CpuTypes(cpu)
        /\ faults \in Nat /\ RETRY_COUNT \in Nat /\ cpu.left \in Nat
    BY KeyboardAssumption DEF kb_rdport, BootInv, Types, CpuTypes
  <1>1. /\ cpu.then \in CommandLabels /\ cpu.byte = CommandFor(cpu.then) /\ cpu.left \in 1 .. RETRY_COUNT
        /\ \/ Accepted(cpu.byte)
           \/ One(RESEND) /\ ~Chooses /\ faults > Before(cpu.then) + RETRY_COUNT - cpu.left
    BY <1>0 DEF BootInv, Command
  <1>2. PICK r \in Byte :
             /\ cpu' = Answered(cpu, r)
             /\ UNCHANGED <<kb, dev, user, faults>> /\ ps2'.translate = ps2.translate
             /\ None => r = 0 /\ None'
             /\ \A a : One(a) => r = a /\ None'
             /\ \A a, b : Two(a, b) => r = a /\ One(b)'
             /\ \A a, b, c : Three(a, b, c) => r = a /\ Two(b, c)'
    BY <1>0, Pops
  <1>a. AnsweredAs(cpu', cpu, r)
    BY <1>0, <1>2, AnsweredIs
  <1>3. /\ cpu'.kind = "cmd" /\ cpu'.byte = cpu.byte /\ cpu'.then = cpu.then /\ cpu'.ret = cpu.ret
        /\ cpu'.old = cpu.old
    BY <1>a DEF AnsweredAs
  <1>4. /\ r = ACK => cpu'.pc = cpu.then /\ cpu'.ok = TRUE
        /\ r # ACK /\ r # 0 /\ cpu.left > 1 => cpu'.pc = "wr" /\ cpu'.left = cpu.left - 1
        /\ r # ACK /\ (r = 0 \/ cpu.left <= 1) => cpu'.pc = cpu.then /\ cpu'.ok = FALSE
    BY <1>a DEF AnsweredAs
  <1>5. /\ cpu.then \notin {"wr", "rd", "set6", "chosen", "failed", "ident2", "set2", "set8", "set3", "set9"}
        /\ cpu'.pc \in {"wr", cpu.then}
    BY <1>1, <1>4 DEF CommandLabels
  <1>6. Heading' = cpu.then /\ Heading = cpu.then
    BY <1>0, <1>3, <1>5 DEF Heading
  <1>7. /\ (Chooses <=> Chooses') /\ (Refused <=> Refused') /\ (RefusedTwice <=> RefusedTwice')
        /\ (Right => Right')
    BY <1>2 DEF Chooses, Refused, RefusedTwice, Right
  <1>8. SetAt(cpu.then)
    BY <1>6 DEF BootInv
  <1>9. SetAt(Heading)'
    BY <1>2, <1>3, <1>5, <1>6, <1>7, <1>8 DEF SetAt
  <1>10. DataOut' /\ DataIn'
    BY <1>3 DEF DataOut, DataIn
  <1>11. Command' /\ Between'
    <2>1. CASE cpu.byte = 240 /\ dev.model = "fixed" /\ None /\ ~Chooses
      <3>1. cpu'.pc = cpu.then /\ cpu'.ok = FALSE /\ None'
        BY <1>2, <1>4, <2>1, Numbers
      <3>2. cpu.then = "set1"
        BY <1>1, <1>8, <2>1 DEF CommandFor, CommandLabels, SetAt
      <3> QED
        BY <1>7, <2>1, <3>1, <3>2 DEF Command, Between
    <2>2. CASE cpu.byte = 240 /\ dev.model # "fixed" /\ One(ACK) /\ Chooses
      <3>1. cpu'.pc = cpu.then /\ cpu'.ok = TRUE /\ None'
        BY <1>2, <1>4, <2>2
      <3>2. cpu.then \in {"set1", "set4", "set5", "set7", "set10"}
        BY <1>1, <2>2 DEF CommandFor, CommandLabels
      <3> QED
        BY <1>2, <1>7, <2>2, <3>1, <3>2 DEF Command, Between
    <2>3. CASE cpu.byte = 242 /\ Three(ACK, 171, 131) /\ ~Chooses
      <3>1. cpu'.pc = cpu.then /\ cpu'.ok = TRUE /\ Two(171, 131)'
        BY <1>2, <1>4, <2>3
      <3>2. cpu.then = "ident"
        BY <1>1, <2>3 DEF CommandFor, CommandLabels
      <3> QED
        BY <1>7, <2>3, <3>1, <3>2 DEF Command, Between
    <2>4. CASE cpu.byte \notin {240, 242} /\ One(ACK) /\ ~Chooses
      <3>1. cpu'.pc = cpu.then /\ cpu'.ok = TRUE /\ None'
        BY <1>2, <1>4, <2>4
      <3>2. cpu.then \in {"off", "typ", "flush", "leds"}
        BY <1>1, <2>4 DEF CommandFor, CommandLabels
      <3> QED
        BY <1>7, <2>4, <3>1, <3>2 DEF Command, Between
    <2>5. CASE One(RESEND) /\ ~Chooses /\ faults > Before(cpu.then) + RETRY_COUNT - cpu.left
      <3>1. r = 254 /\ ACK = 250 /\ None'
        BY <1>2, <2>5, Numbers
      <3>2. CASE cpu.left > 1
        <4>1. cpu'.pc = "wr" /\ cpu'.left = cpu.left - 1
          BY <1>4, <3>1, <3>2
        <4>2. cpu'.left \in 1 .. RETRY_COUNT
          BY <1>0, <1>1, <3>2, <4>1
        <4>3. faults' >= Before(cpu.then) + RETRY_COUNT - cpu'.left
          BY <1>0, <1>2, <2>5, <4>1 DEF Before
        <4> QED
          BY <1>1, <1>3, <1>7, <2>5, <3>1, <4>1, <4>2, <4>3 DEF Command, Between
      <3>3. CASE cpu.left <= 1
        <4>1. cpu'.pc = cpu.then /\ cpu'.ok = FALSE
          BY <1>4, <3>1, <3>3
        <4>2. faults >= Before(cpu.then) + RETRY_COUNT
          BY <1>0, <1>1, <2>5, <3>3 DEF Before
        <4>3. Refused /\ (cpu.then = "set10" => RefusedTwice)
          BY <1>0, <4>2 DEF Before, Refused, RefusedTwice
        <4> QED
          BY <1>5, <1>7, <2>5, <3>1, <4>1, <4>3 DEF Command, Between
      <3> QED
        BY <1>0, <3>2, <3>3
    <2> QED
      BY <1>1, <2>1, <2>2, <2>3, <2>4, <2>5 DEF Accepted
  <1> QED
    BY <1>0, <1>2, <1>3, <1>6, <1>7, <1>9, <1>10, <1>11 DEF BootInv

LEMMA BootReadData ==
    ASSUME Types, BootInv, kb_rdport, OnlyRefuses, ~kb.ready, cpu.kind = "data" PROVE BootInv'
  <1>0. /\ cpu.pc = "rd" /\ dev.q = << >> /\ user.held = {} /\ CpuTypes(cpu)
    BY DEF kb_rdport, BootInv, Types
  <1>1. /\ ~Chooses /\ cpu.then \in WriteLabels \cup ReadLabels
        /\ cpu.then \in {"typ2", "chosen", "set6", "failed", "register"} => One(ACK)
        /\ cpu.then = "ident2" => Two(171, 131)
        /\ cpu.then = "ident3" => One(131)
        /\ cpu.then = "set2" => IF dev.model = "full" THEN Two(ACK, 2) ELSE One(ACK)
        /\ cpu.then = "set3" => IF dev.model = "full" THEN One(2) ELSE None
        /\ cpu.then = "set8" => Two(ACK, dev.set) \/ (One(ACK) /\ Refused)
        /\ cpu.then = "set9" => One(dev.set) \/ (None /\ Refused)
    BY <1>0 DEF BootInv, DataIn
  <1>2. PICK r \in Byte :
             /\ cpu' = Answered(cpu, r)
             /\ UNCHANGED <<kb, dev, user, faults>> /\ ps2'.translate = ps2.translate
             /\ None => r = 0 /\ None'
             /\ \A a : One(a) => r = a /\ None'
             /\ \A a, b : Two(a, b) => r = a /\ One(b)'
             /\ \A a, b, c : Three(a, b, c) => r = a /\ Two(b, c)'
    BY <1>0, Pops
  <1>a. AnsweredAs(cpu', cpu, r)
    BY <1>0, <1>2, AnsweredIs
  <1>3. /\ cpu'.kind = "data" /\ cpu'.then = cpu.then /\ cpu'.ret = cpu.ret /\ cpu'.old = cpu.old
        /\ cpu'.pc = cpu.then /\ cpu'.resp = r
    BY <1>a DEF AnsweredAs
  <1>4. cpu.then \notin {"wr", "rd", "set1", "set4", "set5", "set7", "set10", "ident"}
    BY <1>1 DEF WriteLabels, ReadLabels
  <1>5. Heading' = cpu.then /\ Heading = cpu.then
    BY <1>0, <1>3, <1>4 DEF Heading
  <1>6. /\ ~Chooses' /\ (Refused <=> Refused') /\ (RefusedTwice <=> RefusedTwice') /\ (Right => Right')
    BY <1>1, <1>2 DEF Chooses, Refused, RefusedTwice, Right
  <1>7. Command' /\ DataOut' /\ DataIn'
    BY <1>3, <1>4 DEF Command, DataOut, DataIn
  <1>8. SetAt(cpu.then)
    BY <1>5 DEF BootInv
  <1>9. SetAt(Heading)'
    BY <1>0, <1>2, <1>3, <1>4, <1>5, <1>6, <1>8 DEF SetAt
  <1>10. Between'
    <2>1. CASE cpu.then \in {"typ2", "chosen", "set6", "failed", "register", "ident3"}
      <3>1. None'
        BY <1>1, <1>2, <2>1
      <3> QED
        BY <1>3, <1>6, <2>1, <3>1 DEF Between
    <2>2. CASE cpu.then = "ident2"
      <3>1. One(131)'
        BY <1>1, <1>2, <2>2
      <3> QED
        BY <1>3, <1>6, <2>2, <3>1 DEF Between
    <2>3. CASE cpu.then = "set2"
      <3>1. IF dev.model = "full" THEN One(2)' ELSE None'
        BY <1>1, <1>2, <2>3
      <3> QED
        BY <1>2, <1>3, <1>6, <2>3, <3>1 DEF Between
    <2>4. CASE cpu.then = "set3"
      <3>1. None' /\ r = IF dev.model = "full" THEN 2 ELSE 0
        BY <1>1, <1>2, <2>4
      <3> QED
        BY <1>2, <1>3, <1>6, <2>4, <3>1 DEF Between
    <2>5. CASE cpu.then = "set8"
      <3>0. PICK s : s = dev.set
        OBVIOUS
      <3>1. One(s)' \/ (None' /\ Refused)
        BY <1>1, <1>2, <2>5, <3>0
      <3>2. s = dev'.set
        BY <1>2, <3>0
      <3>3. One(dev.set)' \/ (None' /\ Refused')
        BY <1>6, <3>1, <3>2 DEF One
      <3> QED
        BY <1>3, <1>6, <2>5, <3>3 DEF Between
    <2>6. CASE cpu.then = "set9"
      <3>1. None' /\ (r = dev.set \/ (r = 0 /\ Refused))
        BY <1>1, <1>2, <2>6
      <3> QED
        BY <1>2, <1>3, <1>6, <2>6, <3>1 DEF Between
    <2> QED
      BY <1>1, <2>1, <2>2, <2>3, <2>4, <2>5, <2>6 DEF WriteLabels, ReadLabels
  <1>11. cpu.then \in BootLabels /\ cpu.then # "leds"
    BY <1>1 DEF BootLabels, WriteLabels, ReadLabels
  <1> QED
    BY <1>0, <1>2, <1>3, <1>5, <1>6, <1>7, <1>9, <1>10, <1>11 DEF BootInv

LEMMA CommandSent ==
    ASSUME NEW l \in CommandLabels, RETRY_COUNT \in Nat \ {0}, faults \in Nat,
           cpu'.pc = "wr", cpu'.kind = "cmd", cpu'.byte = CommandFor(l), cpu'.left = RETRY_COUNT,
           cpu'.then = l, None', ~Chooses', l = "set10" => Refused, UNCHANGED faults
    PROVE  Command' /\ DataOut' /\ DataIn' /\ Between' /\ Heading' = l
  <1>1. cpu'.left \in 1 .. RETRY_COUNT /\ faults' >= Before(l) + RETRY_COUNT - cpu'.left
    BY DEF Before, Refused
  <1>2. Command'
    BY <1>1 DEF Command
  <1>3. DataOut' /\ DataIn' /\ Between' /\ Heading' = l
    BY DEF DataOut, DataIn, Between, Heading
  <1> QED
    BY <1>2, <1>3

LEMMA BootConfigure ==
    ASSUME Types, BootInv, ConfigureKeyboard, ~kb.ready PROVE BootInv'
  <1>0. /\ dev.q = << >> /\ user.held = {} /\ CpuTypes(cpu) /\ cpu.resp \in Byte /\ cpu.old \in Byte
        /\ RETRY_COUNT \in Nat \ {0} /\ faults \in Nat
        /\ UNCHANGED <<kb, ps2, dev, user, faults>>
        /\ 243 \in Byte /\ 240 \in Byte /\ 34 \in Byte /\ 0 \in Byte /\ 1 \in Byte
    BY KeyboardAssumption DEF ConfigureKeyboard, BootInv, Types, CpuTypes, Byte
  <1>1. /\ (None <=> None') /\ (Chooses <=> Chooses') /\ (Refused <=> Refused')
        /\ (Right <=> Right') /\ (RefusedTwice <=> RefusedTwice')
        /\ \A a : One(a) <=> One(a)'
        /\ \A a, b : Two(a, b) <=> Two(a, b)'
    BY <1>0 DEF None, One, Two, Chooses, Refused, RefusedTwice, Right
  <1>2. cpu.pc \in {"ident", "ident2", "ident3", "typ", "typ2", "set1", "set2", "set3", "set4",
                    "set5", "set6", "set7", "set8", "set9", "set10"}
    BY ConfigureIs
  <1>3. Between /\ SetAt(cpu.pc) /\ Heading = cpu.pc
    BY <1>2 DEF BootInv, Heading
  <1>4. ASSUME NEW l \in CommandLabels \ {"flush", "leds", "off", "ident"}, NEW c,
               CpuTypes(c), c.old \in {cpu.old, cpu.resp}, cpu' = Send(c, CommandFor(l), l),
               l \in {"set5", "set7", "set10"} => c.old = 2,
               None, ~Chooses, l = "set10" => Refused, SetAt(l) \/ l = "set5",
               l = "set5" => dev.set = 2 /\ dev.model = "full"
        PROVE  BootInv'
    <2>1. CommandFor(l) \in Byte
      BY DEF CommandFor, Byte
    <2>2. /\ cpu'.pc = "wr" /\ cpu'.kind = "cmd" /\ cpu'.byte = CommandFor(l)
          /\ cpu'.left = RETRY_COUNT /\ cpu'.then = l /\ cpu'.old = c.old
      BY <1>4, <2>1, SendIs
    <2>3. Command' /\ DataOut' /\ DataIn' /\ Between' /\ Heading' = l
      BY <1>0, <1>1, <1>4, <2>2, CommandSent
    <2>4. SetAt(Heading)'
      BY <1>0, <1>1, <1>4, <2>2, <2>3 DEF SetAt, CommandLabels
    <2>5. l \in BootLabels /\ l \notin {"flush", "leds", "register"}
      BY <1>4 DEF BootLabels, CommandLabels
    <2> QED
      BY <1>0, <2>3, <2>4, <2>5 DEF BootInv
  <1>5. ASSUME NEW l \in WriteLabels, NEW b \in Byte, cpu' = Write(cpu, b, l), None,
               l = "typ2" => b = 34 /\ ~Chooses,
               l = "set2" => b = 0 /\ Chooses,
               l = "set8" => b = 0 /\ (Chooses \/ Refused),
               l \in {"chosen", "set6"} => b = 1 /\ (Chooses \/ Refused),
               l = "failed" => b = 2 /\ (Chooses \/ RefusedTwice), l # "register",
               l \in {"typ2", "set2", "chosen", "set6"} => dev.set = 2,
               l = "set2" => dev.model \in {"full", "noread"},
               l = "chosen" => dev.model = "noread",
               l \in {"set6", "set8"} => dev.model = "full" /\ cpu.old = 2,
               l = "set8" => dev.set = 1 \/ (dev.set = 2 /\ Refused)
        PROVE  BootInv'
    <2>1. /\ cpu'.pc = "wr" /\ cpu'.kind = "data" /\ cpu'.byte = b /\ cpu'.then = l /\ cpu'.old = cpu.old
      BY <1>0, <1>5, WriteIs
    <2>2. Heading' = l
      BY <2>1 DEF Heading
    <2>3. Command' /\ DataIn' /\ Between'
      BY <2>1 DEF Command, DataIn, Between
    <2>4. DataOut'
      BY <1>1, <1>5, <2>1 DEF DataOut
    <2>5. SetAt(Heading)'
      BY <1>0, <1>1, <1>5, <2>1, <2>2 DEF SetAt, WriteLabels
    <2>6. l \in BootLabels /\ l \notin {"flush", "leds", "register"}
      BY <1>5 DEF BootLabels, WriteLabels
    <2> QED
      BY <1>0, <2>2, <2>3, <2>4, <2>5, <2>6 DEF BootInv
  <1>6. ASSUME NEW l \in ReadLabels, cpu' = Read(cpu, l), ~Chooses,
               l = "ident2" => Two(171, 131), l = "ident3" => One(131),
               l = "set3" => IF dev.model = "full" THEN One(2) ELSE None,
               l = "set9" => One(dev.set) \/ (None /\ Refused),
               SetAt(cpu.pc),
               l = "ident2" => cpu.pc = "ident", l = "ident3" => cpu.pc = "ident2",
               l = "set3" => cpu.pc = "set2", l = "set9" => cpu.pc = "set8"
        PROVE  BootInv'
    <2>1. /\ cpu'.pc = "rd" /\ cpu'.kind = "data" /\ cpu'.then = l /\ cpu'.old = cpu.old
      BY <1>0, <1>6, ReadIs
    <2>2. Heading' = l
      BY <2>1 DEF Heading
    <2>3. Command' /\ DataOut' /\ Between'
      BY <2>1 DEF Command, DataOut, Between
    <2>4. l = "set9" => One(dev.set)' \/ (None' /\ Refused')
      <3>0. PICK s : s = dev.set
        OBVIOUS
      <3>1. l = "set9" => One(s)' \/ (None' /\ Refused')
        BY <1>1, <1>6, <3>0
      <3>2. s = dev'.set
        BY <1>0, <3>0
      <3> QED
        BY <3>1, <3>2 DEF One
    <2>5. DataIn'
      BY <1>0, <1>1, <1>6, <2>1, <2>4 DEF DataIn, ReadLabels
    <2>6. SetAt(Heading)'
      BY <1>0, <1>1, <1>6, <2>1, <2>2 DEF SetAt, ReadLabels
    <2>7. l \in BootLabels /\ l \notin {"flush", "leds", "register"}
      BY <1>6 DEF BootLabels, ReadLabels
    <2> QED
      BY <1>0, <2>2, <2>3, <2>5, <2>6, <2>7 DEF BootInv
  <1>7. ASSUME NEW l \in {"chosen", "failed"}, cpu' = Goto(cpu, l), None, ~Chooses,
               l = "chosen" => dev.set = 1, l = "failed" => dev.set = 2
        PROVE  BootInv'
    <2>1. /\ cpu'.pc = l /\ cpu'.old = cpu.old
      BY <1>0, <1>7, GotoIs
    <2>2. Heading' = l
      BY <2>1 DEF Heading
    <2>3. Command' /\ DataOut' /\ DataIn' /\ Between'
      BY <1>1, <1>7, <2>1 DEF Command, DataOut, DataIn, Between
    <2>4. SetAt(Heading)'
      BY <1>0, <1>1, <1>7, <2>1, <2>2 DEF SetAt
    <2> QED
      BY <1>0, <1>7, <2>2, <2>3, <2>4 DEF BootInv, BootLabels, WriteLabels
  <1>8. /\ CommandFor("typ") = 243 /\ CommandFor("set1") = 240 /\ CommandFor("set4") = 240
        /\ CommandFor("set5") = 240 /\ CommandFor("set7") = 240 /\ CommandFor("set10") = 240
        /\ \A l \in {"typ", "set1", "set4", "set5", "set7", "set10"} :
             l \in CommandLabels \ {"flush", "leds", "off", "ident"}
    BY DEF CommandFor, CommandLabels
  <1>9. dev.set = 2 => SetAt("typ") /\ SetAt("set1")
    BY DEF SetAt
  <1>10. CASE cpu.pc = "ident"
    <2>1. dev.set = 2 /\ ~Chooses /\ IF cpu.ok THEN Two(171, 131) ELSE None
      BY <1>3, <1>10 DEF SetAt, Between
    <2>2. CASE cpu.ok
      <3>1. cpu' = Read(cpu, "ident2")
        BY <1>10, <2>2, ConfigureIs
      <3>2. "ident2" \in ReadLabels
        BY DEF ReadLabels
      <3> QED
        BY <1>3, <1>6, <1>10, <2>1, <2>2, <3>1, <3>2
    <2>3. CASE ~cpu.ok
      <3>1. cpu' = Send(cpu, 243, "typ")
        BY <1>10, <2>3, ConfigureIs
      <3> QED
        BY <1>0, <1>4, <1>8, <1>9, <2>1, <2>3, <3>1
    <2> QED
      BY <2>2, <2>3
  <1>11. CASE cpu.pc = "ident2"
    <2>1. ~Chooses /\ One(131)
      BY <1>3, <1>11 DEF Between
    <2>2. cpu' = Read(cpu, "ident3") /\ "ident3" \in ReadLabels
      BY <1>11, ConfigureIs DEF ReadLabels
    <2> QED
      BY <1>3, <1>6, <1>11, <2>1, <2>2
  <1>12. CASE cpu.pc = "ident3"
    <2>1. dev.set = 2 /\ ~Chooses /\ None
      BY <1>3, <1>12 DEF SetAt, Between
    <2>2. cpu' = Send(cpu, 243, "typ")
      BY <1>12, ConfigureIs
    <2> QED
      BY <1>0, <1>4, <1>8, <1>9, <2>1, <2>2
  <1>13. CASE cpu.pc = "typ"
    <2>1. dev.set = 2 /\ ~Chooses /\ None
      BY <1>3, <1>13 DEF SetAt, Between
    <2>2. CASE cpu.ok
      <3>1. cpu' = Write(cpu, 34, "typ2") /\ "typ2" \in WriteLabels
        BY <1>13, <2>2, ConfigureIs DEF WriteLabels
      <3> QED
        BY <1>0, <1>5, <2>1, <3>1
    <2>3. CASE ~cpu.ok
      <3>1. cpu' = Send(cpu, 240, "set1")
        BY <1>13, <2>3, ConfigureIs
      <3> QED
        BY <1>0, <1>4, <1>8, <1>9, <2>1, <3>1
    <2> QED
      BY <2>2, <2>3
  <1>14. CASE cpu.pc = "typ2"
    <2>1. dev.set = 2 /\ ~Chooses /\ None
      BY <1>3, <1>14 DEF SetAt, Between
    <2>2. cpu' = Send(cpu, 240, "set1")
      BY <1>14, ConfigureIs
    <2> QED
      BY <1>0, <1>4, <1>8, <1>9, <2>1, <2>2
  <1>15. CASE cpu.pc = "set1"
    <2>1. /\ dev.set = 2 /\ None /\ (cpu.ok <=> Chooses) /\ (cpu.ok => dev.model # "fixed")
          /\ dev.model \in {"full", "noread", "fixed"}
      BY <1>3, <1>15 DEF SetAt, Between, Types, DevTypes
    <2>2. CASE cpu.ok
      <3>1. cpu' = Write(cpu, 0, "set2") /\ "set2" \in WriteLabels
        BY <1>15, <2>2, ConfigureIs DEF WriteLabels
      <3> QED
        BY <1>0, <1>5, <2>1, <2>2, <3>1
    <2>3. CASE ~cpu.ok
      <3>1. cpu' = Goto(cpu, "failed")
        BY <1>15, <2>3, ConfigureIs
      <3> QED
        BY <1>7, <2>1, <2>3, <3>1
    <2> QED
      BY <2>2, <2>3
  <1>16. CASE cpu.pc = "set2"
    <2>1. ~Chooses /\ IF dev.model = "full" THEN One(2) ELSE None
      BY <1>3, <1>16 DEF Between
    <2>2. cpu' = Read(cpu, "set3") /\ "set3" \in ReadLabels
      BY <1>16, ConfigureIs DEF ReadLabels
    <2> QED
      BY <1>3, <1>6, <1>16, <2>1, <2>2
  <1>17. CASE cpu.pc = "set3"
    <2>1. /\ ~Chooses /\ None /\ dev.set = 2 /\ dev.model \in {"full", "noread"}
          /\ cpu.resp = IF dev.model = "full" THEN 2 ELSE 0
      BY <1>3, <1>17 DEF Between, SetAt
    <2>2. CASE cpu.resp = 0
      <3>1. cpu' = Send(cpu, 240, "set4")
        BY <1>17, <2>2, ConfigureIs
      <3>2. SetAt("set4")
        BY <2>1, <2>2 DEF SetAt
      <3> QED
        BY <1>0, <1>4, <1>8, <2>1, <3>1, <3>2
    <2>3. CASE cpu.resp # 0
      <3>1. PICK c : c = [cpu EXCEPT !.old = cpu.resp]
        OBVIOUS
      <3>2. CpuTypes(c) /\ c.old = cpu.resp
        BY <1>0, <3>1 DEF CpuTypes, CpuFields
      <3>3. cpu' = Send(c, 240, "set5")
        BY <1>17, <2>3, <3>1, ConfigureIs
      <3>4. c.old = 2 /\ dev.model = "full"
        BY <2>1, <2>3, <3>2
      <3> QED
        BY <1>0, <1>4, <1>8, <2>1, <3>2, <3>3, <3>4
    <2> QED
      BY <2>2, <2>3
  <1>18. CASE cpu.pc = "set4"
    <2>1. (Chooses \/ Refused) /\ None /\ dev.set = 2 /\ dev.model = "noread"
      BY <1>3, <1>18 DEF Between, SetAt
    <2>2. cpu' = Write(cpu, 1, "chosen") /\ "chosen" \in WriteLabels
      BY <1>18, ConfigureIs DEF WriteLabels
    <2> QED
      BY <1>0, <1>5, <2>1, <2>2
  <1>19. CASE cpu.pc = "set5"
    <2>1. (Chooses \/ Refused) /\ None /\ dev.set = 2 /\ dev.model = "full" /\ cpu.old = 2
      BY <1>3, <1>19 DEF Between, SetAt
    <2>2. cpu' = Write(cpu, 1, "set6") /\ "set6" \in WriteLabels
      BY <1>19, ConfigureIs DEF WriteLabels
    <2> QED
      BY <1>0, <1>5, <2>1, <2>2
  <1>20. CASE cpu.pc = "set6"
    <2>1. /\ ~Chooses /\ None /\ dev.model = "full" /\ cpu.old = 2
          /\ dev.set = 1 \/ (dev.set = 2 /\ Refused)
      BY <1>3, <1>20 DEF Between, SetAt
    <2>2. cpu' = Send(cpu, 240, "set7")
      BY <1>20, ConfigureIs
    <2>3. SetAt("set7")
      BY <2>1 DEF SetAt
    <2> QED
      BY <1>0, <1>4, <1>8, <2>1, <2>2, <2>3
  <1>21. CASE cpu.pc = "set7"
    <2>1. /\ (Chooses \/ Refused) /\ None /\ dev.model = "full" /\ cpu.old = 2
          /\ dev.set = 1 \/ (dev.set = 2 /\ Refused)
      BY <1>3, <1>21 DEF Between, SetAt
    <2>2. cpu' = Write(cpu, 0, "set8") /\ "set8" \in WriteLabels
      BY <1>21, ConfigureIs DEF WriteLabels
    <2> QED
      BY <1>0, <1>5, <2>1, <2>2
  <1>22. CASE cpu.pc = "set8"
    <2>1. ~Chooses /\ (One(dev.set) \/ (None /\ Refused))
      BY <1>3, <1>22 DEF Between
    <2>2. cpu' = Read(cpu, "set9") /\ "set9" \in ReadLabels
      BY <1>22, ConfigureIs DEF ReadLabels
    <2> QED
      BY <1>3, <1>6, <1>22, <2>1, <2>2
  <1>23. CASE cpu.pc = "set9"
    <2>1. /\ ~Chooses /\ None /\ dev.model = "full" /\ cpu.old = 2
          /\ dev.set = 1 \/ (dev.set = 2 /\ Refused)
          /\ cpu.resp = dev.set \/ (cpu.resp = 0 /\ Refused)
      BY <1>3, <1>23 DEF Between, SetAt
    <2>2. CASE cpu.resp = 1
      <3>1. cpu' = Goto(cpu, "chosen")
        BY <1>23, <2>2, ConfigureIs
      <3> QED
        BY <1>7, <2>1, <2>2, <3>1
    <2>3. CASE cpu.resp # 1
      <3>1. cpu' = Send(cpu, 240, "set10")
        BY <1>23, <2>3, ConfigureIs
      <3>2. SetAt("set10") /\ Refused
        BY <2>1, <2>3 DEF SetAt
      <3> QED
        BY <1>0, <1>4, <1>8, <2>1, <3>1, <3>2
    <2> QED
      BY <2>2, <2>3
  <1>24. CASE cpu.pc = "set10"
    <2>1. (Chooses \/ RefusedTwice) /\ None /\ cpu.old = 2
      BY <1>0, <1>3, <1>24 DEF Between, SetAt
    <2>2. cpu' = Write(cpu, cpu.old, "failed") /\ "failed" \in WriteLabels
      BY <1>24, ConfigureIs DEF WriteLabels
    <2> QED
      BY <1>0, <1>5, <2>1, <2>2
  <1> QED
    BY <1>2, <1>10, <1>11, <1>12, <1>13, <1>14, <1>15, <1>16, <1>17, <1>18, <1>19, <1>20, <1>21,
       <1>22, <1>23, <1>24

LEMMA BootStart ==
    ASSUME Types, BootInv, ~kb.ready, init_ps2 \/ RewriteConfig \/ EnableKeyboard PROVE BootInv'
  <1>0. /\ dev.q = << >> /\ user.held = {} /\ CpuTypes(cpu) /\ DOMAIN ps2 = Ps2Fields
        /\ RETRY_COUNT \in Nat \ {0} /\ faults \in Nat
        /\ 245 \in Byte /\ 242 \in Byte /\ 244 \in Byte
        /\ CommandFor("off") = 245 /\ CommandFor("ident") = 242 /\ CommandFor("flush") = 244
        /\ {"off", "ident", "flush"} \subseteq CommandLabels
    BY KeyboardAssumption DEF BootInv, Types, CpuTypes, Ps2Types, Byte, CommandFor, CommandLabels
  <1>1. /\ UNCHANGED <<dev, user, faults>> /\ cpu.pc \in {"boot", "off", "cfg", "chosen", "failed"}
    BY DEF init_ps2, RewriteConfig, EnableKeyboard
  <1>2. Between /\ SetAt(cpu.pc) /\ Heading = cpu.pc
    BY <1>1 DEF BootInv, Heading
  <1>3. None /\ ~Chooses /\ ~Chooses' /\ (Refused <=> Refused') /\ (RefusedTwice <=> RefusedTwice')
    BY <1>1, <1>2 DEF Between, Chooses, Refused, RefusedTwice
  <1>4. ASSUME NEW l \in {"off", "ident", "flush"}, cpu' = Send(cpu, CommandFor(l), l), None',
               l \in {"off", "ident"} => dev.set = 2, l = "flush" => Right' \/ RefusedTwice'
        PROVE  BootInv'
    <2>1. /\ cpu'.pc = "wr" /\ cpu'.kind = "cmd" /\ cpu'.byte = CommandFor(l)
          /\ cpu'.left = RETRY_COUNT /\ cpu'.then = l
      BY <1>0, <1>4, SendIs
    <2>2. Command' /\ DataOut' /\ DataIn' /\ Between' /\ Heading' = l
      BY <1>0, <1>1, <1>3, <1>4, <2>1, CommandSent
    <2>3. SetAt(Heading)'
      BY <1>1, <1>4, <2>1, <2>2 DEF SetAt
    <2>4. l \in BootLabels /\ l \notin {"leds", "register"}
      BY <1>4 DEF BootLabels, CommandLabels
    <2> QED
      BY <1>0, <1>1, <1>4, <2>2, <2>3, <2>4 DEF BootInv
  <1>5. ASSUME NEW l \in {"halt", "cfg"}, cpu' = Goto(cpu, l), None', l = "cfg" => dev.set = 2
        PROVE  BootInv'
    <2>1. cpu'.pc = l
      BY <1>0, <1>5, GotoIs
    <2>2. Heading' = l
      BY <2>1 DEF Heading
    <2>3. Command' /\ DataOut' /\ DataIn' /\ Between'
      BY <1>3, <1>5, <2>1 DEF Command, DataOut, DataIn, Between
    <2>4. SetAt(Heading)'
      BY <1>1, <1>5, <2>1, <2>2 DEF SetAt
    <2>5. l \in BootLabels /\ l \notin {"leds", "register", "flush"}
      BY <1>5 DEF BootLabels
    <2> QED
      BY <1>0, <1>1, <2>2, <2>3, <2>4, <2>5 DEF BootInv
  <1>6. CASE init_ps2
    <2>1. dev.set = 2
      BY <1>2, <1>6 DEF SetAt, init_ps2
    <2>2. CASE cpu' = Send(cpu, CMD.SCANOFF, "off") /\ ps2' = [ps2 EXCEPT !.on = FALSE, !.full = FALSE, !.int = TRUE]
      <3>1. None'
        BY <1>0, <1>1, <1>3, <2>2 DEF None, Ps2Fields
      <3> QED
        BY <1>0, <1>4, <2>1, <2>2, <3>1, Numbers
    <2>3. CASE cpu' = Goto(cpu, "halt") /\ UNCHANGED ps2
      <3>1. None'
        BY <1>1, <1>3, <2>3 DEF None
      <3> QED
        BY <1>5, <2>3, <3>1
    <2> QED
      BY <1>6, <2>2, <2>3 DEF init_ps2
  <1>7. CASE RewriteConfig
    <2>1. dev.set = 2
      BY <1>2, <1>7 DEF SetAt, RewriteConfig
    <2>2. None'
      <3>1. CASE ps2' = [ps2 EXCEPT !.full = FALSE]
        BY <1>0, <1>1, <1>3, <3>1 DEF None, Ps2Fields
      <3>2. CASE \E i : ps2' = [ps2 EXCEPT !.full = FALSE, !.translate = FALSE, !.int = i]
        <4>1. PICK i : ps2' = [ps2 EXCEPT !.full = FALSE, !.translate = FALSE, !.int = i]
          BY <3>2
        <4>2. ~ps2'.full
          BY <1>0, <4>1 DEF Ps2Fields
        <4> QED
          BY <1>1, <1>3, <4>2 DEF None
      <3> QED
        BY <1>7, <3>1, <3>2, Zenon DEF RewriteConfig
    <2>3. CASE cpu' = Goto(cpu, "cfg")
      BY <1>5, <2>1, <2>2, <2>3
    <2>4. CASE cpu' = Send(cpu, CMD.IDENT, "ident")
      BY <1>0, <1>4, <2>1, <2>2, <2>4, Numbers
    <2> QED
      BY <1>7, <2>3, <2>4 DEF RewriteConfig
  <1>8. CASE EnableKeyboard
    <2>1. /\ ~ps2'.full /\ (ps2'.translate <=> cpu.pc = "failed") /\ cpu.pc \in {"chosen", "failed"}
          /\ cpu' = Send(cpu, CMD.SCANON, "flush")
      BY <1>0, <1>3, <1>8 DEF EnableKeyboard, Ps2Fields, None
    <2>2. None'
      BY <1>1, <1>3, <2>1 DEF None
    <2>3. Right' \/ RefusedTwice'
      <3>1. CASE cpu.pc = "chosen"
        BY <1>1, <1>2, <1>3, <2>1, <3>1 DEF Right, SetAt
      <3>2. CASE cpu.pc = "failed"
        BY <1>1, <1>2, <1>3, <2>1, <3>2 DEF Right, SetAt
      <3> QED
        BY <2>1, <3>1, <3>2
    <2> QED
      BY <1>0, <1>4, <2>1, <2>2, <2>3, Numbers
  <1> QED
    BY <1>6, <1>7, <1>8

LEMMA BootFinish ==
    ASSUME Types, BootInv, ~kb.ready, kb_setleds \/ FinishInit PROVE SetInv'
  <1>0. /\ dev.q = << >> /\ user.held = {} /\ CpuTypes(cpu) /\ DOMAIN ps2 = Ps2Fields /\ DOMAIN kb = KbFields
        /\ RETRY_COUNT \in Nat \ {0} /\ faults \in Nat
        /\ CommandFor("leds") = 237 /\ "leds" \in CommandLabels /\ CMD.SETLED = 237
    BY KeyboardAssumption, Numbers
       DEF BootInv, Types, CpuTypes, Ps2Types, KbTypes, CommandFor, CommandLabels
  <1>1. /\ UNCHANGED <<dev, user, faults>> /\ cpu.pc \in {"leds", "flush", "register"}
        /\ ps2'.translate = ps2.translate /\ (~ps2.full => ~ps2'.full)
    BY <1>0 DEF kb_setleds, FinishInit, Ps2Fields
  <1>2. /\ Between /\ Heading = cpu.pc /\ (Right \/ RefusedTwice) /\ (cpu.pc = "leds" => cpu.ret = "register")
    BY <1>1 DEF BootInv, Heading
  <1>3. /\ None /\ ~Chooses /\ ~Chooses' /\ None' /\ (Right' \/ RefusedTwice')
        /\ Right \/ RefusedTwice
    BY <1>1, <1>2 DEF Between, Chooses, None, Right, Refused, RefusedTwice
  <1>4. ASSUME cpu'.pc = "register", ~kb'.ready PROVE SetInv'
    <2>1. Heading' = "register"
      BY <1>4 DEF Heading
    <2>2. Command' /\ DataOut' /\ DataIn' /\ Between' /\ SetAt(Heading)'
      BY <1>3, <1>4, <2>1 DEF Command, DataOut, DataIn, Between, SetAt
    <2> QED
      BY <1>0, <1>1, <1>3, <1>4, <2>1, <2>2 DEF SetInv, BootInv, BootLabels, WriteLabels
  <1>5. CASE kb_setleds
    <2>1. ~kb'.ready /\ cpu.ret = "register"
      BY <1>0, <1>2, <1>5 DEF kb_setleds, KbFields
    <2>2. CASE cpu' = Goto(cpu, cpu.ret)
      BY <1>0, <1>4, <2>1, <2>2, GotoIs
    <2>3. CASE cpu' = Write(cpu, LedsOf(kb), cpu.ret)
      <3>1. LedsOf(kb) \in 0 .. 7 /\ LedsOf(kb) \in Byte
        BY LedsOfRange
      <3>2. /\ cpu'.pc = "wr" /\ cpu'.kind = "data" /\ cpu'.byte = LedsOf(kb) /\ cpu'.then = "register"
        BY <1>0, <2>1, <2>3, <3>1, WriteIs
      <3>3. cpu'.byte \in 0 .. 7
        BY <3>1, <3>2
      <3>4. Heading' = "register" /\ Command' /\ DataIn' /\ Between' /\ SetAt(Heading)'
        BY <3>2 DEF Heading, Command, DataIn, Between, SetAt
      <3>5. DataOut'
        BY <1>3, <3>2, <3>3 DEF DataOut, WriteLabels
      <3> QED
        BY <1>0, <1>1, <1>3, <2>1, <3>4, <3>5 DEF SetInv, BootInv, BootLabels, WriteLabels
    <2> QED
      BY <1>5, <2>2, <2>3 DEF kb_setleds
  <1>6. CASE FinishInit /\ cpu.pc = "flush"
    <2>1. ~kb'.ready /\ cpu' = update_leds(kb, cpu, "register")
      BY <1>6 DEF FinishInit
    <2>2. CASE kb.leds = LedsOf(kb)
      <3>1. cpu'.pc = "register"
        BY <1>0, <2>1, <2>2, update_ledsIs
      <3> QED
        BY <1>4, <2>1, <3>1
    <2>3. CASE kb.leds # LedsOf(kb)
      <3>1. /\ cpu'.pc = "wr" /\ cpu'.kind = "cmd" /\ cpu'.byte = CMD.SETLED
            /\ cpu'.left = RETRY_COUNT /\ cpu'.then = "leds" /\ cpu'.ret = "register"
        BY <1>0, <2>1, <2>3, update_ledsIs
      <3>2. Command' /\ DataOut' /\ DataIn' /\ Between' /\ Heading' = "leds"
        BY <1>0, <1>1, <1>3, <3>1, CommandSent
      <3>3. SetAt(Heading)'
        BY <3>2 DEF SetAt
      <3> QED
        BY <1>0, <1>1, <1>3, <2>1, <3>1, <3>2, <3>3 DEF SetInv, BootInv, BootLabels, CommandLabels
    <2> QED
      BY <2>2, <2>3
  <1>7. CASE FinishInit /\ cpu.pc = "register"
    <2>1. kb'.ready /\ cpu' = Idle
      BY <1>0, <1>7 DEF FinishInit, KbFields
    <2>2. cpu'.pc = "idle"
      BY <2>1, IdleIs
    <2>3. RunInv'
      BY <1>3, <2>2 DEF RunInv, Heading
    <2> QED
      BY <2>1, <2>3 DEF SetInv
  <1> QED
    BY <1>5, <1>6, <1>7 DEF FinishInit

LEMMA KeyHandled ==
    ASSUME HandleKey
    PROVE  \E k, a, c, t, g :
             /\ \E m : k = [kb EXCEPT !.mods = m]
             /\ kb' = [k EXCEPT !.altchar = a, !.crashkey = c, !.term = t, !.pollchar = g]
  <1> DEFINE key == cpu.key
             k == [kb EXCEPT !.mods = handle_modifier(kb, key, cpu.rel)]
             m == Mods(k.mods)
             submit == cpu.rel /\ is_alt(key) /\ k.altchar # 0
             reset == ~cpu.rel /\ {"ctrl", "alt"} \subseteq m /\ key \in {KEY.DELETE, KEY.KPDOT}
             crash == ~cpu.rel /\ {"ctrl", "alt"} \subseteq m /\ is_fnkey(key) /\ k.crashkey = 0
             switch == ~cpu.rel /\ m \cap {"ctrl", "alt"} = {"alt"} /\ is_fnkey(key)
                       /\ fnkey_index(key) <= NR_TERMINAL
             digit == ~cpu.rel /\ "alt" \in m /\ is_numpad(key)
             chars == IF submit THEN <<k.altchar>>
                      ELSE IF cpu.rel \/ reset \/ switch \/ digit THEN << >>
                      ELSE CharsOf(k, key)
  <1>1. kb' = [k EXCEPT
                 !.altchar = IF submit THEN 0 ELSE IF digit THEN AltDigit(@, key) ELSE @,
                 !.crashkey = IF crash THEN fnkey_index(key) ELSE @,
                 !.term = IF switch THEN fnkey_index(key) ELSE @,
                 !.pollchar = IF chars = << >> THEN @ ELSE Last(chars)]
    BY DEF HandleKey
  <1>2. \E m0 : k = [kb EXCEPT !.mods = m0]
    OBVIOUS
  <1> HIDE DEF k, submit, reset, crash, switch, digit, chars
  <1>3. PICK a, c, t, g : kb' = [k EXCEPT !.altchar = a, !.crashkey = c, !.term = t, !.pollchar = g]
    BY <1>1, Zenon
  <1> WITNESS k, a, c, t, g
  <1> QED
    BY <1>2, <1>3

(* Once the driver is ready it only sends the lights. *)
LEMMA RunStep ==
    ASSUME Types, RunInv, kb.ready, [Next]_vars PROVE SetInv' /\ kb'.ready /\ (Right => Right')
  <1>0. /\ CpuTypes(cpu) /\ DevTypes(dev) /\ DOMAIN ps2 = Ps2Fields /\ DOMAIN kb = KbFields
        /\ DOMAIN dev = DevFields /\ cpu.byte \in Byte /\ ps2.data \in Byte /\ 0 \in Byte
        /\ RETRY_COUNT \in Nat /\ faults \in 0 .. MaxFaults /\ faults \in Nat /\ CMD.SCANCODE = 240
    BY KeyboardAssumption, Numbers DEF Types, CpuTypes, Ps2Types, KbTypes, DevTypes, Byte
  <1>1. /\ ~Chooses /\ Heading \in {"idle", "leds", "key", "panic", "reset", "crash"}
        /\ Heading = "leds" => cpu.ret = "key"
        /\ cpu.pc \in {"wr", "rd"} => cpu.byte = 237 \/ cpu.byte \in 0 .. 7
    BY DEF RunInv
  <1>2. cpu.pc \in {"wr", "rd", "idle", "leds", "key", "panic", "reset", "crash"}
    BY <1>1 DEF Heading
  <1>3. ASSUME kb'.ready, ps2'.translate = ps2.translate, dev'.set = dev.set, dev'.await # 240,
               dev'.model = dev.model, faults' \in {faults, faults + 1},
               Heading' \in {"idle", "leds", "key", "panic", "reset", "crash"},
               Heading' = "leds" => cpu'.ret = "key",
               cpu'.pc \in {"wr", "rd"} => cpu'.byte = 237 \/ cpu'.byte \in 0 .. 7
        PROVE  SetInv' /\ kb'.ready /\ (Right => Right')
    <2>1. (Right => Right') /\ ~Chooses'
      BY <1>0, <1>1, <1>3 DEF Right, Chooses, Refused
    <2> QED
      BY <1>3, <2>1 DEF SetInv, RunInv
  <1>4. dev.await # 240
    BY <1>0, <1>1 DEF Chooses
  <1>5. ASSUME UNCHANGED cpu
        PROVE  /\ Heading' \in {"idle", "leds", "key", "panic", "reset", "crash"}
               /\ Heading' = "leds" => cpu'.ret = "key"
               /\ cpu'.pc \in {"wr", "rd"} => cpu'.byte = 237 \/ cpu'.byte \in 0 .. 7
    BY <1>1, <1>5 DEF Heading
  <1>6. CASE UNCHANGED vars
    BY <1>3, <1>4, <1>5, <1>6 DEF vars
  <1>7. CASE Deliver
    <2>1. UNCHANGED <<kb, cpu>> /\ faults' \in {faults, faults + 1}
      BY <1>7 DEF Deliver, Fault
    <2>2. ps2'.translate = ps2.translate
      <3>1. PICK d : ps2' = [ps2 EXCEPT !.full = TRUE, !.data = d, !.irq = ps2.int]
        BY <1>7, Zenon DEF Deliver
      <3> QED
        BY <1>0, <3>1 DEF Ps2Fields
    <2>3. dev'.set = dev.set /\ dev'.await = dev.await /\ dev'.model = dev.model
      BY <1>0, <1>7 DEF Deliver, DevFields
    <2> QED
      BY <1>3, <1>4, <1>5, <2>1, <2>2, <2>3
  <1>8. ASSUME NEW k \in Keys, PressKey(k) \/ ReleaseKey(k) PROVE SetInv' /\ kb'.ready /\ (Right => Right')
    <2>1. UNCHANGED <<kb, cpu, ps2, faults>>
      BY <1>8 DEF PressKey, ReleaseKey
    <2>2. dev'.set = dev.set /\ dev'.await = dev.await /\ dev'.model = dev.model
      BY <1>0, <1>8 DEF PressKey, ReleaseKey, DevFields
    <2> QED
      BY <1>3, <1>4, <1>5, <2>1, <2>2
  <1>9. CASE kb_getc
    <2>1. UNCHANGED <<cpu, ps2, dev, faults>> /\ kb'.ready
      BY <1>0, <1>9 DEF kb_getc, KbFields
    <2> QED
      BY <1>3, <1>4, <1>5, <2>1
  <1>10. CASE kb_wrport
    <2>1. cpu' = Goto(cpu, "rd") /\ cpu.pc = "wr" /\ kb'.ready /\ faults' \in {faults, faults + 1}
      BY <1>10 DEF kb_wrport, Goto, Fault
    <2>2. cpu'.pc = "rd" /\ cpu'.then = cpu.then /\ cpu'.ret = cpu.ret /\ cpu'.byte = cpu.byte
      BY <1>0, <2>1, GotoIs
    <2>3. ps2'.translate = ps2.translate
      BY <1>0, <1>10 DEF kb_wrport, Ps2Fields
    <2>4. dev'.set = dev.set /\ dev'.await # 240 /\ dev'.model = dev.model
      <3>1. CASE dev' = Takes(dev, cpu.byte)
        <4>1. Taken(dev', dev, cpu.byte)
          BY <1>0, <3>1, TakesIs
        <4> QED
          BY <1>1, <1>4, <2>1, <4>1 DEF Taken
      <3>2. CASE UNCHANGED dev
        BY <1>4, <3>2
      <3>3. CASE dev' = [dev EXCEPT !.rep = Append(@, RESEND)]
        BY <1>0, <1>4, <3>3 DEF DevFields
      <3> QED
        BY <1>10, <3>1, <3>2, <3>3 DEF kb_wrport
    <2>5. Heading' = Heading
      BY <2>1, <2>2 DEF Heading
    <2> QED
      BY <1>1, <1>3, <2>1, <2>2, <2>3, <2>4, <2>5
  <1>11. CASE kb_rdport
    <2>1. UNCHANGED <<kb, dev>> /\ cpu.pc = "rd" /\ faults' \in {faults, faults + 1}
      BY <1>11 DEF kb_rdport, Fault
    <2>2. ps2'.translate = ps2.translate
      BY <1>0, <1>11 DEF kb_rdport, Ps2Fields
    <2>3. PICK r \in Byte : cpu' = Answered(cpu, r)
      BY <1>0, <1>11 DEF kb_rdport
    <2>4. AnsweredAs(cpu', cpu, r)
      BY <1>0, <2>3, AnsweredIs
    <2>5. cpu'.pc \in {"wr", cpu.then} /\ cpu'.then = cpu.then /\ cpu'.ret = cpu.ret /\ cpu'.byte = cpu.byte
      <3>1. r = ACK \/ (r # ACK /\ r # 0 /\ cpu.left > 1) \/ (r # ACK /\ (r = 0 \/ cpu.left <= 1))
        BY KeyboardAssumption DEF Types, CpuTypes
      <3> QED
        BY <1>0, <2>4, <3>1 DEF AnsweredAs, CpuTypes
    <2>6. cpu.then = Heading /\ cpu.then \notin {"wr", "rd"}
      BY <1>1, <2>1 DEF Heading
    <2>7. Heading' = Heading
      BY <2>5, <2>6 DEF Heading
    <2> QED
      BY <1>1, <1>3, <1>4, <2>1, <2>2, <2>5, <2>7
  <1>12. CASE kb_setleds
    <2>1. /\ UNCHANGED <<ps2, dev, faults>> /\ cpu.pc = "leds" /\ kb'.ready
      BY <1>0, <1>12 DEF kb_setleds, KbFields
    <2>2. cpu.ret = "key"
      BY <1>1, <2>1 DEF Heading
    <2>3. CASE cpu' = Goto(cpu, cpu.ret)
      <3>1. cpu'.pc = "key"
        BY <1>0, <2>2, <2>3, GotoIs
      <3>2. Heading' = "key"
        BY <3>1 DEF Heading
      <3> QED
        BY <1>3, <1>4, <2>1, <3>1, <3>2
    <2>4. CASE cpu' = Write(cpu, LedsOf(kb), cpu.ret)
      <3>1. LedsOf(kb) \in 0 .. 7 /\ LedsOf(kb) \in Byte
        BY LedsOfRange
      <3>2. /\ cpu'.pc = "wr" /\ cpu'.byte = LedsOf(kb) /\ cpu'.then = "key"
        BY <1>0, <2>2, <2>4, <3>1, WriteIs
      <3>3. Heading' = "key"
        BY <3>2 DEF Heading
      <3> QED
        BY <1>3, <1>4, <2>1, <3>1, <3>2, <3>3
    <2> QED
      BY <1>12, <2>3, <2>4 DEF kb_setleds
  <1>13. CASE kb_interrupt
    <2>1. UNCHANGED <<dev, faults>>
      BY <1>13 DEF kb_interrupt
    <2>2. ps2'.translate = ps2.translate
      <3>1. PICK o : ps2' = [ps2 EXCEPT !.irq = FALSE, !.full = FALSE, !.on = o]
        BY <1>13, ZenonT(30) DEF kb_interrupt, Stray, Prefix, Decode
      <3> QED
        BY <1>0, <3>1 DEF Ps2Fields
    <2>3. CASE Stray(ps2.data) \/ Prefix(ps2.data)
      <3>1. UNCHANGED cpu /\ kb'.ready
        <4>1. CASE Stray(ps2.data)
          BY <4>1 DEF Stray
        <4>2. CASE Prefix(ps2.data)
          BY <1>0, <4>2 DEF Prefix, KbFields
        <4> QED
          BY <2>3, <4>1, <4>2
      <3> QED
        BY <1>3, <1>4, <1>5, <2>1, <2>2, <3>1
    <2>4. CASE Decode(ps2.data)
      <3> DEFINE raw == KeyOf(kb.e0, ps2.data % 128)
                 key == IF kb.e1 /\ raw = KEY.NUMLK THEN KEY.PAUSE
                        ELSE IF kb.numlk THEN raw ELSE Unlocked(raw)
                 k1 == Prefixed(kb, ps2.data, raw)
                 k2 == IF ps2.data >= 128 THEN k1 ELSE Toggled(k1, key)
                 c1 == [cpu EXCEPT !.key = key, !.rel = ps2.data >= 128]
      <3>1. DOMAIN k1 = KbFields /\ k1.ready
        BY <1>0 DEF Prefixed, KbFields
      <3>2. k2.ready
        <4> HIDE DEF k1, key
        <4> QED
          BY <3>1 DEF Toggled, KbFields
      <3>3. CpuTypes(c1)
        <4> HIDE DEF key
        <4> QED
          BY <1>0 DEF CpuTypes, CpuFields
      <3>4. /\ kb' = k2
            /\ cpu' = IF kb.scset # 1 \/ (kb.e0 /\ kb.e1) THEN Goto(cpu, "panic")
                      ELSE update_leds(k2, c1, "key")
        BY <2>4 DEF Decode
      <3> HIDE DEF k2, c1
      <3>5. CASE cpu' = Goto(cpu, "panic")
        <4>1. cpu'.pc = "panic"
          BY <1>0, <3>5, GotoIs
        <4>2. Heading' = "panic"
          BY <4>1 DEF Heading
        <4> QED
          BY <1>3, <1>4, <2>1, <2>2, <3>2, <3>4, <4>1, <4>2
      <3>6. CASE cpu' = update_leds(k2, c1, "key")
        <4>1. CASE k2.leds = LedsOf(k2)
          <5>1. cpu'.pc = "key"
            BY <3>3, <3>6, <4>1, update_ledsIs
          <5>2. Heading' = "key"
            BY <5>1 DEF Heading
          <5> QED
            BY <1>3, <1>4, <2>1, <2>2, <3>2, <3>4, <5>1, <5>2
        <4>2. CASE k2.leds # LedsOf(k2)
          <5>1. cpu'.pc = "wr" /\ cpu'.byte = CMD.SETLED /\ cpu'.then = "leds" /\ cpu'.ret = "key"
            BY <3>3, <3>6, <4>2, update_ledsIs
          <5>2. Heading' = "leds" /\ cpu'.byte = 237
            BY <5>1, Numbers DEF Heading
          <5> QED
            BY <1>3, <1>4, <2>1, <2>2, <3>2, <3>4, <5>1, <5>2
        <4> QED
          BY <4>1, <4>2
      <3> QED
        BY <3>4, <3>5, <3>6
    <2> QED
      BY <1>13, <2>3, <2>4 DEF kb_interrupt
  <1>14. CASE HandleKey
    <2>1. UNCHANGED <<dev, faults>>
      BY <1>14 DEF HandleKey
    <2>2. PICK p \in {"idle", "crash", "reset"} : cpu' = [Idle EXCEPT !.pc = p]
      BY <1>14, Zenon DEF HandleKey, sysrq
    <2>3. PICK o : ps2' = [ps2 EXCEPT !.on = o]
      BY <1>14, Zenon DEF HandleKey
    <2>4. PICK k, a, c, t, g :
            /\ \E m : k = [kb EXCEPT !.mods = m]
            /\ kb' = [k EXCEPT !.altchar = a, !.crashkey = c, !.term = t, !.pollchar = g]
      BY <1>14, KeyHandled
    <2>5. kb'.ready
      <3>1. PICK m : k = [kb EXCEPT !.mods = m]
        BY <2>4
      <3>2. DOMAIN k = KbFields /\ k.ready
        BY <1>0, <3>1 DEF KbFields
      <3> QED
        BY <2>4, <3>2 DEF KbFields
    <2>6. ps2'.translate = ps2.translate
      BY <1>0, <2>3 DEF Ps2Fields
    <2>7. cpu'.pc = p
      BY <2>2, IdleIs
    <2>8. Heading' = p
      BY <2>2, <2>7 DEF Heading
    <2> QED
      BY <1>3, <1>4, <2>1, <2>2, <2>5, <2>6, <2>7, <2>8
  <1>15. ~init_ps2 /\ ~RewriteConfig /\ ~ConfigureKeyboard /\ ~EnableKeyboard /\ ~FinishInit
    <2>1. ~ConfigureKeyboard
      BY <1>2, ConfigureIs
    <2> QED
      BY <1>2, <2>1 DEF init_ps2, RewriteConfig, EnableKeyboard, FinishInit
  <1> QED
    BY <1>6, <1>7, <1>8, <1>9, <1>10, <1>11, <1>12, <1>13, <1>14, <1>15 DEF Next, Driver

LEMMA SetInit == Init => SetInv
  <1> SUFFICES ASSUME Init PROVE SetInv
    OBVIOUS
  <1>1. /\ ~kb.ready /\ cpu.pc = "boot" /\ ~ps2.full /\ user.held = {}
        /\ dev.q = << >> /\ dev.rep = << >> /\ dev.set = 2 /\ dev.await = 0
    BY IdleIs DEF Init
  <1>2. Heading = "boot" /\ None /\ ~Chooses
    BY <1>1, Numbers DEF Heading, None, Chooses
  <1>3. Command /\ DataOut /\ DataIn /\ Between /\ SetAt(Heading)
    BY <1>1, <1>2 DEF Command, DataOut, DataIn, Between, SetAt
  <1> QED
    BY <1>1, <1>2, <1>3 DEF SetInv, BootInv, BootLabels

LEMMA SetStep ==
    ASSUME OnlyRefuses, Types, SetInv, [Next]_vars PROVE SetInv'
  <1>1. CASE kb.ready
    BY <1>1, RunStep DEF SetInv
  <1>2. CASE ~kb.ready
    <2>0. BootInv /\ cpu.pc # "idle" /\ cpu.pc # "key" /\ user.held = {} /\ CpuTypes(cpu)
      BY <1>2 DEF SetInv, BootInv, Heading, BootLabels, CommandLabels, WriteLabels, ReadLabels, Types
    <2>1. CASE UNCHANGED vars
      <3>1. SetInv'
        BY <1>2, <2>0, <2>1 DEF vars, SetInv, BootInv, Heading, Command, Accepted, DataOut, DataIn, Between,
             SetAt, Right, None, One, Two, Three, Chooses, Refused, RefusedTwice
      <3> QED
        BY <3>1
    <2>2. CASE kb_setleds \/ FinishInit
      BY <1>2, <2>0, <2>2, BootFinish
    <2>3. CASE init_ps2 \/ RewriteConfig \/ EnableKeyboard
      <3>1. ~kb'.ready
        BY <1>2, <2>3 DEF init_ps2, RewriteConfig, EnableKeyboard, Types, KbTypes, KbFields
      <3> QED
        BY <1>2, <2>0, <2>3, <3>1, BootStart DEF SetInv
    <2>4. CASE ConfigureKeyboard
      BY <1>2, <2>0, <2>4, BootConfigure DEF SetInv, ConfigureKeyboard
    <2>5. CASE kb_wrport
      BY <1>2, <2>0, <2>5, BootWriteCommand, BootWriteData DEF SetInv, kb_wrport, CpuTypes
    <2>6. CASE kb_rdport
      BY <1>2, <2>0, <2>6, BootReadCommand, BootReadData DEF SetInv, kb_rdport, CpuTypes
    <2>7. CASE Deliver
      BY <1>2, <2>0, <2>7, BootDeliver DEF SetInv, Deliver
    <2>8. ~kb_interrupt /\ ~HandleKey /\ ~kb_getc /\ \A k \in Keys : ~PressKey(k) /\ ~ReleaseKey(k)
      BY <1>2, <2>0 DEF kb_interrupt, HandleKey, kb_getc, PressKey, ReleaseKey
    <2> QED
      BY <2>1, <2>2, <2>3, <2>4, <2>5, <2>6, <2>7, <2>8 DEF Next, Driver
  <1> QED
    BY <1>1, <1>2

(* Only the last step of init_kb makes the driver ready. *)
LEMMA ReadyAt ==
    ASSUME Types, [Next]_vars, ~kb.ready, kb'.ready PROVE FinishInit /\ cpu.pc = "register"
  <1>0. DOMAIN kb = KbFields
    BY DEF Types, KbTypes
  <1>1. ~(UNCHANGED kb)
    OBVIOUS
  <1>2. /\ ~Deliver /\ ~kb_wrport /\ ~kb_rdport /\ ~init_ps2 /\ ~RewriteConfig /\ ~ConfigureKeyboard
        /\ ~kb_getc /\ ~(UNCHANGED vars) /\ \A k \in Keys : ~PressKey(k) /\ ~ReleaseKey(k)
    BY <1>1 DEF Deliver, kb_wrport, kb_rdport, init_ps2, RewriteConfig, ConfigureKeyboard, kb_getc,
         PressKey, ReleaseKey, vars
  <1>3. ~EnableKeyboard /\ ~kb_setleds
    BY <1>0, <1>1 DEF EnableKeyboard, kb_setleds, KbFields
  <1>4. ~HandleKey
    <2> SUFFICES ASSUME HandleKey PROVE FALSE
      OBVIOUS
    <2>1. PICK k, a, c, t, g :
            /\ \E m : k = [kb EXCEPT !.mods = m]
            /\ kb' = [k EXCEPT !.altchar = a, !.crashkey = c, !.term = t, !.pollchar = g]
      BY KeyHandled
    <2>2. PICK m : k = [kb EXCEPT !.mods = m]
      BY <2>1
    <2>3. DOMAIN k = KbFields /\ k.ready = kb.ready
      BY <1>0, <2>2 DEF KbFields
    <2>4. kb'.ready = k.ready
      BY <2>1, <2>3 DEF KbFields
    <2> QED
      BY <2>3, <2>4
  <1>5. ~kb_interrupt
    <2>1. ~Stray(ps2.data)
      BY <1>1 DEF Stray
    <2>2. ~Prefix(ps2.data)
      <3> SUFFICES ASSUME Prefix(ps2.data) PROVE FALSE
        OBVIOUS
      <3>1. kb'.ready = kb.ready
        BY <1>0 DEF Prefix, KbFields
      <3> QED
        BY <3>1
    <2>3. ~Decode(ps2.data)
      <3> SUFFICES ASSUME Decode(ps2.data) PROVE FALSE
        OBVIOUS
      <3> DEFINE raw == KeyOf(kb.e0, ps2.data % 128)
                 key == IF kb.e1 /\ raw = KEY.NUMLK THEN KEY.PAUSE
                        ELSE IF kb.numlk THEN raw ELSE Unlocked(raw)
                 k1 == Prefixed(kb, ps2.data, raw)
                 k2 == IF ps2.data >= 128 THEN k1 ELSE Toggled(k1, key)
      <3>1. DOMAIN k1 = KbFields /\ k1.ready = kb.ready
        BY <1>0 DEF Prefixed, KbFields
      <3>2. kb' = k2
        BY DEF Decode
      <3> HIDE DEF k1, key
      <3> QED
        BY <3>1, <3>2 DEF Toggled, KbFields
    <2> QED
      BY <2>1, <2>2, <2>3 DEF kb_interrupt
  <1> QED
    BY <1>2, <1>3, <1>4, <1>5 DEF Next, Driver, FinishInit

(* However often kb_sendcmd is refused and tries again, init_kb ends with   *)
(* the keyboard sending set 1, or set 2 with the controller translating:    *)
(* kb_scset reads the set back and restores it, and the configuration byte  *)
(* is written again.  The keyboard refuses commands only, and fewer than    *)
(* two whole commands before the driver is ready.                           *)
THEOREM SetOneChosen == OnlyRefuses => (Spec /\ []FewRefusals => []ScancodesAreSet1)
  <1> SUFFICES ASSUME OnlyRefuses PROVE Spec /\ []FewRefusals => []ScancodesAreSet1
    OBVIOUS
  <1> DEFINE Set1 == kb.ready => Right
  <1>1. Types /\ Set1 => ScancodesAreSet1
    <2> SUFFICES ASSUME Types, Right, dev.model = "noread" => faults < RETRY_COUNT
                 PROVE  <<dev.set, ps2.translate>> \in {<<1, FALSE>>, <<2, TRUE>>}
      BY DEF ScancodesAreSet1
    <2>1. ps2.translate \in BOOLEAN /\ faults \in Nat /\ RETRY_COUNT \in Nat
      BY KeyboardAssumption DEF Types, Ps2Types
    <2>2. (dev.set = 1 /\ ~ps2.translate) \/ (dev.set = 2 /\ ps2.translate)
      BY <2>1 DEF Right, Refused
    <2> QED
      BY <2>1, <2>2
  <1>2. Init => Set1
    BY DEF Init
  <1>3. Types /\ SetInv /\ FewRefusals /\ Set1 /\ [Next]_vars => Set1'
    <2> SUFFICES ASSUME Types, SetInv, FewRefusals, Set1, [Next]_vars, kb'.ready PROVE Right'
      OBVIOUS
    <2>1. CASE kb.ready
      BY <2>1, RunStep DEF SetInv
    <2>2. CASE ~kb.ready
      <3>1. FinishInit /\ cpu.pc = "register"
        BY <2>2, ReadyAt
      <3>2. Right
        <4>1. Heading = "register" /\ ~RefusedTwice
          BY KeyboardAssumption, <2>2, <3>1 DEF Heading, FewRefusals, RefusedTwice, Types
        <4> QED
          BY <2>2, <4>1 DEF SetInv, BootInv
      <3> QED
        BY <3>1, <3>2 DEF FinishInit, Right, Refused
    <2> QED
      BY <2>1, <2>2
  <1>4. Types /\ SetInv /\ [Next]_vars => SetInv'
    BY SetStep
  <1> QED
    BY <1>1, <1>2, <1>3, <1>4, SetInit, TypesHold, PTL DEF Spec

-------------------------------------------------------------------------------
(* The lights and the prefixes: what each call of update_leds finds on its  *)
(* way, and what the bytes that wait hold the E0 and E1 flags to.           *)

(* Bytes kb_interrupt drops. *)
StrayBytes == {250, 254, 252, 253, 255, 0}

(* Faults once the driver is ready: it only times out too soon, or gets a   *)
(* scancode instead of an answer.                                           *)
OnlyDelays == FaultKinds \subseteq {"late", "early"}

(* No scancode has come instead of an answer. *)
Calm == faults = 0 \/ FaultKinds \subseteq {"late"}

(* The byte for the lights is about to be written. *)
WritesLeds == cpu.pc = "wr" /\ cpu.kind = "data" /\ cpu.then \in {"register", "key"}

BootLeds ==
    /\ ~kb.e0 /\ ~kb.e1
    /\ Heading \in {"flush", "leds", "register"} => kb.scset = 1
    /\ cpu.pc = "flush" \/ Heading \in {"leds", "register"} => ps2.data \in {250, 254}
    /\ Heading \notin {"leds", "register"} => dev.await # 237
    /\ cpu.pc = "rd" /\ cpu.then = "leds" => dev.await = 237 \/ One(RESEND)
    /\ cpu.pc = "leds" => /\ cpu.ok => dev.await = 237
                          /\ faults = 0 => cpu.ok
    /\ Heading = "register" /\ faults = 0 => kb.leds = LedsOf(kb)

(* Scancodes with no prefix that lacks what it announces. *)
WellFormed(s) ==
    \A i \in 1 .. Len(s) :
      /\ s[i] \notin StrayBytes
      /\ s[i] = 224 => i + 1 <= Len(s) /\ s[i + 1] \notin {224, 225}
      /\ s[i] = 225 => i + 2 <= Len(s) /\ s[i + 1] \in {29, 157} /\ s[i + 2] \in {69, 197}

(* What is on its way, while the driver is ready and Calm. *)
Exchange ==
    /\ cpu.pc = "wr" => None /\ (cpu.kind = "cmd" => ~ps2.on)
    /\ cpu.pc = "rd" => One(ACK)
    /\ cpu.pc = "leds" => IF cpu.ok THEN None ELSE One(ACK) /\ faults > 0
    /\ cpu.pc \notin {"wr", "rd", "leds"} =>
         None \/ One(ACK) \/ (ps2.full /\ dev.rep = << >> /\ ps2.data \notin StrayBytes)
    /\ ps2.irq /\ ~ps2.full => ps2.data \in StrayBytes
    /\ WellFormed(dev.q)

RunLeds ==
    /\ kb.scset = 1
    /\ cpu.pc \in {"wr", "rd"} => \/ cpu.kind = "cmd" /\ cpu.then = "leds" /\ cpu.byte = 237
                                  \/ cpu.kind = "data" /\ cpu.then = "key"
    /\ cpu.pc = "rd" /\ cpu.kind = "cmd" => dev.await = 237
    /\ cpu.pc = "leds" /\ cpu.ok => dev.await = 237
    /\ Calm => Exchange
    /\ faults = 0 /\ (cpu.pc \in {"idle", "key"} \/ (cpu.pc \in {"wr", "rd"} /\ cpu.kind = "data")) =>
         kb.leds = LedsOf(kb)

LedsInv ==
    /\ IF WritesLeds THEN dev.await = 237 /\ cpu.byte = kb.leds ELSE dev.leds = kb.leds
    /\ ~kb.ready => BootLeds
    /\ kb.ready => RunLeds

(* The scancodes on their way, the one in the controller first. *)
Pending == IF ps2.full /\ ps2.data \notin StrayBytes THEN <<ps2.data>> \o dev.q ELSE dev.q

(* What the flags hold the next bytes to. *)
Follows(e0, e1, s) ==
    /\ ~(e0 /\ e1)
    /\ e0 => s # << >> /\ s[1] \notin {224, 225}
    /\ e1 => \/ Len(s) > 1 /\ s[1] \in {29, 157} /\ s[2] \in {69, 197}
             \/ Len(s) > 0 /\ s[1] \in {69, 197}

CodesInv ==
    /\ cpu.pc # "panic"
    /\ kb.ready => WellFormed(Pending) /\ Follows(kb.e0, kb.e1, Pending)

LEMMA LedsOfLocks ==
    ASSUME NEW k, NEW j, j.capslk = k.capslk, j.numlk = k.numlk, j.scrlk = k.scrlk
    PROVE  LedsOf(j) = LedsOf(k)
  BY DEF LedsOf

LEMMA OneByte ==
    ASSUME One(ACK) PROVE ~One(RESEND)
  <1>1. ACK # RESEND
    BY Numbers
  <1>2. CASE ps2.full
    BY <1>1, <1>2 DEF One
  <1>3. CASE ~ps2.full
    <2>1. dev.rep = <<ACK>>
      BY <1>3 DEF One
    <2>2. <<ACK>> # <<RESEND>>
      BY <1>1
    <2> QED
      BY <1>3, <2>1, <2>2 DEF One
  <1> QED
    BY <1>2, <1>3

LEMMA ConfigureHeads ==
    ASSUME CpuTypes(cpu), ConfigureKeyboard
    PROVE  Heading' \in BootLabels \ {"flush", "leds", "register"} /\ ~WritesLeds' /\ cpu'.pc # "leds"
           /\ (cpu'.pc = "rd" => cpu'.then # "leds") /\ cpu'.pc # "flush"
  <1>0. /\ cpu.old \in Byte /\ cpu.resp \in Byte
        /\ 243 \in Byte /\ 240 \in Byte /\ 34 \in Byte /\ 0 \in Byte /\ 1 \in Byte
    BY DEF CpuTypes, Byte
  <1>1. CpuTypes([cpu EXCEPT !.old = cpu.resp])
    BY <1>0 DEF CpuTypes, CpuFields
  <1>2. /\ cpu'.pc \in {"wr", "rd", "chosen", "failed"}
        /\ cpu'.pc \in {"wr", "rd"} =>
             cpu'.then \in {"ident2", "ident3", "typ", "typ2", "set1", "set2", "set3", "set4", "set5",
                            "set6", "set7", "set8", "set9", "set10", "chosen", "failed"}
    <2>1. CASE cpu.pc = "ident"
      BY <1>0, <2>1, ConfigureIs, ReadIs, SendIs
    <2>2. CASE cpu.pc = "ident2"
      BY <1>0, <2>2, ConfigureIs, ReadIs
    <2>3. CASE cpu.pc = "ident3"
      BY <1>0, <2>3, ConfigureIs, SendIs
    <2>4. CASE cpu.pc = "typ"
      BY <1>0, <2>4, ConfigureIs, WriteIs, SendIs
    <2>5. CASE cpu.pc = "typ2"
      BY <1>0, <2>5, ConfigureIs, SendIs
    <2>6. CASE cpu.pc = "set1"
      BY <1>0, <2>6, ConfigureIs, WriteIs, GotoIs
    <2>7. CASE cpu.pc = "set2"
      BY <1>0, <2>7, ConfigureIs, ReadIs
    <2>8. CASE cpu.pc = "set3"
      BY <1>0, <1>1, <2>8, ConfigureIs, SendIs
    <2>9. CASE cpu.pc = "set4"
      BY <1>0, <2>9, ConfigureIs, WriteIs
    <2>10. CASE cpu.pc = "set5"
      BY <1>0, <2>10, ConfigureIs, WriteIs
    <2>11. CASE cpu.pc = "set6"
      BY <1>0, <2>11, ConfigureIs, SendIs
    <2>12. CASE cpu.pc = "set7"
      BY <1>0, <2>12, ConfigureIs, WriteIs
    <2>13. CASE cpu.pc = "set8"
      BY <1>0, <2>13, ConfigureIs, ReadIs
    <2>14. CASE cpu.pc = "set9"
      BY <1>0, <2>14, ConfigureIs, GotoIs, SendIs
    <2>15. CASE cpu.pc = "set10"
      BY <1>0, <2>15, ConfigureIs, WriteIs
    <2> QED
      BY <2>1, <2>2, <2>3, <2>4, <2>5, <2>6, <2>7, <2>8, <2>9, <2>10, <2>11, <2>12, <2>13, <2>14, <2>15, ConfigureIs
  <1> QED
    BY <1>2 DEF Heading, WritesLeds, BootLabels, CommandLabels, WriteLabels, ReadLabels

LEMMA LedsConfigure ==
    ASSUME Types, BootInv, LedsInv, ~kb.ready, init_ps2 \/ RewriteConfig \/ ConfigureKeyboard \/ EnableKeyboard
    PROVE  LedsInv'
  <1>0. /\ CpuTypes(cpu) /\ BootLeds /\ DOMAIN kb = KbFields
        /\ 245 \in Byte /\ 242 \in Byte /\ 244 \in Byte
    BY DEF LedsInv, Types, KbTypes, Byte
  <1>1. UNCHANGED <<dev, faults>>
    BY DEF init_ps2, RewriteConfig, ConfigureKeyboard, EnableKeyboard
  <1>2. /\ kb'.leds = kb.leds /\ kb'.ready = kb.ready /\ kb'.e0 = kb.e0 /\ kb'.e1 = kb.e1
        /\ kb'.scset = kb.scset \/ (EnableKeyboard /\ kb'.scset = 1)
    BY <1>0 DEF init_ps2, RewriteConfig, ConfigureKeyboard, EnableKeyboard, KbFields
  <1>3. /\ cpu.pc \in {"boot", "off", "cfg", "chosen", "failed", "ident", "ident2", "ident3", "typ", "typ2",
                    "set1", "set2", "set3", "set4", "set5", "set6", "set7", "set8", "set9", "set10"}
    <2>1. CASE ConfigureKeyboard
      BY <2>1, ConfigureIs
    <2> QED
      BY <2>1 DEF init_ps2, RewriteConfig, EnableKeyboard
  <1>4. dev.leds = kb.leds /\ dev.await # 237
    BY <1>0, <1>3 DEF LedsInv, BootLeds, WritesLeds, Heading
  <1>5. /\ Heading' \notin {"leds", "register"} /\ ~WritesLeds' /\ cpu'.pc \notin {"leds", "flush"}
        /\ (cpu'.pc = "rd" => cpu'.then # "leds")
        /\ (Heading' = "flush" => EnableKeyboard)
    <2>1. CASE ConfigureKeyboard
      BY <1>0, <2>1, ConfigureHeads
    <2>2. CASE init_ps2
      <3>1. (cpu'.pc = "wr" /\ cpu'.then = "off" /\ cpu'.kind = "cmd") \/ cpu'.pc = "halt"
        <4>1. CASE cpu' = Send(cpu, 245, "off")
          BY <1>0, <4>1, SendIs
        <4>2. CASE cpu' = Goto(cpu, "halt")
          BY <1>0, <4>2, GotoIs
        <4> QED
          BY <2>2, <4>1, <4>2, Numbers DEF init_ps2
      <3> QED
        BY <3>1 DEF Heading, WritesLeds
    <2>3. CASE RewriteConfig
      <3>1. (cpu'.pc = "wr" /\ cpu'.then = "ident" /\ cpu'.kind = "cmd") \/ cpu'.pc = "cfg"
        <4>1. CASE cpu' = Send(cpu, 242, "ident")
          BY <1>0, <4>1, SendIs
        <4>2. CASE cpu' = Goto(cpu, "cfg")
          BY <1>0, <4>2, GotoIs
        <4> QED
          BY <2>3, <4>1, <4>2, Numbers DEF RewriteConfig
      <3> QED
        BY <3>1 DEF Heading, WritesLeds
    <2>4. CASE EnableKeyboard
      <3>1. cpu'.pc = "wr" /\ cpu'.then = "flush" /\ cpu'.kind = "cmd"
        <4>1. cpu' = Send(cpu, 244, "flush")
          BY <2>4, Numbers DEF EnableKeyboard
        <4> QED
          BY <1>0, <4>1, SendIs
      <3> QED
        BY <2>4, <3>1 DEF Heading, WritesLeds
    <2> QED
      BY <2>1, <2>2, <2>3, <2>4
  <1>6. Heading' = "flush" => kb'.scset = 1
    BY <1>2, <1>5 DEF EnableKeyboard, Types, KbTypes, KbFields
  <1>7. BootLeds'
    BY <1>0, <1>1, <1>2, <1>4, <1>5, <1>6 DEF BootLeds
  <1> QED
    BY <1>1, <1>2, <1>4, <1>5, <1>7 DEF LedsInv

LEMMA LedsBootWrite ==
    ASSUME Types, BootInv, LedsInv, OnlyRefuses, ~kb.ready, kb_wrport PROVE LedsInv'
  <1>0. /\ CpuTypes(cpu) /\ DevTypes(dev) /\ BootLeds /\ DOMAIN ps2 = Ps2Fields /\ cpu.pc = "wr"
        /\ cpu.byte \in Byte /\ cpu.kind \in {"cmd", "data"} /\ faults \in Nat
    BY KeyboardAssumption DEF LedsInv, Types, Ps2Types, CpuTypes, kb_wrport
  <1>1. None
    BY <1>0 DEF BootInv, Command, DataOut
  <1>2. /\ UNCHANGED kb /\ cpu'.pc = "rd" /\ cpu'.kind = cpu.kind /\ cpu'.then = cpu.then
        /\ \/ dev' = Takes(dev, cpu.byte) /\ UNCHANGED faults
           \/ /\ cpu.kind = "cmd" /\ faults' = faults + 1 /\ One(RESEND)'
              /\ dev'.await = dev.await
    BY <1>1, Writes
  <1>3. ps2'.data = ps2.data
    BY <1>0 DEF kb_wrport, Ps2Fields
  <1>4. Heading = cpu.then /\ Heading' = cpu.then /\ ~WritesLeds'
    BY <1>0, <1>2 DEF Heading, WritesLeds
  <1>5. /\ cpu.kind = "cmd" => cpu.byte = CommandFor(cpu.then) /\ cpu.then \in CommandLabels
        /\ cpu.kind = "data" => cpu.byte < 237 /\ cpu.then \in WriteLabels
    <2>1. CASE cpu.kind = "cmd"
      BY <1>0, <2>1 DEF BootInv, Command
    <2>2. CASE cpu.kind = "data"
      BY <1>0, <2>2 DEF BootInv, DataOut, WriteLabels
    <2> QED
      BY <1>0, <2>1, <2>2
  <1>6. /\ dev'.leds = kb.leds
        /\ cpu.then # "leds" => dev'.await # 237 \/ (cpu.kind = "cmd" /\ dev'.await = dev.await)
        /\ cpu.then = "leds" => dev'.await = 237 \/ One(RESEND)'
    <2>1. CASE dev' = Takes(dev, cpu.byte) /\ cpu.kind = "cmd"
      <3>1. Taken(dev', dev, cpu.byte)
        BY <1>0, <2>1, TakesIs
      <3>2. cpu.byte \in {237, 240, 242, 243, 244, 245} /\ (cpu.byte = 237 <=> cpu.then = "leds")
        BY <1>5, <2>1 DEF CommandFor, CommandLabels
      <3>3. dev.leds = kb.leds
        BY <2>1 DEF LedsInv, WritesLeds
      <3>4. dev'.leds = dev.leds
        BY <3>1, <3>2 DEF Taken
      <3>5. cpu.byte = 237 => dev'.await = 237
        BY <3>1 DEF Taken
      <3>6. cpu.byte # 237 => dev'.await # 237 \/ dev'.await = dev.await
        BY <3>1, <3>2 DEF Taken
      <3> QED
        BY <2>1, <3>2, <3>3, <3>4, <3>5, <3>6
    <2>2. CASE dev' = Takes(dev, cpu.byte) /\ cpu.kind = "data"
      <3>1. Taken(dev', dev, cpu.byte)
        BY <1>0, <2>2, TakesIs
      <3>2. /\ dev'.await = 0 /\ dev'.leds = IF dev.await = 237 THEN cpu.byte ELSE dev.leds
        BY <1>5, <2>2, <3>1 DEF Taken
      <3>3. cpu.then # "leds" /\ cpu.then # "key"
        BY <1>5, <2>2 DEF WriteLabels
      <3>4. CASE cpu.then = "register"
        <4>1. WritesLeds
          BY <1>0, <2>2, <3>4 DEF WritesLeds
        <4> QED
          BY <3>2, <3>3, <4>1 DEF LedsInv
      <3>5. CASE cpu.then # "register"
        <4>1. ~WritesLeds /\ dev.await # 237
          BY <1>0, <1>4, <3>3, <3>5 DEF WritesLeds, BootLeds
        <4> QED
          BY <3>2, <3>3, <4>1 DEF LedsInv
      <3> QED
        BY <3>4, <3>5
    <2>3. CASE dev' # Takes(dev, cpu.byte)
      <3>1. cpu.kind = "cmd" /\ One(RESEND)' /\ dev'.await = dev.await
        BY <1>2, <2>3
      <3>2. dev'.leds = dev.leds
        <4>1. ~Fault("lost")
          BY DEF Fault, OnlyRefuses
        <4>2. dev' = [dev EXCEPT !.rep = Append(@, RESEND)]
          BY <2>3, <4>1 DEF kb_wrport
        <4> QED
          BY <1>0, <4>2 DEF DevTypes, DevFields
      <3>3. dev.leds = kb.leds
        BY <3>1 DEF LedsInv, WritesLeds
      <3> QED
        BY <3>1, <3>2, <3>3
    <2> QED
      BY <1>0, <2>1, <2>2, <2>3
  <1>7. BootLeds'
    <2>1. cpu.then \notin {"leds", "register"} => dev'.await # 237
      BY <1>0, <1>4, <1>6 DEF BootLeds
    <2>2. cpu.then = "register" /\ faults' = 0 => kb'.leds = LedsOf(kb')
      BY <1>0, <1>2, <1>4 DEF BootLeds
    <2> QED
      BY <1>0, <1>2, <1>3, <1>4, <1>6, <2>1, <2>2 DEF BootLeds
  <1> QED
    BY <1>2, <1>4, <1>6, <1>7 DEF LedsInv

LEMMA LedsBootRead ==
    ASSUME Types, BootInv, LedsInv, OnlyRefuses, ~kb.ready, kb_rdport PROVE LedsInv'
  <1>0. /\ CpuTypes(cpu) /\ BootLeds /\ DOMAIN ps2 = Ps2Fields /\ cpu.pc = "rd" /\ dev.q = << >>
        /\ cpu.kind \in {"cmd", "data"} /\ faults \in Nat /\ cpu.left \in Nat /\ RETRY_COUNT \in Nat
    BY KeyboardAssumption DEF LedsInv, Types, Ps2Types, CpuTypes, kb_rdport, BootInv
  <1>1. PICK r \in Byte :
             /\ cpu' = Answered(cpu, r)
             /\ UNCHANGED <<kb, dev, user, faults>> /\ ps2'.translate = ps2.translate
             /\ None => r = 0 /\ None'
             /\ \A a : One(a) => r = a /\ None'
             /\ \A a, b : Two(a, b) => r = a /\ One(b)'
             /\ \A a, b, c : Three(a, b, c) => r = a /\ Two(b, c)'
    BY <1>0, Pops
  <1>2. AnsweredAs(cpu', cpu, r)
    BY <1>0, <1>1, AnsweredIs
  <1>3. /\ cpu'.kind = cpu.kind /\ cpu'.then = cpu.then
        /\ cpu.kind = "data" => cpu'.pc = cpu.then
        /\ cpu.kind = "cmd" => cpu'.pc \in {"wr", cpu.then}
        /\ cpu.kind = "cmd" /\ r = ACK => cpu'.pc = cpu.then /\ cpu'.ok = TRUE
        /\ cpu.kind = "cmd" /\ r # ACK /\ cpu'.pc # "wr" => cpu'.ok = FALSE
    BY <1>0, <1>2 DEF AnsweredAs
  <1>4. /\ ps2'.data = ps2.data
    BY <1>0 DEF kb_rdport, Ps2Fields
  <1>5. cpu.then \in BootLabels /\ cpu.then \notin {"wr", "rd", "key"}
    BY <1>0 DEF BootInv, Heading, BootLabels, CommandLabels, WriteLabels, ReadLabels
  <1>6. Heading = cpu.then /\ Heading' = cpu.then /\ ~WritesLeds' /\ ~WritesLeds
    BY <1>0, <1>3, <1>5 DEF Heading, WritesLeds
  <1>7. /\ cpu.kind = "cmd" => /\ cpu.then \in CommandLabels
                               /\ cpu.then \in {"flush", "leds"} =>
                                    One(ACK) \/ (One(RESEND) /\ faults > 0)
        /\ cpu.kind = "data" => cpu.then \notin {"flush", "leds"}
    <2>1. CASE cpu.kind = "cmd"
      <3>1. /\ cpu.then \in CommandLabels /\ cpu.byte = CommandFor(cpu.then) /\ cpu.left \in 1 .. RETRY_COUNT
            /\ \/ Accepted(cpu.byte)
               \/ One(RESEND) /\ ~Chooses /\ faults > Before(cpu.then) + RETRY_COUNT - cpu.left
        BY <1>0, <2>1 DEF BootInv, Command
      <3>2. One(RESEND) /\ faults > Before(cpu.then) + RETRY_COUNT - cpu.left => faults > 0
        BY <1>0, <3>1 DEF Before
      <3>3. cpu.then \in {"flush", "leds"} => cpu.byte \in {237, 244}
        BY <3>1 DEF CommandFor
      <3>4. Accepted(cpu.byte) /\ cpu.byte \in {237, 244} => One(ACK)
        BY DEF Accepted
      <3> QED
        BY <2>1, <3>1, <3>2, <3>3, <3>4
    <2>2. CASE cpu.kind = "data"
      BY <1>0, <2>2 DEF BootInv, DataIn, WriteLabels, ReadLabels
    <2> QED
      BY <1>0, <2>1, <2>2
  <1>8. cpu'.pc = "flush" => ps2'.data \in {250, 254}
    <2> SUFFICES ASSUME cpu'.pc = "flush" PROVE ps2'.data \in {250, 254}
      OBVIOUS
    <2>1. One(ACK) \/ One(RESEND)
      BY <1>0, <1>3, <1>7
    <2>2. ps2.full
      <3> SUFFICES ASSUME ~ps2.full PROVE FALSE
        OBVIOUS
      <3>1. dev.rep # << >>
        <4>1. <<ACK>> # << >> /\ <<RESEND>> # << >>
          OBVIOUS
        <4>2. dev.rep = <<ACK>> \/ dev.rep = <<RESEND>>
          BY <2>1 DEF One
        <4> QED
          BY <4>1, <4>2
      <3>2. ~Fault("late")
        BY DEF Fault, OnlyRefuses
      <3> QED
        BY <3>1, <3>2 DEF kb_rdport
    <2> QED
      BY <1>4, <2>1, <2>2, Numbers DEF One
  <1>9. cpu'.pc = "leds" => (cpu'.ok => dev'.await = 237) /\ (faults' = 0 => cpu'.ok)
    <2> SUFFICES ASSUME cpu'.pc = "leds"
                 PROVE  (cpu'.ok => dev'.await = 237) /\ (faults' = 0 => cpu'.ok)
      OBVIOUS
    <2>1. cpu.kind = "cmd" /\ cpu.then = "leds"
      BY <1>0, <1>3, <1>7
    <2>2. CASE One(ACK)
      BY <1>0, <1>1, <1>3, <2>1, <2>2, OneByte DEF BootLeds
    <2>3. CASE One(RESEND) /\ faults > 0
      <3>1. r # ACK
        BY <1>1, <2>3, Numbers
      <3> QED
        BY <1>0, <1>1, <1>3, <2>1, <2>3, <3>1
    <2> QED
      BY <1>7, <2>1, <2>2, <2>3
  <1>10. cpu'.pc # "rd"
    BY <1>0, <1>3, <1>5
  <1>11. BootLeds'
    BY <1>0, <1>1, <1>4, <1>6, <1>8, <1>9, <1>10 DEF BootLeds
  <1> QED
    BY <1>1, <1>6, <1>11 DEF LedsInv

LEMMA LedsBootDeliver ==
    ASSUME Types, BootInv, LedsInv, ~kb.ready, Deliver PROVE LedsInv'
  <1>0. BootLeds /\ dev.q = << >> /\ DOMAIN dev = DevFields /\ DOMAIN ps2 = Ps2Fields
        /\ cpu.kind \in {"cmd", "data"}
    BY DEF LedsInv, BootInv, Types, DevTypes, Ps2Types, CpuTypes
  <1>1. /\ UNCHANGED <<kb, cpu, user, faults>> /\ dev'.await = dev.await /\ ~None
        /\ \A a : One(a) => One(a)'
    BY <1>0, Moves
  <1>2. dev'.leds = dev.leds
    BY <1>0 DEF Deliver, DevFields
  <1>3. ps2'.full
    BY <1>0 DEF Deliver, Ps2Fields
  <1>4. Heading' = Heading /\ (WritesLeds' <=> WritesLeds)
    BY <1>1 DEF Heading, WritesLeds
  <1>5. cpu.pc = "flush" \/ Heading \in {"leds", "register"} => ps2'.data \in {250, 254}
    <2> SUFFICES ASSUME cpu.pc = "flush" \/ Heading \in {"leds", "register"} PROVE ps2'.data \in {250, 254}
      OBVIOUS
    <2>1. cpu.pc = "rd"
      <3>1. CASE cpu.pc \notin {"wr", "rd"}
        BY <1>1, <3>1 DEF BootInv, Between, Heading
      <3>2. CASE cpu.pc = "wr"
        BY <1>0, <1>1, <3>2 DEF BootInv, Command, DataOut
      <3> QED
        BY <3>1, <3>2
    <2>2. One(ACK) \/ One(RESEND)
      <3>1. CASE cpu.kind = "cmd"
        <4>1. cpu.then \in {"leds", "register"} /\ cpu.then \in CommandLabels /\ cpu.byte = CommandFor(cpu.then)
              /\ (Accepted(cpu.byte) \/ One(RESEND))
          BY <2>1, <3>1 DEF BootInv, Command, Heading
        <4>2. cpu.byte = 237
          BY <4>1 DEF CommandLabels, CommandFor
        <4> QED
          BY <4>1, <4>2 DEF Accepted
      <3>2. CASE cpu.kind = "data"
        BY <2>1, <3>2 DEF BootInv, DataIn, Heading, WriteLabels, ReadLabels
      <3> QED
        BY <1>0, <3>1, <3>2
    <2>3. \E a \in {250, 254} : One(a)
      BY <2>2, Numbers
    <2>4. PICK a \in {250, 254} : One(a)'
      BY <1>1, <2>3
    <2> QED
      BY <1>3, <2>4 DEF One
  <1>6. One(RESEND) => One(RESEND)'
    BY <1>1, Numbers
  <1>7. BootLeds'
    BY <1>0, <1>1, <1>4, <1>5, <1>6 DEF BootLeds
  <1> QED
    BY <1>1, <1>2, <1>4, <1>7 DEF LedsInv

LEMMA LedsBootFinish ==
    ASSUME Types, BootInv, LedsInv, ~kb.ready, kb_setleds \/ FinishInit PROVE LedsInv'
  <1>0. /\ CpuTypes(cpu) /\ BootLeds /\ DOMAIN ps2 = Ps2Fields /\ DOMAIN kb = KbFields
        /\ dev.q = << >> /\ faults \in Nat
    BY KeyboardAssumption DEF LedsInv, BootInv, Types, Ps2Types, KbTypes
  <1>1. /\ UNCHANGED <<dev, faults>> /\ cpu.pc \in {"leds", "flush", "register"}
        /\ ps2'.data = ps2.data /\ (~ps2.full => ~ps2'.full)
        /\ kb'.scset = kb.scset /\ kb'.e0 = kb.e0 /\ kb'.e1 = kb.e1 /\ LedsOf(kb') = LedsOf(kb)
    <2>1. /\ UNCHANGED <<dev, faults>> /\ cpu.pc \in {"leds", "flush", "register"}
          /\ ps2'.data = ps2.data /\ (~ps2.full => ~ps2'.full)
      BY <1>0 DEF kb_setleds, FinishInit, Ps2Fields
    <2>2. PICK l, r : kb' = kb \/ kb' = [kb EXCEPT !.leds = l] \/ kb' = [kb EXCEPT !.ready = r]
      BY Zenon DEF kb_setleds, FinishInit
    <2>3. /\ kb'.scset = kb.scset /\ kb'.e0 = kb.e0 /\ kb'.e1 = kb.e1
          /\ kb'.capslk = kb.capslk /\ kb'.numlk = kb.numlk /\ kb'.scrlk = kb.scrlk
      BY <1>0, <2>2 DEF KbFields
    <2> QED
      BY <2>1, <2>3, LedsOfLocks
  <1>2. /\ Heading = cpu.pc /\ ~WritesLeds /\ None /\ None' /\ (cpu.pc = "leds" => cpu.ret = "register")
    BY <1>1 DEF BootInv, Between, Heading, WritesLeds, None
  <1>3. dev.leds = kb.leds /\ kb.scset = 1 /\ ps2.data \in {250, 254} /\ ~kb.e0 /\ ~kb.e1
    BY <1>0, <1>1, <1>2 DEF LedsInv, BootLeds
  <1>4. ASSUME cpu'.pc = "register", kb' = kb, faults = 0 => kb.leds = LedsOf(kb) PROVE LedsInv'
    <2>1. Heading' = "register" /\ ~WritesLeds'
      BY <1>4 DEF Heading, WritesLeds
    <2>2. BootLeds'
      BY <1>1, <1>3, <1>4, <2>1 DEF BootLeds
    <2> QED
      BY <1>1, <1>3, <1>4, <2>1, <2>2 DEF LedsInv
  <1>5. CASE kb_setleds
    <2>1. cpu.ret = "register" /\ cpu.pc = "leds"
      BY <1>2, <1>5 DEF kb_setleds
    <2>2. CASE ~cpu.ok
      <3>1. cpu' = Goto(cpu, "register") /\ kb' = kb
        BY <1>5, <2>1, <2>2 DEF kb_setleds
      <3>2. cpu'.pc = "register"
        BY <1>0, <3>1, GotoIs
      <3>3. faults # 0
        BY <1>0, <2>1, <2>2 DEF BootLeds
      <3> QED
        BY <1>4, <3>1, <3>2, <3>3
    <2>3. CASE cpu.ok
      <3>1. cpu' = Write(cpu, LedsOf(kb), "register") /\ kb' = [kb EXCEPT !.leds = LedsOf(kb)]
        BY <1>5, <2>1, <2>3 DEF kb_setleds
      <3>2. LedsOf(kb) \in Byte
        BY LedsOfRange
      <3>3. /\ cpu'.pc = "wr" /\ cpu'.kind = "data" /\ cpu'.byte = LedsOf(kb) /\ cpu'.then = "register"
        BY <1>0, <3>1, <3>2, WriteIs
      <3>4. kb'.leds = LedsOf(kb) /\ ~kb'.ready
        BY <1>0, <3>1 DEF KbFields
      <3>5. Heading' = "register" /\ WritesLeds' /\ dev'.await = 237
        BY <1>0, <1>1, <2>1, <2>3, <3>3 DEF Heading, WritesLeds, BootLeds
      <3>6. BootLeds'
        BY <1>1, <1>3, <3>3, <3>4, <3>5 DEF BootLeds
      <3> QED
        BY <3>3, <3>4, <3>5, <3>6 DEF LedsInv
    <2> QED
      BY <2>2, <2>3
  <1>6. CASE FinishInit /\ cpu.pc = "flush"
    <2>1. kb' = kb /\ cpu' = update_leds(kb, cpu, "register")
      BY <1>6 DEF FinishInit
    <2>2. CASE kb.leds = LedsOf(kb)
      <3>1. cpu'.pc = "register"
        BY <1>0, <2>1, <2>2, update_ledsIs
      <3> QED
        BY <1>4, <2>1, <2>2, <3>1
    <2>3. CASE kb.leds # LedsOf(kb)
      <3>1. /\ cpu'.pc = "wr" /\ cpu'.kind = "cmd" /\ cpu'.then = "leds"
        BY <1>0, <2>1, <2>3, update_ledsIs
      <3>2. Heading' = "leds" /\ ~WritesLeds'
        BY <3>1 DEF Heading, WritesLeds
      <3>3. BootLeds'
        BY <1>1, <1>3, <3>1, <3>2 DEF BootLeds
      <3> QED
        BY <1>1, <1>3, <2>1, <3>2, <3>3 DEF LedsInv
    <2> QED
      BY <2>2, <2>3
  <1>7. CASE FinishInit /\ cpu.pc = "register"
    <2>1. kb' = [kb EXCEPT !.ready = TRUE] /\ cpu' = Idle
      BY <1>7 DEF FinishInit
    <2>2. cpu'.pc = "idle" /\ kb'.ready /\ kb'.leds = kb.leds
      BY <1>0, <2>1, IdleIs DEF KbFields
    <2>3. Exchange'
      BY <1>0, <1>1, <1>2, <1>3, <2>2 DEF Exchange, StrayBytes, WellFormed
    <2>4. faults = 0 => kb.leds = LedsOf(kb)
      BY <1>0, <1>2, <1>7 DEF BootLeds
    <2>5. RunLeds'
      BY <1>1, <1>3, <2>2, <2>3, <2>4 DEF RunLeds
    <2> QED
      BY <1>1, <1>3, <2>2, <2>5 DEF LedsInv, WritesLeds
  <1> QED
    BY <1>5, <1>6, <1>7 DEF FinishInit

(* Sequences of scancodes. *)
LEMMA WellFormedConcat ==
    ASSUME NEW s \in Seq(Byte), NEW t \in Seq(Byte), WellFormed(s), WellFormed(t)
    PROVE  WellFormed(s \o t)
  <1>1. /\ Len(s) \in Nat /\ Len(t) \in Nat /\ Len(s \o t) = Len(s) + Len(t)
        /\ \A i \in 1 .. Len(s) : (s \o t)[i] = s[i]
        /\ \A i \in Len(s) + 1 .. Len(s) + Len(t) : (s \o t)[i] = t[i - Len(s)]
    BY ConcatProperties, LenProperties
  <1> PICK u : u = s \o t
    OBVIOUS
  <1> DEFINE Whole(i) ==
          /\ u[i] \notin StrayBytes
          /\ u[i] = 224 => i + 1 <= Len(u) /\ u[i + 1] \notin {224, 225}
          /\ u[i] = 225 => i + 2 <= Len(u) /\ u[i + 1] \in {29, 157} /\ u[i + 2] \in {69, 197}
  <1>2. ASSUME NEW i \in 1 .. Len(s)
        PROVE  Whole(i)
    BY <1>1 DEF WellFormed
  <1>3. ASSUME NEW i \in Len(s) + 1 .. Len(s) + Len(t)
        PROVE  Whole(i)
    <2>1. PICK j \in 1 .. Len(t) : j = i - Len(s)
      BY <1>1
    <2>2. /\ t[j] \notin StrayBytes
          /\ t[j] = 224 => j + 1 <= Len(t) /\ t[j + 1] \notin {224, 225}
          /\ t[j] = 225 => j + 2 <= Len(t) /\ t[j + 1] \in {29, 157} /\ t[j + 2] \in {69, 197}
      BY DEF WellFormed
    <2>3. u[i] = t[j]
      BY <1>1, <2>1
    <2>4. j + 1 <= Len(t) => u[i + 1] = t[j + 1] /\ i + 1 <= Len(u)
      BY <1>1, <2>1
    <2>5. j + 2 <= Len(t) => u[i + 2] = t[j + 2] /\ u[i + 1] = t[j + 1] /\ i + 2 <= Len(u)
      BY <1>1, <2>1
    <2>6. u[i] = 224 => i + 1 <= Len(u) /\ u[i + 1] \notin {224, 225}
      <3> HAVE u[i] = 224
      <3>1. j + 1 <= Len(t) /\ t[j + 1] \notin {224, 225}
        BY <2>2, <2>3, Zenon
      <3>2. u[i + 1] = t[j + 1] /\ i + 1 <= Len(u)
        BY <2>4, <3>1, Zenon
      <3> QED
        BY <3>1, <3>2, Zenon
    <2>7. u[i] = 225 => i + 2 <= Len(u) /\ u[i + 1] \in {29, 157} /\ u[i + 2] \in {69, 197}
      <3> HAVE u[i] = 225
      <3>1. j + 2 <= Len(t) /\ t[j + 1] \in {29, 157} /\ t[j + 2] \in {69, 197}
        BY <2>2, <2>3, Zenon
      <3>2. u[i + 2] = t[j + 2] /\ u[i + 1] = t[j + 1] /\ i + 2 <= Len(u)
        BY <2>5, <3>1, Zenon
      <3>3. u[i + 1] \in {29, 157}
        BY <3>1, <3>2
      <3>4. u[i + 2] \in {69, 197}
        BY <3>1, <3>2
      <3> QED
        BY <3>2, <3>3, <3>4, Zenon
    <2>8. u[i] \notin StrayBytes
      BY <2>2, <2>3, Zenon
    <2> QED
      BY <2>6, <2>7, <2>8, Zenon
  <1>4. \A i \in 1 .. Len(u) : i \in 1 .. Len(s) \/ i \in Len(s) + 1 .. Len(s) + Len(t)
    BY <1>1
  <1>5. \A i \in 1 .. Len(u) : Whole(i)
    <2> HIDE DEF Whole
    <2> QED
      BY <1>2, <1>3, <1>4, Zenon
  <1>6. WellFormed(u)
    BY <1>5, Zenon DEF WellFormed
  <1> QED
    BY <1>6

LEMMA WellFormedTail ==
    ASSUME NEW s \in Seq(Byte), WellFormed(s), s # << >>
    PROVE  WellFormed(Tail(s)) /\ Head(s) \notin StrayBytes
  <1>1. /\ Len(s) \in Nat \ {0} /\ Len(Tail(s)) = Len(s) - 1 /\ Head(s) = s[1]
        /\ \A i \in 1 .. Len(Tail(s)) : Tail(s)[i] = s[i + 1]
    BY HeadTailProperties, LenProperties, EmptySeq
  <1> PICK u : u = Tail(s)
    OBVIOUS
  <1>2. ASSUME NEW i \in 1 .. Len(u)
        PROVE  /\ u[i] \notin StrayBytes
               /\ u[i] = 224 => i + 1 <= Len(u) /\ u[i + 1] \notin {224, 225}
               /\ u[i] = 225 => i + 2 <= Len(u) /\ u[i + 1] \in {29, 157} /\ u[i + 2] \in {69, 197}
    <2>1. PICK j \in 1 .. Len(s) : j = i + 1
      BY <1>1
    <2>2. /\ s[j] \notin StrayBytes
          /\ s[j] = 224 => j + 1 <= Len(s) /\ s[j + 1] \notin {224, 225}
          /\ s[j] = 225 => j + 2 <= Len(s) /\ s[j + 1] \in {29, 157} /\ s[j + 2] \in {69, 197}
      BY DEF WellFormed
    <2>3. u[i] = s[j]
      BY <1>1, <2>1
    <2>4. j + 1 <= Len(s) => u[i + 1] = s[j + 1] /\ i + 1 <= Len(u)
      BY <1>1, <2>1
    <2>5. j + 2 <= Len(s) => u[i + 2] = s[j + 2] /\ u[i + 1] = s[j + 1] /\ i + 2 <= Len(u)
      BY <1>1, <2>1
    <2> QED
      BY <2>2, <2>3, <2>4, <2>5, SMTT(30)
  <1>3. s[1] \notin StrayBytes
    BY <1>1 DEF WellFormed
  <1>4. WellFormed(u)
    BY <1>2 DEF WellFormed
  <1> QED
    BY <1>1, <1>3, <1>4

(* What a key sends is whole: no prefix without what it announces. *)
LEMMA KeysWellFormed ==
    ASSUME NEW k \in ModelledKeys, NEW held
    PROVE  WellFormed(PressBytes(k, held)) /\ WellFormed(ReleaseBytes(k, held))
  <1>1. ASSUME NEW b \in 1 .. 218 PROVE WellFormed(<<b>>) /\ WellFormed(<<224, b>>)
    BY DEF WellFormed, StrayBytes
  <1>2. CASE k = KEY.PAUSE
    <2>1. Make(k) = <<225, 29, 69, 225, 157, 197>>
      BY <1>2, MakeRange
    <2>2. ~Bracketed(k, held)
      BY <1>2, KeyNumbers DEF Bracketed
    <2>3. WellFormed(<<225, 29, 69, 225, 157, 197>>)
      BY DEF WellFormed, StrayBytes
    <2>4. WellFormed(<<224, 70, 224, 198>>) /\ WellFormed(<< >>)
      BY DEF WellFormed, StrayBytes
    <2> QED
      BY <1>2, <2>1, <2>2, <2>3, <2>4 DEF PressBytes, ReleaseBytes
  <1>3. CASE k # KEY.PAUSE
    <2>1. PICK b \in 1 .. 90 : Make(k) = <<b>> \/ Make(k) = <<224, b>>
      BY <1>3, MakeRange
    <2>2. BreakOf(k) = <<b + 128>> \/ BreakOf(k) = <<224, b + 128>>
      <3>1. CASE Make(k) = <<b>>
        BY <3>1 DEF BreakOf
      <3>2. CASE Make(k) = <<224, b>>
        BY <3>2 DEF BreakOf
      <3> QED
        BY <2>1, <3>1, <3>2
    <2>3. b \in 1 .. 218 /\ b + 128 \in 1 .. 218 /\ 42 \in 1 .. 218 /\ 170 \in 1 .. 218
      OBVIOUS
    <2>4. /\ <<b>> \in Seq(Byte) /\ <<224, b>> \in Seq(Byte)
          /\ <<b + 128>> \in Seq(Byte) /\ <<224, b + 128>> \in Seq(Byte)
          /\ <<224, 42>> \in Seq(Byte) /\ <<224, 170>> \in Seq(Byte)
      BY DEF Byte
    <2>5. /\ Make(k) \in Seq(Byte) /\ BreakOf(k) \in Seq(Byte)
      BY <2>1, <2>2, <2>4
    <2>6. /\ WellFormed(Make(k)) /\ WellFormed(BreakOf(k))
      <3>1. /\ WellFormed(<<b>>) /\ WellFormed(<<224, b>>)
            /\ WellFormed(<<b + 128>>) /\ WellFormed(<<224, b + 128>>)
        BY <1>1, <2>3
      <3>2. WellFormed(Make(k))
        BY <2>1, <3>1, Zenon
      <3>3. WellFormed(BreakOf(k))
        BY <2>2, <3>1, Zenon
      <3> QED
        BY <3>2, <3>3
    <2>7. WellFormed(<<224, 42>>) /\ WellFormed(<<224, 170>>)
      BY <1>1, <2>3
    <2>8. WellFormed(<<224, 42>> \o Make(k)) /\ WellFormed(BreakOf(k) \o <<224, 170>>)
      BY <2>4, <2>5, <2>6, <2>7, WellFormedConcat
    <2> QED
      BY <1>3, <2>6, <2>8 DEF PressBytes, ReleaseBytes
  <1> QED
    BY <1>2, <1>3

LEMMA CalmBefore ==
    ASSUME faults \in Nat, faults' \in {faults, faults + 1} PROVE Calm' => Calm
  BY DEF Calm

(* The parts of RunLeds that a step which leaves kb and cpu alone keeps. *)
LEMMA LedsKept ==
    ASSUME LedsInv, kb.ready, UNCHANGED <<kb, cpu>>, faults \in Nat, faults' \in {faults, faults + 1},
           dev'.leds = dev.leds, dev'.await = dev.await, Calm /\ Exchange /\ Calm' => Exchange'
    PROVE  LedsInv'
  <1>1. RunLeds /\ (Calm' => Calm)
    BY CalmBefore DEF LedsInv
  <1>2. (WritesLeds' <=> WritesLeds) /\ LedsOf(kb)' = LedsOf(kb)
    BY DEF WritesLeds
  <1>3. faults' = 0 => faults = 0
    OBVIOUS
  <1>4. RunLeds'
    BY <1>1, <1>2, <1>3 DEF RunLeds
  <1> QED
    BY <1>2, <1>4 DEF LedsInv

LEMMA LedsRunDeliver ==
    ASSUME Types, LedsInv, kb.ready, Deliver PROVE LedsInv'
  <1>0. /\ DOMAIN ps2 = Ps2Fields /\ DOMAIN dev = DevFields /\ dev.q \in Seq(Byte) /\ faults \in Nat
        /\ cpu.kind \in {"cmd", "data"} /\ RunLeds
    BY KeyboardAssumption DEF Types, Ps2Types, DevTypes, CpuTypes, LedsInv
  <1>1. /\ UNCHANGED <<kb, cpu>> /\ faults' \in {faults, faults + 1} /\ ~ps2.full /\ ps2.on
    BY DEF Deliver, Fault
  <1>2. dev'.leds = dev.leds /\ dev'.await = dev.await
    BY <1>0 DEF Deliver, DevFields
  <1>3. ASSUME Calm, Exchange, Calm' PROVE Exchange'
    <2>1. CASE /\ dev.rep # << >>
               /\ ps2' = [ps2 EXCEPT !.full = TRUE, !.data = Head(dev.rep), !.irq = ps2.int]
               /\ dev' = [dev EXCEPT !.rep = Tail(@)] /\ UNCHANGED faults
      <3>1. /\ ps2'.full /\ ps2'.data = Head(dev.rep) /\ dev'.rep = Tail(dev.rep) /\ dev'.q = dev.q
        BY <1>0, <2>1 DEF Ps2Fields, DevFields
      <3>2. One(ACK) /\ cpu.pc # "wr" /\ (cpu.pc = "leds" => ~cpu.ok /\ faults > 0)
        BY <1>1, <1>3, <2>1 DEF Exchange, None
      <3>3. Head(<<ACK>>) = ACK /\ Tail(<<ACK>>) = << >>
        OBVIOUS
      <3>4. dev.rep = <<ACK>>
        BY <1>1, <3>2 DEF One
      <3>5. One(ACK)'
        BY <3>1, <3>3, <3>4 DEF One
      <3> QED
        BY <1>1, <1>3, <2>1, <3>1, <3>2, <3>5 DEF Exchange
    <2>2. CASE /\ dev.q # << >> /\ dev.rep = << >> /\ (dev.await = 0 \/ cpu.pc = "idle") /\ UNCHANGED faults
               /\ ps2' = [ps2 EXCEPT !.full = TRUE, !.data = Head(dev.q), !.irq = ps2.int]
               /\ dev' = [dev EXCEPT !.q = Tail(@)]
      <3>1. /\ ps2'.full /\ ps2'.data = Head(dev.q) /\ dev'.rep = << >> /\ dev'.q = Tail(dev.q)
        BY <1>0, <2>2 DEF Ps2Fields, DevFields
      <3>2. WellFormed(Tail(dev.q)) /\ Head(dev.q) \notin StrayBytes
        BY <1>0, <1>3, <2>2, WellFormedTail DEF Exchange
      <3>3. None /\ ~One(ACK)
        <4>1. <<ACK>> # << >>
          OBVIOUS
        <4> QED
          BY <1>1, <2>2, <4>1 DEF None, One
      <3>4. cpu.pc \notin {"wr", "rd", "leds"}
        <4>1. cpu.pc # "rd"
          BY <1>3, <3>3 DEF Exchange
        <4>2. cpu.pc # "leds"
          BY <1>0, <1>3, <2>2, <3>3 DEF Exchange, RunLeds
        <4>3. cpu.pc = "wr" => cpu.kind = "data" /\ cpu.then = "key"
          BY <1>0, <1>1, <1>3 DEF Exchange, RunLeds
        <4>4. cpu.pc # "wr"
          BY <2>2, <4>3 DEF LedsInv, WritesLeds
        <4> QED
          BY <4>1, <4>2, <4>4
      <3> QED
        BY <1>1, <3>1, <3>2, <3>4 DEF Exchange
    <2>3. ~Fault("early")
      BY <1>0, <1>1, <1>3 DEF Fault, Calm
    <2> QED
      BY <2>1, <2>2, <2>3 DEF Deliver
  <1> QED
    BY <1>0, <1>1, <1>2, <1>3, LedsKept

LEMMA LedsRunUser ==
    ASSUME Types, LedsInv, kb.ready, NEW k \in Keys, PressKey(k) \/ ReleaseKey(k) PROVE LedsInv'
  <1>0. /\ DOMAIN dev = DevFields /\ dev.q \in Seq(Byte) /\ faults \in Nat /\ k \in ModelledKeys
    BY KeyboardAssumption DEF Types, DevTypes
  <1>1. UNCHANGED <<kb, cpu, ps2, faults>>
    BY DEF PressKey, ReleaseKey
  <1>2. PICK held : \/ dev' = [dev EXCEPT !.q = @ \o PressBytes(k, held)]
                    \/ dev' = [dev EXCEPT !.q = @ \o ReleaseBytes(k, held)]
    BY DEF PressKey, ReleaseKey
  <1>3. PICK s \in Seq(Byte) : WellFormed(s) /\ dev' = [dev EXCEPT !.q = @ \o s]
    <2>1. /\ PressBytes(k, held) \in Seq(Byte) /\ ReleaseBytes(k, held) \in Seq(Byte)
          /\ WellFormed(PressBytes(k, held)) /\ WellFormed(ReleaseBytes(k, held))
      BY <1>0, KeyBytes, KeysWellFormed
    <2> QED
      BY <1>2, <2>1, Zenon
  <1>4. dev'.leds = dev.leds /\ dev'.await = dev.await /\ dev'.rep = dev.rep /\ dev'.q = dev.q \o s
    BY <1>0, <1>3 DEF DevFields
  <1>5. ASSUME Exchange PROVE Exchange'
    <2>1. WellFormed(dev.q \o s)
      BY <1>0, <1>3, <1>5, WellFormedConcat DEF Exchange
    <2> QED
      BY <1>1, <1>4, <1>5, <2>1 DEF Exchange, None, One
  <1> QED
    BY <1>0, <1>1, <1>4, <1>5, LedsKept

LEMMA LedsRunWrite ==
    ASSUME Types, LedsInv, OnlyDelays, kb.ready, kb_wrport PROVE LedsInv'
  <1>0. /\ DOMAIN ps2 = Ps2Fields /\ DevTypes(dev) /\ CpuTypes(cpu) /\ RunLeds /\ cpu.pc = "wr"
        /\ cpu.byte \in Byte /\ kb.leds \in 0 .. 7
    BY DEF Types, Ps2Types, CpuTypes, KbTypes, LedsInv, kb_wrport
  <1>1. /\ UNCHANGED kb /\ cpu' = Goto(cpu, "rd") /\ dev' = Takes(dev, cpu.byte) /\ UNCHANGED faults
        /\ ps2' = [ps2 EXCEPT !.on = TRUE]
    <2>1. ~Fault("lost") /\ ~Fault("nakdata") /\ ~Fault("nak")
      BY DEF Fault, OnlyDelays
    <2> QED
      BY <2>1 DEF kb_wrport, Goto
  <1>2. /\ cpu'.pc = "rd" /\ cpu'.kind = cpu.kind /\ cpu'.then = cpu.then /\ cpu'.byte = cpu.byte
        /\ ps2'.full = ps2.full /\ ps2'.irq = ps2.irq /\ ps2'.data = ps2.data
    BY <1>0, <1>1, GotoIs DEF Ps2Fields
  <1>3. Taken(dev', dev, cpu.byte)
    BY <1>0, <1>1, TakesIs
  <1>4. \/ cpu.kind = "cmd" /\ cpu.then = "leds" /\ cpu.byte = 237
        \/ cpu.kind = "data" /\ cpu.then = "key"
    BY <1>0 DEF RunLeds
  <1>5. /\ dev'.leds = kb.leds /\ dev'.q = dev.q /\ dev'.rep = dev.rep \o <<ACK>>
        /\ cpu.kind = "cmd" => dev'.await = 237
    <2>1. CASE cpu.kind = "cmd" /\ cpu.then = "leds" /\ cpu.byte = 237
      BY <1>3, <2>1 DEF Taken, LedsInv, WritesLeds
    <2>2. CASE cpu.kind = "data" /\ cpu.then = "key"
      <3>1. dev.await = 237 /\ cpu.byte = kb.leds
        BY <1>0, <2>2 DEF LedsInv, WritesLeds
      <3>2. cpu.byte < 237 /\ cpu.byte # 245
        BY <1>0, <3>1
      <3> QED
        BY <1>3, <2>2, <3>1, <3>2, SMTT(60) DEF Taken
    <2> QED
      BY <1>4, <2>1, <2>2
  <1>6. ASSUME Exchange PROVE Exchange'
    <2>1. None
      BY <1>0, <1>6 DEF Exchange
    <2>2. << >> \o <<ACK>> = <<ACK>>
      OBVIOUS
    <2>3. One(ACK)'
      BY <1>2, <1>5, <2>1, <2>2 DEF None, One
    <2> QED
      BY <1>2, <1>5, <1>6, <2>3 DEF Exchange
  <1>7. RunLeds'
    <2>1. Calm' => Exchange'
      BY <1>0, <1>1, <1>6 DEF RunLeds, Calm
    <2>2. faults' = 0 /\ cpu'.kind = "data" => kb'.leds = LedsOf(kb')
      BY <1>0, <1>1, <1>2 DEF RunLeds
    <2> QED
      BY <1>0, <1>1, <1>2, <1>4, <1>5, <2>1, <2>2 DEF RunLeds
  <1> QED
    BY <1>1, <1>2, <1>5, <1>7 DEF LedsInv, WritesLeds

LEMMA LedsRunRead ==
    ASSUME Types, LedsInv, kb.ready, kb_rdport PROVE LedsInv'
  <1>0. /\ DOMAIN ps2 = Ps2Fields /\ CpuTypes(cpu) /\ RunLeds /\ cpu.pc = "rd"
        /\ ps2.data \in Byte /\ 0 \in Byte /\ faults \in Nat /\ cpu.left \in Nat
        /\ cpu.kind \in {"cmd", "data"} /\ ~WritesLeds /\ dev.leds = kb.leds
    BY KeyboardAssumption DEF Types, Ps2Types, CpuTypes, LedsInv, kb_rdport, Byte, WritesLeds
  <1>1. UNCHANGED <<kb, dev>> /\ faults' \in {faults, faults + 1}
    BY DEF kb_rdport, Fault
  <1>2. PICK r \in Byte :
          /\ cpu' = Answered(cpu, r)
          /\ \/ ps2.full /\ r = ps2.data /\ ps2' = [ps2 EXCEPT !.full = FALSE]
             \/ /\ ~ps2.full /\ r = 0 /\ UNCHANGED ps2
                /\ dev.rep = << >> \/ faults' = faults + 1
    BY <1>0 DEF kb_rdport, Fault
  <1>3. AnsweredAs(cpu', cpu, r)
    BY <1>0, <1>2, AnsweredIs
  <1>4. \/ cpu.kind = "cmd" /\ cpu.then = "leds" /\ cpu.byte = 237 /\ dev.await = 237
        \/ cpu.kind = "data" /\ cpu.then = "key"
    BY <1>0 DEF RunLeds
  <1>5. /\ cpu'.kind = cpu.kind /\ cpu'.then = cpu.then /\ cpu'.byte = cpu.byte
        /\ cpu.kind = "data" => cpu'.pc = "key"
        /\ cpu.kind = "cmd" => cpu'.pc \in {"wr", "leds"}
        /\ cpu.kind = "cmd" /\ r = ACK => cpu'.pc = "leds" /\ cpu'.ok = TRUE
        /\ cpu.kind = "cmd" /\ r = 0 => cpu'.pc = "leds" /\ cpu'.ok = FALSE
    BY <1>0, <1>3, <1>4, Numbers DEF AnsweredAs
  <1>6. ASSUME Exchange PROVE Exchange'
    <2>1. One(ACK)
      BY <1>0, <1>6 DEF Exchange
    <2>2. CASE ps2.full
      <3>1. r = ACK /\ ps2' = [ps2 EXCEPT !.full = FALSE] /\ dev.rep = << >> /\ ps2.data = ACK
        BY <1>2, <2>1, <2>2 DEF One
      <3>2. ~ps2'.full /\ ps2'.data = ACK /\ None'
        BY <1>0, <1>1, <3>1 DEF Ps2Fields, None
      <3>3. cpu'.pc \in {"leds", "key"} /\ (cpu'.pc = "leds" => cpu'.ok)
        BY <1>4, <1>5, <3>1
      <3> QED
        BY <1>1, <1>6, <3>2, <3>3, Numbers DEF Exchange, StrayBytes
    <2>3. CASE ~ps2.full
      <3>1. dev.rep # << >>
        <4>1. <<ACK>> # << >>
          OBVIOUS
        <4> QED
          BY <2>1, <2>3, <4>1 DEF One
      <3>2. r = 0 /\ UNCHANGED ps2 /\ faults' > 0
        BY <1>0, <1>2, <2>3, <3>1
      <3>3. One(ACK)'
        BY <1>1, <2>1, <3>2 DEF One
      <3>4. cpu'.pc \in {"leds", "key"} /\ (cpu'.pc = "leds" => ~cpu'.ok)
        BY <1>4, <1>5, <3>2
      <3> QED
        BY <1>1, <1>6, <3>2, <3>3, <3>4 DEF Exchange
    <2> QED
      BY <2>2, <2>3
  <1>7. RunLeds'
    <2>1. Calm' => Exchange'
      BY <1>0, <1>1, <1>6, CalmBefore DEF RunLeds
    <2>2. faults' = 0 /\ cpu.kind = "data" => kb'.leds = LedsOf(kb')
      BY <1>0, <1>1 DEF RunLeds
    <2> QED
      BY <1>0, <1>1, <1>4, <1>5, <2>1, <2>2 DEF RunLeds
  <1> QED
    BY <1>0, <1>1, <1>4, <1>5, <1>7 DEF LedsInv, WritesLeds

LEMMA LedsRunSet ==
    ASSUME Types, RunInv, LedsInv, kb.ready, kb_setleds PROVE LedsInv'
  <1>0. /\ DOMAIN kb = KbFields /\ CpuTypes(cpu) /\ RunLeds /\ cpu.pc = "leds" /\ cpu.ret = "key"
        /\ UNCHANGED <<ps2, dev, faults>> /\ dev.leds = kb.leds
    BY DEF Types, KbTypes, LedsInv, kb_setleds, RunInv, Heading, WritesLeds
  <1>1. CASE ~cpu.ok
    <2>1. cpu' = Goto(cpu, "key") /\ UNCHANGED kb
      BY <1>0, <1>1 DEF kb_setleds
    <2>2. cpu'.pc = "key"
      BY <1>0, <2>1, GotoIs
    <2>3. Calm => Exchange' /\ faults > 0
      BY <1>0, <1>1, <2>2 DEF RunLeds, Exchange, One
    <2>4. faults # 0
      BY <2>3 DEF Calm
    <2>5. RunLeds'
      BY <1>0, <2>1, <2>2, <2>3, <2>4 DEF RunLeds, Calm
    <2> QED
      BY <1>0, <2>1, <2>2, <2>5 DEF LedsInv, WritesLeds
  <1>2. CASE cpu.ok
    <2>1. cpu' = Write(cpu, LedsOf(kb), "key") /\ kb' = [kb EXCEPT !.leds = LedsOf(kb)]
      BY <1>0, <1>2 DEF kb_setleds
    <2>2. LedsOf(kb) \in Byte
      BY LedsOfRange
    <2>3. cpu'.pc = "wr" /\ cpu'.kind = "data" /\ cpu'.byte = LedsOf(kb) /\ cpu'.then = "key"
      BY <1>0, <2>1, <2>2, WriteIs
    <2>4. /\ kb'.leds = LedsOf(kb) /\ kb'.ready /\ kb'.scset = kb.scset
          /\ kb'.capslk = kb.capslk /\ kb'.numlk = kb.numlk /\ kb'.scrlk = kb.scrlk
      BY <1>0, <2>1 DEF KbFields
    <2>5. LedsOf(kb') = LedsOf(kb)
      BY <2>4, LedsOfLocks
    <2>6. Calm => Exchange'
      BY <1>0, <1>2, <2>3 DEF RunLeds, Exchange, None
    <2>7. RunLeds' /\ dev'.await = 237
      BY <1>0, <1>2, <2>3, <2>4, <2>5, <2>6 DEF RunLeds, Calm
    <2> QED
      BY <2>3, <2>4, <2>7 DEF LedsInv, WritesLeds
  <1> QED
    BY <1>1, <1>2

LEMMA LedsRunHandle ==
    ASSUME Types, LedsInv, kb.ready, HandleKey PROVE LedsInv'
  <1>0. /\ DOMAIN kb = KbFields /\ DOMAIN ps2 = Ps2Fields /\ RunLeds /\ cpu.pc = "key"
        /\ UNCHANGED <<dev, faults>> /\ dev.leds = kb.leds
    BY DEF Types, KbTypes, Ps2Types, LedsInv, HandleKey, WritesLeds
  <1>1. PICK p \in {"idle", "crash", "reset"} : cpu' = [Idle EXCEPT !.pc = p]
    BY Zenon DEF HandleKey, sysrq
  <1>2. PICK o : ps2' = [ps2 EXCEPT !.on = o]
    BY Zenon DEF HandleKey
  <1>3. PICK k, a, c, t, g :
          /\ \E m : k = [kb EXCEPT !.mods = m]
          /\ kb' = [k EXCEPT !.altchar = a, !.crashkey = c, !.term = t, !.pollchar = g]
    BY KeyHandled
  <1>4. PICK m : k = [kb EXCEPT !.mods = m]
    BY <1>3
  <1>5. /\ DOMAIN k = KbFields /\ k.ready = kb.ready /\ k.leds = kb.leds /\ k.scset = kb.scset
        /\ k.capslk = kb.capslk /\ k.numlk = kb.numlk /\ k.scrlk = kb.scrlk
    BY <1>0, <1>4 DEF KbFields
  <1>6. /\ kb'.ready = kb.ready /\ kb'.leds = kb.leds /\ kb'.scset = kb.scset
        /\ kb'.capslk = kb.capslk /\ kb'.numlk = kb.numlk /\ kb'.scrlk = kb.scrlk
    BY <1>3, <1>5 DEF KbFields
  <1>7. LedsOf(kb') = LedsOf(kb)
    BY <1>6, LedsOfLocks
  <1>8. cpu'.pc = p
    BY <1>1, IdleIs
  <1>9. ps2'.full = ps2.full /\ ps2'.data = ps2.data /\ ps2'.irq = ps2.irq
    BY <1>0, <1>2 DEF Ps2Fields
  <1>10. Calm => Exchange'
    BY <1>0, <1>8, <1>9 DEF RunLeds, Exchange, None, One
  <1>11. RunLeds'
    BY <1>0, <1>6, <1>7, <1>8, <1>10 DEF RunLeds, Calm
  <1> QED
    BY <1>0, <1>6, <1>8, <1>11 DEF LedsInv, WritesLeds

(* What Decode does to the driver's state, whatever the key. *)
LEMMA DecodeIs ==
    ASSUME Types, Decode(ps2.data)
    PROVE  /\ kb'.ready = kb.ready /\ kb'.leds = kb.leds /\ kb'.scset = kb.scset
           /\ kb'.e0 = FALSE /\ kb'.e1 = (kb.e1 /\ KeyOf(kb.e0, ps2.data % 128) # KEY.NUMLK)
           /\ kb.scset # 1 \/ (kb.e0 /\ kb.e1) => cpu'.pc = "panic"
           /\ ~(kb.scset # 1 \/ (kb.e0 /\ kb.e1)) =>
                /\ kb'.leds = LedsOf(kb') => cpu'.pc = "key"
                /\ kb'.leds # LedsOf(kb') =>
                     cpu'.pc = "wr" /\ cpu'.kind = "cmd" /\ cpu'.byte = 237 /\ cpu'.then = "leds"
  <1>0. DOMAIN kb = KbFields /\ CpuTypes(cpu) /\ kb.e0 \in BOOLEAN /\ kb.e1 \in BOOLEAN
    BY DEF Types, KbTypes
  <1> DEFINE raw == KeyOf(kb.e0, ps2.data % 128)
             key == IF kb.e1 /\ raw = KEY.NUMLK THEN KEY.PAUSE
                    ELSE IF kb.numlk THEN raw ELSE Unlocked(raw)
             k1 == Prefixed(kb, ps2.data, raw)
             k2 == IF ps2.data >= 128 THEN k1 ELSE Toggled(k1, key)
             c1 == [cpu EXCEPT !.key = key, !.rel = ps2.data >= 128]
  <1>1. /\ DOMAIN k1 = KbFields /\ k1.ready = kb.ready /\ k1.leds = kb.leds /\ k1.scset = kb.scset
        /\ k1.e0 = FALSE /\ k1.e1 = (kb.e1 /\ raw # KEY.NUMLK)
    <2> HIDE DEF raw
    <2> QED
      BY <1>0 DEF Prefixed, KbFields
  <1>2. /\ k2.ready = kb.ready /\ k2.leds = kb.leds /\ k2.scset = kb.scset
        /\ k2.e0 = FALSE /\ k2.e1 = (kb.e1 /\ raw # KEY.NUMLK)
    <2> HIDE DEF k1, key, raw
    <2> QED
      BY <1>1 DEF Toggled, KbFields
  <1>3. CpuTypes(c1)
    <2> HIDE DEF key
    <2> QED
      BY <1>0 DEF CpuTypes, CpuFields
  <1>4. /\ kb' = k2
        /\ cpu' = IF kb.scset # 1 \/ (kb.e0 /\ kb.e1) THEN Goto(cpu, "panic")
                  ELSE update_leds(k2, c1, "key")
    BY DEF Decode
  <1>5. kb.scset # 1 \/ (kb.e0 /\ kb.e1) => cpu'.pc = "panic"
    <2> HIDE DEF k2, c1
    <2> QED
      BY <1>0, <1>4, GotoIs
  <1>6. ASSUME ~(kb.scset # 1 \/ (kb.e0 /\ kb.e1))
        PROVE  /\ k2.leds = LedsOf(k2) => cpu'.pc = "key"
               /\ k2.leds # LedsOf(k2) =>
                     cpu'.pc = "wr" /\ cpu'.kind = "cmd" /\ cpu'.byte = 237 /\ cpu'.then = "leds"
    <2> HIDE DEF k2, c1
    <2>1. cpu' = update_leds(k2, c1, "key")
      BY <1>4, <1>6
    <2> QED
      BY <1>3, <2>1, update_ledsIs, Numbers
  <1> HIDE DEF k2
  <1> QED
    BY <1>2, <1>4, <1>5, <1>6

LEMMA LedsRunInterrupt ==
    ASSUME Types, LedsInv, kb.ready, kb_interrupt PROVE LedsInv'
  <1>0. /\ DOMAIN kb = KbFields /\ DOMAIN ps2 = Ps2Fields /\ RunLeds /\ cpu.pc = "idle" /\ ps2.irq
        /\ UNCHANGED <<dev, faults>> /\ dev.leds = kb.leds /\ kb.scset = 1 /\ ACK = 250
        /\ kb.numlk \in BOOLEAN
    BY Numbers DEF Types, KbTypes, Ps2Types, LedsInv, RunLeds, kb_interrupt, WritesLeds
  <1>1. PICK o \in BOOLEAN : ps2' = [ps2 EXCEPT !.irq = FALSE, !.full = FALSE, !.on = o]
    BY Zenon DEF kb_interrupt, Stray, Prefix, Decode
  <1>2. ~ps2'.full /\ ~ps2'.irq /\ ps2'.data = ps2.data
    BY <1>0, <1>1 DEF Ps2Fields
  <1>3. (Calm => Exchange) /\ (Calm' <=> Calm)
    BY <1>0 DEF RunLeds, Calm
  <1>4. ASSUME Exchange PROVE IF ps2.data \in StrayBytes THEN None' \/ One(ACK)' ELSE None'
    <2>1. None \/ One(ACK) \/ (ps2.full /\ dev.rep = << >> /\ ps2.data \notin StrayBytes)
      BY <1>0, <1>4 DEF Exchange
    <2>2. ps2.data \notin StrayBytes => ps2.full
      BY <1>0, <1>4 DEF Exchange
    <2>3. dev' = dev
      BY <1>0
    <2>4. CASE ps2.full
      BY <1>2, <2>1, <2>3, <2>4 DEF None, One
    <2>5. CASE ~ps2.full
      BY <1>2, <2>1, <2>2, <2>3, <2>5 DEF None, One
    <2> QED
      BY <2>4, <2>5
  <1>5. CASE Stray(ps2.data)
    <2>1. UNCHANGED <<kb, cpu>> /\ ps2.data \in StrayBytes
      BY <1>5, Numbers DEF Stray, StrayBytes
    <2>2. Exchange => Exchange'
      BY <1>0, <1>2, <1>4, <2>1 DEF Exchange
    <2>3. faults \in Nat
      BY KeyboardAssumption DEF Types
    <2> QED
      BY <1>0, <2>1, <2>2, <2>3, LedsKept
  <1>6. CASE Prefix(ps2.data)
    <2>1. /\ UNCHANGED cpu /\ kb'.ready /\ kb'.leds = kb.leds /\ kb'.scset = kb.scset
          /\ kb'.capslk = kb.capslk /\ kb'.numlk = kb.numlk /\ kb'.scrlk = kb.scrlk
      BY <1>0, <1>6 DEF Prefix, KbFields
    <2>2. LedsOf(kb') = LedsOf(kb)
      BY <2>1, LedsOfLocks
    <2>3. Exchange => Exchange'
      <3>1. ps2.data \notin StrayBytes
        BY <1>6 DEF Prefix, StrayBytes
      <3> QED
        BY <1>0, <1>2, <1>4, <2>1, <3>1 DEF Exchange
    <2>4. RunLeds'
      BY <1>0, <1>3, <2>1, <2>2, <2>3 DEF RunLeds
    <2> QED
      BY <1>0, <2>1, <2>4 DEF LedsInv, WritesLeds
  <1>7. CASE Decode(ps2.data)
    <2>1. /\ kb'.ready = kb.ready /\ kb'.leds = kb.leds /\ kb'.scset = kb.scset
          /\ \/ cpu'.pc = "panic"
             \/ cpu'.pc = "key" /\ kb'.leds = LedsOf(kb')
             \/ cpu'.pc = "wr" /\ cpu'.kind = "cmd" /\ cpu'.byte = 237 /\ cpu'.then = "leds"
      BY <1>7, DecodeIs
    <2>2. ~ps2'.on
      BY <1>0, <1>7 DEF Decode, Ps2Fields
    <2>3. ps2.data \notin StrayBytes
      BY <1>7, Numbers DEF Decode, StrayBytes
    <2>4. Exchange => Exchange'
      BY <1>0, <1>2, <1>4, <2>1, <2>2, <2>3 DEF Exchange
    <2>5. RunLeds'
      BY <1>0, <1>3, <2>1, <2>4 DEF RunLeds
    <2> QED
      BY <1>0, <2>1, <2>5 DEF LedsInv, WritesLeds
  <1> QED
    BY <1>5, <1>6, <1>7 DEF kb_interrupt

LEMMA LedsInit == Init => LedsInv
  <1> SUFFICES ASSUME Init PROVE LedsInv
    OBVIOUS
  <1>1. /\ ~kb.ready /\ cpu.pc = "boot" /\ dev.await = 0 /\ dev.leds = 0 /\ kb.leds = 0 /\ ~kb.e0 /\ ~kb.e1
    BY IdleIs DEF Init
  <1> QED
    BY <1>1 DEF LedsInv, BootLeds, WritesLeds, Heading

LEMMA LedsStep ==
    ASSUME OnlyRefuses, OnlyDelays, Types, SetInv, LedsInv, [Next]_vars PROVE LedsInv'
  <1>0. faults \in Nat /\ DOMAIN kb = KbFields
    BY KeyboardAssumption DEF Types, KbTypes
  <1>1. CASE UNCHANGED vars
    BY <1>1 DEF vars, LedsInv, BootLeds, RunLeds, Exchange, WritesLeds, Heading, Calm, None, One
  <1>2. CASE kb.ready /\ Next
    <2>0. RunInv /\ cpu.pc \in {"wr", "rd", "idle", "leds", "key", "panic", "reset", "crash"}
      BY <1>2 DEF SetInv, RunInv, Heading
    <2>1. ~init_ps2 /\ ~RewriteConfig /\ ~ConfigureKeyboard /\ ~EnableKeyboard /\ ~FinishInit
      <3>1. ~ConfigureKeyboard
        BY <2>0, ConfigureIs
      <3> QED
        BY <2>0, <3>1 DEF init_ps2, RewriteConfig, EnableKeyboard, FinishInit
    <2>2. CASE kb_getc
      <3>1. /\ UNCHANGED <<cpu, ps2, dev, faults>> /\ (kb' = kb \/ kb' = [kb EXCEPT !.pollchar = 0])
        BY <2>2 DEF kb_getc
      <3>2. /\ kb'.ready /\ kb'.leds = kb.leds /\ kb'.scset = kb.scset
            /\ kb'.capslk = kb.capslk /\ kb'.numlk = kb.numlk /\ kb'.scrlk = kb.scrlk
        BY <1>0, <1>2, <3>1 DEF KbFields
      <3>3. LedsOf(kb') = LedsOf(kb)
        BY <3>2, LedsOfLocks
      <3>4. RunLeds'
        BY <1>2, <3>1, <3>2, <3>3 DEF LedsInv, RunLeds, Exchange, Calm, None, One
      <3> QED
        BY <3>1, <3>2, <3>4 DEF LedsInv, WritesLeds
    <2>3. ASSUME NEW k \in Keys, PressKey(k) \/ ReleaseKey(k) PROVE LedsInv'
      BY <1>2, <2>3, LedsRunUser
    <2> QED
      BY <1>2, <2>0, <2>1, <2>2, <2>3, LedsRunDeliver, LedsRunWrite, LedsRunRead, LedsRunSet,
         LedsRunInterrupt, LedsRunHandle DEF Next, Driver
  <1>3. CASE ~kb.ready /\ Next
    <2>0. BootInv /\ cpu.pc # "idle" /\ cpu.pc # "key" /\ user.held = {}
      BY <1>3 DEF SetInv, BootInv, Heading, BootLabels, CommandLabels, WriteLabels, ReadLabels
    <2>1. ~kb_interrupt /\ ~HandleKey /\ ~kb_getc /\ \A k \in Keys : ~PressKey(k) /\ ~ReleaseKey(k)
      BY <1>3, <2>0 DEF kb_interrupt, HandleKey, kb_getc, PressKey, ReleaseKey
    <2> QED
      BY <1>3, <2>0, <2>1, LedsConfigure, LedsBootWrite, LedsBootRead, LedsBootDeliver, LedsBootFinish
         DEF Next, Driver
  <1> QED
    BY <1>1, <1>2, <1>3

(* Whatever answers come late, and whatever scancodes come in their place,  *)
(* kb.leds is what the keyboard shows once nothing is on its way, and       *)
(* without a fault it shows the locks: kb_setleds notes the new lights only *)
(* after an ACK, and then the keyboard waits for that very byte.            *)
THEOREM LightsBelieved == OnlyRefuses /\ OnlyDelays => (Spec => []LedsBelieved)
  <1> SUFFICES ASSUME OnlyRefuses, OnlyDelays PROVE Spec => []LedsBelieved
    OBVIOUS
  <1>1. LedsInv => LedsBelieved
    BY DEF LedsInv, RunLeds, WritesLeds, LedsBelieved, Quiet
  <1>2. Types /\ SetInv /\ [Next]_vars => SetInv'
    BY SetStep
  <1>3. Types /\ SetInv /\ LedsInv /\ [Next]_vars => LedsInv'
    BY LedsStep
  <1> QED
    BY <1>1, <1>2, <1>3, SetInit, LedsInit, TypesHold, PTL DEF Spec

-------------------------------------------------------------------------------
(* The prefixes.  While answers only come late no scancode is lost.         *)

OnlyLate == FaultKinds \subseteq {"late"}

LEMMA FollowsMore ==
    ASSUME NEW s \in Seq(Byte), NEW t \in Seq(Byte), NEW e0, NEW e1, Follows(e0, e1, s)
    PROVE  Follows(e0, e1, s \o t)
  <1>1. /\ Len(s) \in Nat /\ Len(t) \in Nat /\ Len(s \o t) = Len(s) + Len(t)
        /\ \A i \in 1 .. Len(s) : (s \o t)[i] = s[i]
    BY ConcatProperties, LenProperties
  <1>2. Len(s) > 0 => (s \o t)[1] = s[1] /\ s \o t # << >>
    BY <1>1
  <1>3. Len(s) > 1 => (s \o t)[2] = s[2] /\ Len(s \o t) > 1
    BY <1>1
  <1>4. s # << >> => Len(s) > 0
    BY <1>1, EmptySeq
  <1>5. Len(s) > 0 => Len(s \o t) > 0
    BY <1>1
  <1> QED
    BY <1>1, <1>2, <1>3, <1>4, <1>5 DEF Follows

(* A byte in front of a sequence. *)
LEMMA InFront ==
    ASSUME NEW d \in Byte, NEW q \in Seq(Byte)
    PROVE  /\ <<d>> \o q \in Seq(Byte) /\ Len(<<d>> \o q) = Len(q) + 1 /\ Len(q) \in Nat
           /\ (<<d>> \o q)[1] = d
           /\ \A i \in 1 .. Len(q) : (<<d>> \o q)[i + 1] = q[i]
  <1>1. <<d>> \in Seq(Byte) /\ Len(<<d>>) = 1 /\ <<d>>[1] = d /\ Len(q) \in Nat
    OBVIOUS
  <1>2. /\ <<d>> \o q \in Seq(Byte) /\ Len(<<d>> \o q) = 1 + Len(q)
        /\ \A i \in 1 .. 1 : (<<d>> \o q)[i] = <<d>>[i]
        /\ \A i \in 1 + 1 .. 1 + Len(q) : (<<d>> \o q)[i] = q[i - 1]
    BY <1>1, ConcatProperties
  <1>3. ASSUME NEW i \in 1 .. Len(q) PROVE (<<d>> \o q)[i + 1] = q[i]
    BY <1>1, <1>2
  <1> QED
    BY <1>1, <1>2, <1>3

LEMMA HeadBack ==
    ASSUME NEW q \in Seq(Byte), q # << >>
    PROVE  <<Head(q)>> \o Tail(q) = q
  <1>1. Head(q) \in Byte /\ Tail(q) \in Seq(Byte) /\ Len(Tail(q)) = Len(q) - 1 /\ Len(q) \in Nat \ {0}
        /\ Head(q) = q[1] /\ \A i \in 1 .. Len(Tail(q)) : Tail(q)[i] = q[i + 1]
    BY HeadTailProperties, LenProperties, EmptySeq
  <1>2. PICK s \in Seq(Byte) : s = <<Head(q)>> \o Tail(q)
    BY <1>1, InFront
  <1>3. /\ Len(s) = Len(Tail(q)) + 1 /\ s[1] = Head(q)
        /\ \A i \in 1 .. Len(Tail(q)) : s[i + 1] = Tail(q)[i]
    BY <1>1, <1>2, InFront
  <1>4. Len(s) = Len(q)
    BY <1>1, <1>3
  <1>5. ASSUME NEW i \in 1 .. Len(q) PROVE s[i] = q[i]
    <2>1. CASE i = 1
      BY <1>1, <1>3, <2>1
    <2>2. CASE i # 1
      <3>1. PICK j \in 1 .. Len(Tail(q)) : i = j + 1
        BY <1>1, <2>2
      <3> QED
        BY <1>1, <1>3, <3>1
    <2> QED
      BY <2>1, <2>2
  <1>6. s = q
    BY <1>4, <1>5, SeqEqual
  <1> QED
    BY <1>2, <1>6

(* A prefix byte is followed by what it announces, and by no other prefix. *)
LEMMA PrefixTaken ==
    ASSUME NEW d \in {224, 225}, NEW q \in Seq(Byte), NEW e0 \in BOOLEAN, NEW e1 \in BOOLEAN,
           WellFormed(<<d>> \o q), Follows(e0, e1, <<d>> \o q)
    PROVE  Follows(e0 \/ d = 224, e1 \/ d = 225, q)
  <1>1. d \in Byte
    BY DEF Byte
  <1>2. PICK s : s = <<d>> \o q
    OBVIOUS
  <1>3. /\ Len(s) = Len(q) + 1 /\ Len(q) \in Nat /\ s[1] = d
        /\ \A i \in 1 .. Len(q) : s[i + 1] = q[i]
    BY <1>1, <1>2, InFront
  <1>4. ~e0 /\ ~e1
    BY <1>2, <1>3 DEF Follows
  <1>5. 1 \in 1 .. Len(s)
    BY <1>3
  <1>6. /\ d = 224 => 1 + 1 <= Len(s) /\ s[1 + 1] \notin {224, 225}
        /\ d = 225 => 1 + 2 <= Len(s) /\ s[1 + 1] \in {29, 157} /\ s[1 + 2] \in {69, 197}
    BY <1>2, <1>3, <1>5 DEF WellFormed
  <1>7. CASE d = 224
    <2>1. Len(q) > 0 /\ q[1] \notin {224, 225}
      BY <1>3, <1>6, <1>7
    <2> QED
      BY <1>4, <1>7, <2>1 DEF Follows
  <1>8. CASE d = 225
    <2>1. Len(q) > 1 /\ q[1] \in {29, 157}
      BY <1>3, <1>6, <1>8
    <2>2. q[2] \in {69, 197}
      <3>1. s[2 + 1] = q[2]
        BY <1>3, <2>1
      <3> QED
        BY <1>6, <1>8, <3>1
    <2> QED
      BY <1>4, <1>8, <2>1, <2>2 DEF Follows
  <1> QED
    BY <1>7, <1>8

(* PAUSE: the code of NUMLK ends what E1 began. *)
LEMMA CodeTaken ==
    ASSUME NEW d \in Byte, NEW q \in Seq(Byte), NEW e0 \in BOOLEAN, NEW e1 \in BOOLEAN,
           Follows(e0, e1, <<d>> \o q),
           NEW g \in BOOLEAN, ~g, NEW f \in BOOLEAN, f => e1 /\ KeyOf(e0, d % 128) # KEY.NUMLK
    PROVE  Follows(g, f, q)
  <1>2. PICK s : s = <<d>> \o q
    OBVIOUS
  <1>3. /\ Len(s) = Len(q) + 1 /\ Len(q) \in Nat /\ s[1] = d
        /\ \A i \in 1 .. Len(q) : s[i + 1] = q[i]
    BY <1>2, InFront
  <1>4. CASE f
    <2>1. ~e0
      BY <1>4 DEF Follows
    <2>2. CASE d \in {69, 197}
      <3>1. d % 128 = 69
        BY <2>2
      <3>2. KeyOf(FALSE, 69) = KEY.NUMLK
        BY KeyNumbers DEF KeyOf, scanmap
      <3>3. KeyOf(e0, d % 128) = KEY.NUMLK
        BY <2>1, <3>1, <3>2
      <3> QED
        BY <3>3 DEF Follows
    <2>3. CASE d \notin {69, 197}
      <3>1. Len(s) > 1 /\ s[2] \in {69, 197}
        BY <1>2, <1>3, <1>4, <2>3 DEF Follows
      <3>2. Len(q) > 0 /\ q[1] \in {69, 197}
        BY <1>3, <3>1
      <3> QED
        BY <3>2 DEF Follows
    <2> QED
      BY <2>2, <2>3
  <1>5. CASE ~f
    BY <1>5 DEF Follows
  <1> QED
    BY <1>4, <1>5

LEMMA CodesKept ==
    ASSUME CodesInv, kb.ready, kb'.e0 = kb.e0, kb'.e1 = kb.e1, Pending' = Pending, cpu'.pc # "panic"
    PROVE  CodesInv'
  BY DEF CodesInv

(* Only an interrupt takes a scancode, and only a key brings one. *)
LEMMA PendingKept ==
    ASSUME Types, RunInv, LedsInv, CodesInv, OnlyLate, kb.ready,
           Deliver \/ kb_getc \/ kb_wrport \/ kb_rdport \/ kb_setleds \/ HandleKey
    PROVE  Pending' = Pending
  <1>0. /\ DOMAIN ps2 = Ps2Fields /\ DevTypes(dev) /\ CpuTypes(cpu) /\ DOMAIN dev = DevFields
        /\ ps2.data \in Byte /\ dev.q \in Seq(Byte) /\ cpu.byte \in Byte /\ ACK = 250
    BY Numbers DEF Types, Ps2Types, DevTypes, CpuTypes
  <1>1. Exchange /\ WellFormed(dev.q)
    BY DEF LedsInv, RunLeds, Calm, OnlyLate, OnlyDelays, Exchange
  <1>3. CASE Deliver
    <2>1. ~ps2.full /\ ~Fault("early") /\ Pending = dev.q
      BY <1>3 DEF Deliver, Fault, OnlyLate, Pending
    <2>2. CASE /\ dev.rep # << >>
               /\ ps2' = [ps2 EXCEPT !.full = TRUE, !.data = Head(dev.rep), !.irq = ps2.int]
               /\ dev' = [dev EXCEPT !.rep = Tail(@)]
      <3>1. One(ACK)
        BY <1>1, <2>1, <2>2 DEF Exchange, None
      <3>2. Head(<<ACK>>) = ACK
        OBVIOUS
      <3>3. dev.rep = <<ACK>>
        BY <2>1, <3>1 DEF One
      <3>4. ps2'.data = 250 /\ dev'.q = dev.q
        BY <1>0, <2>2, <3>2, <3>3 DEF Ps2Fields, DevFields
      <3> QED
        BY <2>1, <3>4 DEF Pending, StrayBytes
    <2>3. CASE /\ dev.q # << >>
               /\ ps2' = [ps2 EXCEPT !.full = TRUE, !.data = Head(dev.q), !.irq = ps2.int]
               /\ dev' = [dev EXCEPT !.q = Tail(@)]
      <3>1. ps2'.full /\ ps2'.data = Head(dev.q) /\ dev'.q = Tail(dev.q)
        BY <1>0, <2>3 DEF Ps2Fields, DevFields
      <3>2. Head(dev.q) \notin StrayBytes
        BY <1>0, <1>1, <2>3, WellFormedTail
      <3>3. Pending' = <<Head(dev.q)>> \o Tail(dev.q)
        BY <3>1, <3>2 DEF Pending
      <3> QED
        BY <1>0, <2>1, <2>3, <3>3, HeadBack
    <2> QED
      BY <1>3, <2>1, <2>2, <2>3 DEF Deliver
  <1>4. CASE kb_getc \/ kb_setleds
    BY <1>4 DEF kb_getc, kb_setleds, Pending
  <1>5. CASE kb_wrport
    <2>1. /\ cpu.pc = "wr" /\ dev' = Takes(dev, cpu.byte) /\ ps2' = [ps2 EXCEPT !.on = TRUE]
      <3>1. ~Fault("lost") /\ ~Fault("nakdata") /\ ~Fault("nak")
        BY DEF Fault, OnlyLate
      <3> QED
        BY <1>5, <3>1 DEF kb_wrport
    <2>2. ps2'.full = ps2.full /\ ps2'.data = ps2.data
      BY <1>0, <2>1 DEF Ps2Fields
    <2>3. Taken(dev', dev, cpu.byte)
      BY <1>0, <2>1, TakesIs
    <2>4. cpu.byte # 245
      BY <2>1 DEF RunInv
    <2>5. dev'.q = dev.q
      BY <2>3, <2>4 DEF Taken
    <2> QED
      BY <2>2, <2>5 DEF Pending
  <1>6. CASE kb_rdport
    <2>1. UNCHANGED dev /\ cpu.pc = "rd"
      BY <1>6 DEF kb_rdport
    <2>2. CASE ps2.full
      <3>1. ps2.data = 250
        BY <1>0, <1>1, <2>1, <2>2 DEF Exchange, One
      <3>2. ps2'.full = FALSE
        BY <1>0, <1>6, <2>2 DEF kb_rdport, Ps2Fields
      <3> QED
        BY <2>1, <3>1, <3>2 DEF Pending, StrayBytes
    <2>3. CASE ~ps2.full
      BY <1>6, <2>1, <2>3 DEF kb_rdport, Pending
    <2> QED
      BY <2>2, <2>3
  <1>7. CASE HandleKey
    <2>1. PICK o : ps2' = [ps2 EXCEPT !.on = o]
      BY <1>7, Zenon DEF HandleKey
    <2>2. ps2'.full = ps2.full /\ ps2'.data = ps2.data /\ UNCHANGED dev
      BY <1>0, <1>7, <2>1 DEF Ps2Fields, HandleKey
    <2> QED
      BY <2>2 DEF Pending
  <1> QED
    BY <1>3, <1>4, <1>5, <1>6, <1>7

LEMMA PendingMore ==
    ASSUME Types, UNCHANGED ps2, NEW s \in Seq(Byte), dev' = [dev EXCEPT !.q = @ \o s]
    PROVE  Pending' = Pending \o s /\ Pending \in Seq(Byte)
  <1>0. ps2.data \in Byte /\ dev.q \in Seq(Byte) /\ DOMAIN dev = DevFields
    BY DEF Types, Ps2Types, DevTypes
  <1>1. dev'.q = dev.q \o s
    BY <1>0 DEF DevFields
  <1>2. <<ps2.data>> \in Seq(Byte) /\ <<ps2.data>> \o dev.q \in Seq(Byte)
    BY <1>0, InFront
  <1>3. (<<ps2.data>> \o dev.q) \o s = <<ps2.data>> \o (dev.q \o s)
    <2>1. PICK p \in Seq(Byte), q \in Seq(Byte) : p = <<ps2.data>> /\ q = dev.q
      BY <1>0, <1>2
    <2>2. (p \o q) \o s = p \o (q \o s)
      BY ConcatAssociative
    <2> QED
      BY <2>1, <2>2
  <1> QED
    BY <1>0, <1>1, <1>2, <1>3 DEF Pending

LEMMA PendingTaken ==
    ASSUME Types, LedsInv, OnlyLate, kb.ready, kb_interrupt
    PROVE  /\ Pending' = dev.q
           /\ Pending = IF ps2.data \in StrayBytes THEN dev.q ELSE <<ps2.data>> \o dev.q
  <1>0. DOMAIN ps2 = Ps2Fields
    BY DEF Types, Ps2Types
  <1>1. Exchange
    BY DEF LedsInv, RunLeds, Calm, OnlyLate, OnlyDelays, Exchange
  <1>2. PICK o : ps2' = [ps2 EXCEPT !.irq = FALSE, !.full = FALSE, !.on = o]
    BY ZenonT(60) DEF kb_interrupt, Stray, Prefix, Decode
  <1>3. ~ps2'.full /\ UNCHANGED dev /\ ps2.irq
    BY <1>0, <1>2 DEF Ps2Fields, kb_interrupt
  <1>4. Pending' = dev.q
    BY <1>3 DEF Pending
  <1>5. Pending = IF ps2.data \in StrayBytes THEN dev.q ELSE <<ps2.data>> \o dev.q
    BY <1>1, <1>3 DEF Pending, Exchange
  <1> QED
    BY <1>4, <1>5

LEMMA CodesRun ==
    ASSUME Types, RunInv, LedsInv, CodesInv, OnlyLate, kb.ready, Next PROVE CodesInv'
  <1>0. /\ DOMAIN ps2 = Ps2Fields /\ DevTypes(dev) /\ CpuTypes(cpu) /\ DOMAIN dev = DevFields
        /\ DOMAIN kb = KbFields /\ kb.e0 \in BOOLEAN /\ kb.e1 \in BOOLEAN
        /\ ps2.data \in Byte /\ dev.q \in Seq(Byte) /\ cpu.byte \in Byte /\ ACK = 250
    BY Numbers DEF Types, Ps2Types, DevTypes, KbTypes, CpuTypes
  <1>1. /\ RunLeds /\ Exchange /\ kb.scset = 1 /\ OnlyDelays
        /\ WellFormed(Pending) /\ Follows(kb.e0, kb.e1, Pending) /\ WellFormed(dev.q)
    BY DEF LedsInv, RunLeds, Calm, OnlyLate, OnlyDelays, CodesInv, Exchange
  <1>2. cpu.pc \in {"wr", "rd", "idle", "leds", "key", "reset", "crash"}
    BY DEF RunInv, Heading, CodesInv
  <1>3. CASE Deliver
    BY <1>2, <1>3, PendingKept, CodesKept DEF Deliver
  <1>4. ASSUME NEW k \in Keys, PressKey(k) \/ ReleaseKey(k) PROVE CodesInv'
    <2>0. UNCHANGED <<kb, cpu, ps2>> /\ k \in ModelledKeys
      BY <1>4, KeyboardAssumption DEF PressKey, ReleaseKey
    <2>1. PICK held : \/ dev' = [dev EXCEPT !.q = @ \o PressBytes(k, held)]
                      \/ dev' = [dev EXCEPT !.q = @ \o ReleaseBytes(k, held)]
      BY <1>4 DEF PressKey, ReleaseKey
    <2>2. PICK s \in Seq(Byte) : WellFormed(s) /\ dev' = [dev EXCEPT !.q = @ \o s]
      <3>1. /\ PressBytes(k, held) \in Seq(Byte) /\ ReleaseBytes(k, held) \in Seq(Byte)
            /\ WellFormed(PressBytes(k, held)) /\ WellFormed(ReleaseBytes(k, held))
        BY <2>0, KeyBytes, KeysWellFormed
      <3> QED
        BY <2>1, <3>1, Zenon
    <2>6. Pending' = Pending \o s /\ Pending \in Seq(Byte)
      BY <2>0, <2>2, PendingMore
    <2>7. WellFormed(Pending \o s) /\ Follows(kb.e0, kb.e1, Pending \o s)
      BY <1>1, <2>2, <2>6, WellFormedConcat, FollowsMore
    <2>8. cpu'.pc # "panic"
      BY <1>2, <2>0
    <2>9. WellFormed(Pending') /\ Follows(kb'.e0, kb'.e1, Pending')
      BY <2>0, <2>6, <2>7
    <2> QED
      BY <2>8, <2>9 DEF CodesInv
  <1>5. CASE kb_getc
    <2>1. UNCHANGED <<cpu, ps2, dev>> /\ (kb' = kb \/ kb' = [kb EXCEPT !.pollchar = 0])
      BY <1>5 DEF kb_getc
    <2>2. kb'.e0 = kb.e0 /\ kb'.e1 = kb.e1
      BY <1>0, <2>1 DEF KbFields
    <2>3. Pending' = Pending
      BY <1>5, PendingKept
    <2> QED
      BY <1>2, <2>1, <2>2, <2>3, CodesKept
  <1>6. CASE kb_wrport
    <2>1. UNCHANGED kb /\ cpu' = Goto(cpu, "rd")
      BY <1>6 DEF kb_wrport, Goto
    <2>2. cpu'.pc = "rd"
      BY <1>0, <2>1, GotoIs
    <2>3. Pending' = Pending
      BY <1>6, PendingKept
    <2> QED
      BY <2>1, <2>2, <2>3, CodesKept
  <1>7. CASE kb_rdport
    <2>1. UNCHANGED <<kb, dev>> /\ cpu.pc = "rd"
      BY <1>7 DEF kb_rdport
    <2>2. PICK r \in Byte : cpu' = Answered(cpu, r)
      <3>1. 0 \in Byte
        BY DEF Byte
      <3> QED
        BY <1>0, <1>7, <3>1 DEF kb_rdport
    <2>3. cpu.then \in {"leds", "key"}
      BY <1>1, <2>1 DEF RunLeds
    <2>4. cpu'.pc \in {"wr", cpu.then}
      <3>1. AnsweredAs(cpu', cpu, r)
        BY <1>0, <2>2, AnsweredIs
      <3>2. r = ACK \/ (r # ACK /\ r # 0 /\ cpu.left > 1) \/ (r # ACK /\ (r = 0 \/ cpu.left <= 1))
        BY KeyboardAssumption DEF Types, CpuTypes
      <3> QED
        BY <1>0, <3>1, <3>2 DEF AnsweredAs, CpuTypes
    <2>5. Pending' = Pending
      BY <1>7, PendingKept
    <2> QED
      BY <2>1, <2>3, <2>4, <2>5, CodesKept
  <1>8. CASE kb_setleds
    <2>1. /\ UNCHANGED <<ps2, dev>> /\ cpu.ret = "key"
      BY <1>8 DEF kb_setleds, RunInv, Heading
    <2>2. kb'.e0 = kb.e0 /\ kb'.e1 = kb.e1
      BY <1>0, <1>8 DEF kb_setleds, KbFields
    <2>3. cpu'.pc \in {"key", "wr"}
      <3>1. CASE cpu' = Goto(cpu, cpu.ret)
        BY <1>0, <2>1, <3>1, GotoIs
      <3>2. CASE cpu' = Write(cpu, LedsOf(kb), cpu.ret)
        BY <1>0, <3>2, LedsOfRange, WriteIs
      <3> QED
        BY <1>8, <3>1, <3>2 DEF kb_setleds
    <2>4. Pending' = Pending
      BY <1>8, PendingKept
    <2> QED
      BY <2>2, <2>3, <2>4, CodesKept
  <1>9. CASE HandleKey
    <2>1. PICK p \in {"idle", "crash", "reset"} : cpu' = [Idle EXCEPT !.pc = p]
      BY <1>9, Zenon DEF HandleKey, sysrq
    <2>3. PICK k, a, c, t, g :
            /\ \E m : k = [kb EXCEPT !.mods = m]
            /\ kb' = [k EXCEPT !.altchar = a, !.crashkey = c, !.term = t, !.pollchar = g]
      BY <1>9, KeyHandled
    <2>4. PICK m : k = [kb EXCEPT !.mods = m]
      BY <2>3
    <2>5. DOMAIN k = KbFields /\ k.e0 = kb.e0 /\ k.e1 = kb.e1
      BY <1>0, <2>4 DEF KbFields
    <2>6. kb'.e0 = kb.e0 /\ kb'.e1 = kb.e1
      BY <2>3, <2>5 DEF KbFields
    <2>7. cpu'.pc = p
      BY <2>1, IdleIs
    <2>9. Pending' = Pending
      BY <1>9, PendingKept
    <2> QED
      BY <2>1, <2>6, <2>7, <2>9, CodesKept
  <1>10. CASE kb_interrupt
    <2>2. UNCHANGED dev /\ cpu.pc = "idle"
      BY <1>10 DEF kb_interrupt
    <2>3. Pending' = dev.q
      BY <1>10, PendingTaken
    <2>4. ASSUME ps2.data \notin StrayBytes PROVE Pending = <<ps2.data>> \o dev.q
      BY <1>10, <2>4, PendingTaken
    <2>5. CASE Stray(ps2.data)
      <3>1. UNCHANGED <<kb, cpu>> /\ ps2.data \in StrayBytes
        BY <2>5, Numbers DEF Stray, StrayBytes
      <3>2. Pending = dev.q
        BY <1>10, <3>1, PendingTaken
      <3> QED
        BY <2>2, <2>3, <3>1, <3>2, CodesKept
    <2>6. CASE Prefix(ps2.data)
      <3>1. /\ UNCHANGED cpu /\ ps2.data \in {224, 225} /\ ps2.data \notin StrayBytes
            /\ kb'.e0 = (kb.e0 \/ ps2.data = 224) /\ kb'.e1 = (kb.e1 \/ ps2.data = 225)
        BY <1>0, <2>6 DEF Prefix, KbFields, StrayBytes
      <3>2. WellFormed(<<ps2.data>> \o dev.q) /\ Follows(kb.e0, kb.e1, <<ps2.data>> \o dev.q)
        <4>1. PICK n : n = <<ps2.data>> \o dev.q
          OBVIOUS
        <4>2. Pending = n
          BY <2>4, <3>1, <4>1
        <4>3. WellFormed(n) /\ Follows(kb.e0, kb.e1, n)
          BY <1>1, <4>2
        <4> QED
          BY <4>1, <4>3
      <3>3. Follows(kb.e0 \/ ps2.data = 224, kb.e1 \/ ps2.data = 225, dev.q)
        BY <1>0, <3>1, <3>2, PrefixTaken
      <3>4. Follows(kb'.e0, kb'.e1, Pending') /\ WellFormed(Pending')
        BY <1>1, <2>3, <3>1, <3>3
      <3> QED
        BY <2>2, <3>1, <3>4 DEF CodesInv
    <2>7. CASE Decode(ps2.data)
      <3>1. ps2.data \notin StrayBytes
        BY <2>7, Numbers DEF Decode, StrayBytes
      <3>2. Follows(kb.e0, kb.e1, <<ps2.data>> \o dev.q)
        BY <1>1, <2>4, <3>1
      <3>3. ~(kb.e0 /\ kb.e1)
        BY <1>1 DEF Follows
      <3>4. /\ kb'.e0 = FALSE /\ kb'.e1 = (kb.e1 /\ KeyOf(kb.e0, ps2.data % 128) # KEY.NUMLK)
            /\ cpu'.pc \in {"key", "wr"}
        BY <1>1, <2>7, <3>3, DecodeIs
      <3>5. Follows(kb'.e0, kb'.e1, dev.q)
        <4>1. PICK d \in Byte, q \in Seq(Byte), e0 \in BOOLEAN, e1 \in BOOLEAN,
                    g \in BOOLEAN, f \in BOOLEAN :
                /\ ps2.data = d /\ dev.q = q /\ kb.e0 = e0 /\ kb.e1 = e1 /\ kb'.e0 = g /\ kb'.e1 = f /\ ~g
                /\ f => e1 /\ KeyOf(e0, d % 128) # KEY.NUMLK
          BY <1>0, <3>4
        <4>2. Follows(e0, e1, <<d>> \o q)
          BY <3>2, <4>1
        <4>3. ~g /\ (f => e1 /\ KeyOf(e0, d % 128) # KEY.NUMLK)
          BY <4>1
        <4>4. Follows(g, f, q)
          BY <4>2, <4>3, CodeTaken
        <4> QED
          BY <3>4, <4>1, <4>4
      <3>6. Follows(kb'.e0, kb'.e1, Pending') /\ WellFormed(Pending')
        BY <1>1, <2>2, <2>3, <3>5
      <3> QED
        BY <3>4, <3>6 DEF CodesInv
    <2> QED
      BY <1>10, <2>5, <2>6, <2>7 DEF kb_interrupt
  <1>11. ~init_ps2 /\ ~RewriteConfig /\ ~ConfigureKeyboard /\ ~EnableKeyboard /\ ~FinishInit
    <2>1. ~ConfigureKeyboard
      BY <1>2, ConfigureIs
    <2> QED
      BY <1>2, <2>1 DEF init_ps2, RewriteConfig, EnableKeyboard, FinishInit
  <1> QED
    BY <1>3, <1>4, <1>5, <1>6, <1>7, <1>8, <1>9, <1>10, <1>11 DEF Next, Driver

LEMMA CodesStep ==
    ASSUME OnlyLate, Types, SetInv, SetInv', LedsInv, CodesInv, [Next]_vars PROVE CodesInv'
  <1>1. CASE UNCHANGED vars
    BY <1>1 DEF vars, CodesInv, Pending
  <1>2. CASE kb.ready /\ Next
    BY <1>2, CodesRun DEF SetInv
  <1>3. CASE ~kb.ready
    <2>1. CASE kb'.ready
      <3>1. FinishInit /\ cpu.pc = "register"
        BY <1>3, <2>1, ReadyAt
      <3>2. None /\ dev.q = << >> /\ ~kb.e0 /\ ~kb.e1
        BY <1>3, <3>1 DEF SetInv, BootInv, Between, LedsInv, BootLeds
      <3>3. cpu'.pc = "idle" /\ UNCHANGED <<ps2, dev>> /\ kb' = [kb EXCEPT !.ready = TRUE]
        BY <3>1, IdleIs DEF FinishInit
      <3>4. kb'.e0 = kb.e0 /\ kb'.e1 = kb.e1
        BY <3>3 DEF Types, KbTypes, KbFields
      <3>5. Pending' = << >>
        BY <3>2, <3>3 DEF Pending, None
      <3>6. WellFormed(<< >>) /\ Follows(FALSE, FALSE, << >>)
        BY DEF WellFormed, Follows
      <3>7. WellFormed(Pending') /\ Follows(kb'.e0, kb'.e1, Pending')
        <4>1. kb.e0 = FALSE /\ kb.e1 = FALSE
          BY <3>2 DEF Types, KbTypes
        <4> QED
          BY <3>4, <3>5, <3>6, <4>1
      <3> QED
        BY <3>3, <3>7 DEF CodesInv
    <2>2. CASE ~kb'.ready
      <3>1. cpu'.pc # "panic"
        BY <2>2 DEF SetInv, BootInv, Heading, BootLabels, CommandLabels, WriteLabels, ReadLabels
      <3> QED
        BY <2>2, <3>1 DEF CodesInv
    <2> QED
      BY <2>1, <2>2
  <1> QED
    BY <1>1, <1>2, <1>3

LEMMA CodesInit == Init => CodesInv
  <1> SUFFICES ASSUME Init PROVE CodesInv
    OBVIOUS
  <1>1. cpu.pc = "boot" /\ ~kb.ready
    BY IdleIs DEF Init
  <1> QED
    BY <1>1 DEF CodesInv

(* The asserts of kb_interrupt hold: it never has both prefixes, for E0 is  *)
(* cleared by the next byte and the code of NUMLK ends E1, and what a key   *)
(* sends is whole and arrives whole while answers only come late.  A        *)
(* scancode taken for an answer (FaultKinds "early") can break a sequence.  *)
THEOREM PrefixesApart == OnlyRefuses /\ OnlyLate => (Spec => []AssertsHold)
  <1> SUFFICES ASSUME OnlyRefuses, OnlyLate PROVE Spec => []AssertsHold
    OBVIOUS
  <1>0. OnlyDelays
    BY DEF OnlyLate, OnlyDelays
  <1>1. CodesInv => AssertsHold
    BY DEF CodesInv, AssertsHold
  <1>2. Types /\ SetInv /\ [Next]_vars => SetInv'
    BY SetStep
  <1>3. Types /\ SetInv /\ LedsInv /\ [Next]_vars => LedsInv'
    BY <1>0, LedsStep
  <1>4. Types /\ SetInv /\ SetInv' /\ LedsInv /\ CodesInv /\ [Next]_vars => CodesInv'
    BY CodesStep
  <1> QED
    BY <1>1, <1>2, <1>3, <1>4, SetInit, LedsInit, CodesInit, TypesHold, PTL DEF Spec

-------------------------------------------------------------------------------
(* What the keystrokes mean.  The driver's state, as far as the text depends *)
(* on it, is carried through the bytes on their way; at their end it is the *)
(* state the user is in.                                                    *)

Seen(k, o) ==
    [e0 |-> k.e0, e1 |-> k.e1, mods |-> k.mods, numlk |-> k.numlk, capslk |-> k.capslk,
     scrlk |-> k.scrlk, altchar |-> k.altchar, term |-> k.term, out |-> o]

Meant(u) ==
    [e0 |-> FALSE, e1 |-> FALSE, mods |-> u.held \cap ModKeys, numlk |-> u.num, capslk |-> u.caps,
     scrlk |-> u.scr, altchar |-> u.code % 256, term |-> u.term, out |-> u.text]

Sees(s) == s.out \in Seq(Byte) /\ s.altchar \in Byte

(* The key of a byte, and the state before the rest of the handler (Decode). *)
KeyFor(s, b) ==
    IF s.e1 /\ KeyOf(s.e0, b % 128) = KEY.NUMLK THEN KEY.PAUSE
    ELSE IF s.numlk THEN KeyOf(s.e0, b % 128) ELSE Unlocked(KeyOf(s.e0, b % 128))

Locked(s, e1, key, make) ==
    [e0 |-> FALSE, e1 |-> e1, mods |-> s.mods,
     numlk |-> s.numlk # (make /\ key = KEY.NUMLK), capslk |-> s.capslk # (make /\ key = KEY.CAPSLK),
     scrlk |-> s.scrlk # (make /\ key = KEY.SCRLK), altchar |-> s.altchar, term |-> s.term,
     out |-> s.out]

Decoded(s, b) ==
    Locked(s, s.e1 /\ KeyOf(s.e0, b % 128) # KEY.NUMLK, KeyFor(s, b), b < 128)

(* The rest of the handler (HandleKey), for modifiers m. *)
Submits(s, key, rel) == rel /\ is_alt(key) /\ s.altchar # 0
Switches(m, key) ==
    m \cap {"ctrl", "alt"} = {"alt"} /\ is_fnkey(key) /\ fnkey_index(key) <= NR_TERMINAL
Counts(m, key) == "alt" \in m /\ is_numpad(key)
Resets(m, key) == {"ctrl", "alt"} \subseteq m /\ key \in {KEY.DELETE, KEY.KPDOT}

Chars(s, key, rel) ==
    IF Submits(s, key, rel) THEN <<s.altchar>>
    ELSE IF rel \/ Resets(Mods(s.mods), key) \/ Switches(Mods(s.mods), key) \/ Counts(Mods(s.mods), key)
    THEN << >> ELSE CharsOf(s, key)

Pressed(s, key, rel) ==
    [e0 |-> s.e0, e1 |-> s.e1, mods |-> handle_modifier(s, key, rel), numlk |-> s.numlk,
     capslk |-> s.capslk, scrlk |-> s.scrlk, altchar |-> s.altchar, term |-> s.term, out |-> s.out]

Handled(s, key, rel) ==
    [e0 |-> s.e0, e1 |-> s.e1, mods |-> s.mods, numlk |-> s.numlk, capslk |-> s.capslk,
     scrlk |-> s.scrlk,
     altchar |-> IF Submits(s, key, rel) THEN 0
                 ELSE IF ~rel /\ Counts(Mods(s.mods), key) THEN AltDigit(s.altchar, key)
                 ELSE s.altchar,
     term |-> IF ~rel /\ Switches(Mods(s.mods), key) THEN fnkey_index(key) ELSE s.term,
     out |-> s.out \o Chars(s, key, rel)]

Finish(s, key, rel) == Handled(Pressed(s, key, rel), key, rel)

Flagged(s, b) ==
    [e0 |-> s.e0 \/ b = 224, e1 |-> s.e1 \/ b = 225, mods |-> s.mods, numlk |-> s.numlk,
     capslk |-> s.capslk, scrlk |-> s.scrlk, altchar |-> s.altchar, term |-> s.term, out |-> s.out]

(* One byte. *)
Eat(s, b) ==
    IF b \in {224, 225} THEN Flagged(s, b)
    ELSE Finish(Decoded(s, b), KeyFor(s, b), b >= 128)

(* Bytes q lead from a to b, and the text only grows on the way. *)
Begins(a, b) == \E r \in Seq(Byte) : b = a \o r

Path(f, q, a, b) ==
    /\ f[0] = a /\ f[Len(q)] = b
    /\ \A i \in 1 .. Len(q) : f[i] = Eat(f[i - 1], q[i])
    /\ \A i \in 0 .. Len(q) : Sees(f[i]) /\ Begins(f[i].out, b.out)

Leads(a, q, b) == \E f : Path(f, q, a, b)

LEMMA BeginsSelf == ASSUME NEW a \in Seq(Byte) PROVE Begins(a, a)
  <1>1. a \o << >> = a /\ << >> \in Seq(Byte)
    BY ConcatEmptySeq
  <1> QED
    BY <1>1 DEF Begins

LEMMA BeginsMore ==
    ASSUME NEW a \in Seq(Byte), NEW b \in Seq(Byte), NEW c \in Seq(Byte), Begins(a, b), Begins(b, c)
    PROVE  Begins(a, c)
  <1>1. PICK r \in Seq(Byte), t \in Seq(Byte) : b = a \o r /\ c = b \o t
    BY DEF Begins
  <1>2. (a \o r) \o t = a \o (r \o t) /\ r \o t \in Seq(Byte)
    BY ConcatAssociative, ConcatProperties
  <1> QED
    BY <1>1, <1>2 DEF Begins

LEMMA BeginsPrefix ==
    ASSUME NEW a \in Seq(Byte), NEW b \in Seq(Byte), Begins(a, b)
    PROVE  IsPrefix(a, b)
  <1>1. PICK r \in Seq(Byte) : b = a \o r
    BY DEF Begins
  <1>2. /\ Len(b) = Len(a) + Len(r) /\ Len(a) \in Nat /\ Len(r) \in Nat
        /\ \A i \in 1 .. Len(a) : b[i] = a[i]
    BY <1>1, ConcatProperties, LenProperties
  <1>3. Len(a) <= Len(b)
    BY <1>2
  <1>4. SubSeq(a, 1, Len(a)) = [i \in 1 .. Len(a) |-> a[i]]
    BY <1>2
  <1>5. SubSeq(b, 1, Len(a)) = [i \in 1 .. Len(a) |-> b[i]]
    BY <1>2
  <1> QED
    BY <1>2, <1>3, <1>4, <1>5 DEF IsPrefix

LEMMA LeadsNowhere ==
    ASSUME NEW a, Sees(a) PROVE Leads(a, << >>, a)
  <1> DEFINE f == [i \in {0} |-> a]
  <1>1. Begins(a.out, a.out)
    BY BeginsSelf DEF Sees
  <1>2. Len(<< >>) = 0 /\ f[0] = a
    OBVIOUS
  <1> HIDE DEF f
  <1>3. Path(f, << >>, a, a)
    BY <1>1, <1>2 DEF Path
  <1> QED
    BY <1>3 DEF Leads

LEMMA LeadsEmpty ==
    ASSUME NEW a, NEW b, Leads(a, << >>, b) PROVE a = b /\ Sees(b)
  <1>1. PICK f : Path(f, << >>, a, b)
    BY DEF Leads
  <1>2. Len(<< >>) = 0 /\ 0 \in 0 .. 0
    OBVIOUS
  <1> QED
    BY <1>1, <1>2 DEF Path

LEMMA LeadsEnds ==
    ASSUME NEW a, NEW q \in Seq(Byte), NEW b, Leads(a, q, b)
    PROVE  Sees(a) /\ Sees(b) /\ Begins(a.out, b.out)
  <1>1. PICK f : Path(f, q, a, b)
    BY DEF Leads
  <1>2. 0 \in 0 .. Len(q) /\ Len(q) \in 0 .. Len(q)
    BY LenProperties
  <1> QED
    BY <1>1, <1>2 DEF Path

LEMMA LeadsOn ==
    ASSUME NEW a, NEW q \in Seq(Byte), NEW b, q # << >>, Leads(a, q, b)
    PROVE  Leads(Eat(a, Head(q)), Tail(q), b)
  <1>1. PICK f : Path(f, q, a, b)
    BY DEF Leads
  <1>2. /\ Tail(q) \in Seq(Byte) /\ Len(Tail(q)) = Len(q) - 1 /\ Len(q) \in Nat \ {0}
        /\ Head(q) = q[1] /\ \A i \in 1 .. Len(Tail(q)) : Tail(q)[i] = q[i + 1]
    BY HeadTailProperties, LenProperties, EmptySeq
  <1>3. PICK n \in Nat : Len(q) = n + 1 /\ Len(Tail(q)) = n
    <2>1. Len(q) - 1 \in Nat /\ Len(q) = (Len(q) - 1) + 1
      BY <1>2
    <2> QED
      BY <1>2, <2>1
  <1> DEFINE g == [i \in 0 .. n |-> f[i + 1]]
  <1>4. \A i \in 0 .. n : g[i] = f[i + 1]
    OBVIOUS
  <1> HIDE DEF g
  <1>5. g[0] = Eat(a, Head(q))
    <2>1. f[1] = Eat(f[1 - 1], q[1])
      BY <1>1, <1>3 DEF Path
    <2> QED
      BY <1>1, <1>2, <1>4, <2>1 DEF Path
  <1>6. g[n] = b
    BY <1>1, <1>3, <1>4 DEF Path
  <1>7. ASSUME NEW i \in 1 .. n PROVE g[i] = Eat(g[i - 1], Tail(q)[i])
    <2>1. f[i + 1] = Eat(f[(i + 1) - 1], q[i + 1])
      BY <1>1, <1>3 DEF Path
    <2>2. g[i] = f[i + 1] /\ g[i - 1] = f[i] /\ Tail(q)[i] = q[i + 1] /\ (i + 1) - 1 = i
      BY <1>2, <1>3, <1>4
    <2> QED
      BY <2>1, <2>2
  <1>8. ASSUME NEW i \in 0 .. n PROVE Sees(g[i]) /\ Begins(g[i].out, b.out)
    <2>1. i + 1 \in 0 .. Len(q) /\ g[i] = f[i + 1]
      BY <1>3, <1>4
    <2> QED
      BY <1>1, <2>1 DEF Path
  <1>9. Path(g, Tail(q), Eat(a, Head(q)), b)
    BY <1>3, <1>5, <1>6, <1>7, <1>8 DEF Path
  <1> QED
    BY <1>9 DEF Leads

(* One more byte at the end. *)
LEMMA LeadsFar ==
    ASSUME NEW a, NEW q \in Seq(Byte), NEW b, NEW c \in Byte, Leads(a, q, b),
           Sees(Eat(b, c)), Begins(b.out, Eat(b, c).out)
    PROVE  Leads(a, Append(q, c), Eat(b, c))
  <1>1. PICK f : Path(f, q, a, b)
    BY DEF Leads
  <1>2. PICK n \in Nat : n = Len(q)
    BY LenProperties
  <1>3. /\ Len(Append(q, c)) = n + 1 /\ Append(q, c)[n + 1] = c
        /\ \A i \in 1 .. n : Append(q, c)[i] = q[i]
    BY <1>2, AppendProperties
  <1>4. PICK z : z = Eat(b, c)
    OBVIOUS
  <1> DEFINE g == [i \in 0 .. n + 1 |-> IF i <= n THEN f[i] ELSE z]
  <1>5. (\A i \in 0 .. n : g[i] = f[i]) /\ g[n + 1] = z
    OBVIOUS
  <1> HIDE DEF g
  <1>6. g[0] = a /\ g[n] = b /\ f[n] = b
    BY <1>1, <1>2, <1>5 DEF Path
  <1>7. ASSUME NEW i \in 1 .. n + 1 PROVE g[i] = Eat(g[i - 1], Append(q, c)[i])
    <2>1. CASE i = n + 1
      <3>1. g[i - 1] = b /\ Append(q, c)[i] = c /\ g[i] = z
        BY <1>3, <1>5, <1>6, <2>1
      <3> QED
        BY <1>4, <3>1
    <2>2. CASE i # n + 1
      <3>1. i \in 1 .. n /\ i - 1 \in 0 .. n /\ i \in 0 .. n
        BY <2>2
      <3>2. f[i] = Eat(f[i - 1], q[i])
        BY <1>1, <1>2, <3>1 DEF Path
      <3> QED
        BY <1>3, <1>5, <3>1, <3>2
    <2> QED
      BY <2>1, <2>2
  <1>8. ASSUME NEW i \in 0 .. n + 1 PROVE Sees(g[i]) /\ Begins(g[i].out, z.out)
    <2>1. CASE i = n + 1
      BY <1>4, <1>5, <2>1, BeginsSelf DEF Sees
    <2>2. CASE i # n + 1
      <3>1. i \in 0 .. n
        BY <2>2
      <3>2. Sees(f[i]) /\ Begins(f[i].out, b.out) /\ g[i] = f[i]
        BY <1>1, <1>2, <1>5, <3>1 DEF Path
      <3>3. Sees(b)
        <4>1. n \in 0 .. n
          OBVIOUS
        <4> QED
          BY <1>1, <1>2, <1>6, <4>1 DEF Path
      <3> QED
        BY <1>4, <3>2, <3>3, BeginsMore DEF Sees
    <2> QED
      BY <2>1, <2>2
  <1>9. Path(g, Append(q, c), a, z)
    BY <1>3, <1>5, <1>6, <1>7, <1>8 DEF Path
  <1> QED
    BY <1>4, <1>9 DEF Leads

LEMMA FinishGrows ==
    ASSUME NEW s, Sees(s), NEW key, NEW rel \in BOOLEAN
    PROVE  Sees(Finish(s, key, rel)) /\ Begins(s.out, Finish(s, key, rel).out)
  <1>1. PICK p : p = Pressed(s, key, rel)
    OBVIOUS
  <1>2. p.out = s.out /\ p.altchar = s.altchar
    BY <1>1 DEF Pressed
  <1>3. p.out \in Seq(Byte) /\ p.altchar \in Byte
    BY <1>2 DEF Sees
  <1>4. Chars(p, key, rel) \in Seq(Byte)
    <2>1. <<p.altchar>> \in Seq(Byte) /\ << >> \in Seq(Byte)
      BY <1>3
    <2> QED
      BY <2>1, CharsRange DEF Chars
  <1>5. is_numpad(key) => AltDigit(p.altchar, key) \in Byte
    <2>1. ASSUME NEW a \in Byte, NEW d \in Nat PROVE (10 * a + d) % 256 \in Byte
      BY DEF Byte
    <2>2. is_numpad(key) => numpad_index(key) \in Nat
      BY KeyNumbers DEF is_numpad, numpad_index
    <2> QED
      BY <1>3, <2>1, <2>2 DEF AltDigit
  <1>6. 0 \in Byte
    BY DEF Byte
  <1>7. PICK h : h = Finish(s, key, rel)
    OBVIOUS
  <1>8. h.out = p.out \o Chars(p, key, rel) /\ h.altchar \in Byte
    BY <1>1, <1>3, <1>5, <1>6, <1>7 DEF Finish, Handled, Counts
  <1>9. h.out \in Seq(Byte)
    BY <1>3, <1>4, <1>8, ConcatProperties
  <1>10. Begins(p.out, h.out)
    BY <1>4, <1>8 DEF Begins
  <1> QED
    BY <1>2, <1>7, <1>8, <1>9, <1>10 DEF Sees

LEMMA EatGrows ==
    ASSUME NEW s, Sees(s), NEW b \in Byte
    PROVE  Sees(Eat(s, b)) /\ Begins(s.out, Eat(s, b).out)
  <1>1. CASE b \in {224, 225}
    <2>1. Eat(s, b) = Flagged(s, b)
      BY <1>1 DEF Eat
    <2>2. Flagged(s, b).out = s.out /\ Flagged(s, b).altchar = s.altchar
      BY DEF Flagged
    <2>3. Begins(s.out, s.out)
      BY BeginsSelf DEF Sees
    <2> QED
      BY <2>1, <2>2, <2>3 DEF Sees
  <1>2. CASE b \notin {224, 225}
    <2>1. PICK d : d = Decoded(s, b)
      OBVIOUS
    <2>2. d.out = s.out /\ d.altchar = s.altchar
      BY <2>1 DEF Decoded, Locked
    <2>3. Sees(d)
      BY <2>2 DEF Sees
    <2>4. (b >= 128) \in BOOLEAN
      OBVIOUS
    <2>5. Sees(Finish(d, KeyFor(s, b), b >= 128)) /\ Begins(d.out, Finish(d, KeyFor(s, b), b >= 128).out)
      BY <2>3, <2>4, FinishGrows
    <2>6. Eat(s, b) = Finish(d, KeyFor(s, b), b >= 128)
      BY <1>2, <2>1 DEF Eat
    <2> QED
      BY <2>2, <2>5, <2>6
  <1> QED
    BY <1>1, <1>2

LEMMA LeadsMore ==
    ASSUME NEW a, NEW q \in Seq(Byte), NEW b, NEW c \in Byte, Leads(a, q, b)
    PROVE  Leads(a, Append(q, c), Eat(b, c)) /\ Append(q, c) \in Seq(Byte)
  <1>1. Sees(b)
    BY LeadsEnds
  <1>2. Sees(Eat(b, c)) /\ Begins(b.out, Eat(b, c).out)
    BY <1>1, EatGrows
  <1> QED
    BY <1>2, LeadsFar, AppendProperties

(* The same for what a key sends. *)
LEMMA LeadsConcat ==
    ASSUME NEW a, NEW q \in Seq(Byte), NEW b, Leads(a, q, b),
           NEW s \in Seq(Byte), NEW c,
           \/ s = << >> /\ c = b
           \/ \E x \in Byte : s = <<x>> /\ c = Eat(b, x)
           \/ \E x \in Byte, y \in Byte : s = <<x, y>> /\ c = Eat(Eat(b, x), y)
    PROVE  Leads(a, q \o s, c)
  <1>1. CASE s = << >> /\ c = b
    BY <1>1, ConcatEmptySeq
  <1>2. ASSUME NEW x \in Byte, s = <<x>>, c = Eat(b, x) PROVE Leads(a, q \o s, c)
    <2>1. q \o s = Append(q, x)
      BY <1>2, AppendIsConcat
    <2> QED
      BY <1>2, <2>1, LeadsMore
  <1>3. ASSUME NEW x \in Byte, NEW y \in Byte, s = <<x, y>>, c = Eat(Eat(b, x), y) PROVE Leads(a, q \o s, c)
    <2>1. q \o <<x, y>> = Append(Append(q, x), y)
      OBVIOUS
    <2>2. PICK p \in Seq(Byte) : p = Append(q, x)
      BY AppendProperties
    <2>3. Leads(a, p, Eat(b, x))
      BY <2>2, LeadsMore
    <2>4. Leads(a, Append(p, y), Eat(Eat(b, x), y))
      BY <2>3, LeadsMore
    <2> QED
      BY <1>3, <2>1, <2>2, <2>4
  <1> QED
    BY <1>1, <1>2, <1>3

LEMMA TwoMore ==
    ASSUME NEW a, NEW q \in Seq(Byte), NEW b, Leads(a, q, b), NEW x \in Byte, NEW y \in Byte,
           NEW c, c = Eat(Eat(b, x), y)
    PROVE  Leads(a, q \o <<x, y>>, c) /\ q \o <<x, y>> \in Seq(Byte)
  <1>1. <<x, y>> \in Seq(Byte)
    OBVIOUS
  <1>2. q \o <<x, y>> \in Seq(Byte)
    BY <1>1, ConcatProperties
  <1> QED
    BY <1>1, <1>2, LeadsConcat

-------------------------------------------------------------------------------
(* One key at a time: the driver's tables give what the key means.          *)

Silent == {1, 2, 3, 4, 5, 6, 7, 26, 28, 29, 30, 31}
Letters == {65, 67, 71, 82}

LEMMA SilentChars ==
    ASSUME NEW s, NEW key \in Silent PROVE CharsOf(s, key) = << >>
  <1>1. key \notin 32 .. 96 /\ keymap(key) = 0
    BY DEF Silent, keymap
  <1> QED
    BY <1>1 DEF CharsOf

LEMMA SequencesAre ==
    /\ Sequence(121) = <<27, 91, 65>> /\ Sequence(116) = <<27, 91, 53, 126>>
    /\ Sequence(113) = <<27, 91, 51, 126>>
    /\ Sequence(11) = <<27, 91, 49, 49, 126>> /\ Sequence(19) = <<27, 91, 50, 48, 126>>
  <1>1. ~is_fnkey(121) /\ ~is_fnkey(116) /\ ~is_fnkey(113) /\ is_fnkey(11) /\ is_fnkey(19)
    BY KeyNumbers DEF is_fnkey
  <1>2. fnkey_index(11) = 1 /\ fnkey_index(19) = 9
    BY KeyNumbers DEF fnkey_index
  <1>3. Sequence(121) = <<27, 91, 65>>
    BY <1>1 DEF Sequence, KEY, ESC
  <1>4. Sequence(116) = <<27, 91, 53, 126>>
    BY <1>1 DEF Sequence, KEY, ESC
  <1>5. Sequence(113) = <<27, 91, 51, 126>>
    BY <1>1 DEF Sequence, KEY, ESC
  <1>6. Sequence(11) = <<27, 91, 49, 49, 126>>
    BY <1>1, <1>2 DEF Sequence, KEY, ESC
  <1>7. Sequence(19) = <<27, 91, 50, 48, 126>>
    BY <1>1, <1>2 DEF Sequence, KEY, ESC
  <1> QED
    BY <1>3, <1>4, <1>5, <1>6, <1>7

LEMMA SpecialChars ==
    ASSUME NEW s, NEW key \in {121, 116, 113, 11, 19} PROVE CharsOf(s, key) = Sequence(key)
  <1>1. key \notin 32 .. 96 /\ keymap(key) = 224
    BY DEF keymap, Special
  <1> QED
    BY <1>1 DEF CharsOf, Special

(* What a key with a character gives, c being the character. *)
LEMMA PlainChars ==
    ASSUME NEW s, NEW key, key # 105, NEW c0 \in Byte \ {0, 224}, KEY.SYSRQ \notin s.mods,
           c0 = IF "shift" \in Mods(s.mods) /\ key \in 32 .. 96 THEN keymap_shift(key) ELSE keymap(key),
           NEW c1, c1 = IF "ctrl" \in Mods(s.mods) THEN CtrlChar(key, c0) ELSE c0,
           NEW c2, c2 = IF s.capslk /\ "alt" \notin Mods(s.mods) THEN CapsChar(c1) ELSE c1
    PROVE  CharsOf(s, key) = IF "alt" \in Mods(s.mods) THEN <<27, c2>> ELSE <<c2>>
  BY KeyNumbers DEF CharsOf, Special, ESC

LEMMA SysRqChars ==
    ASSUME NEW s, NEW key \in Letters \cup {47, 50}, KEY.SYSRQ \in s.mods PROVE CharsOf(s, key) = << >>
  <1>1. keymap(key) # 224 /\ keymap_shift(key) # 224
    BY DEF keymap, keymap_shift, Letters, Special
  <1>2. key # 105
    BY DEF Letters
  <1> QED
    BY <1>1, <1>2, KeyNumbers DEF CharsOf, Special

LEMMA Joined ==
    ASSUME NEW c \in Byte PROVE <<27>> \o <<c>> = <<27, c>> /\ <<c>> # << >>
  <1>1. <<27>> \in Seq(Byte) /\ <<c>> \in Seq(Byte) /\ <<27, c>> \in Seq(Byte)
    BY DEF Byte
  <1>2. Append(<<27>>, c) = <<27>> \o <<c>>
    BY <1>1, AppendIsConcat
  <1>3. PICK s, t : s = Append(<<27>>, c) /\ t = <<27, c>>
    OBVIOUS
  <1>4. s \in Seq(Byte) /\ t \in Seq(Byte)
    BY <1>1, <1>3
  <1>5. Len(s) = 2 /\ Len(t) = 2 /\ s[1] = 27 /\ s[2] = c /\ t[1] = 27 /\ t[2] = c
    BY <1>3
  <1>6. ASSUME NEW i \in 1 .. 2 PROVE s[i] = t[i]
    BY <1>5
  <1>7. s = t
    BY <1>4, <1>5, <1>6, SeqEqual
  <1> QED
    BY <1>1, <1>2, <1>3, <1>7

LEMMA LetterText ==
    ASSUME NEW s, NEW k \in Letters, KEY.SYSRQ \notin s.mods, s.capslk \in BOOLEAN, NEW num
    PROVE  CharsOf(s, k) = UsText(k, Mods(s.mods), s.capslk, num)
  <1>1. PICK m : m = Mods(s.mods)
    OBVIOUS
  <1>2. k \in 65 .. 90 /\ k \in 32 .. 96 /\ IsLetter(k) /\ k # 105
    BY DEF Letters, IsLetter
  <1>3. keymap(k) = k + 32 /\ keymap_shift(k) = k
    BY <1>2 DEF keymap, keymap_shift, Letters
  <1>4. \A c \in Byte : CtrlChar(k, c) = k - 64
    BY <1>2, KeyNumbers DEF CtrlChar, Control
  <1>5. PICK c0 : c0 = IF "shift" \in m THEN k ELSE k + 32
    OBVIOUS
  <1>6. PICK c1 : c1 = IF "ctrl" \in m THEN CtrlChar(k, c0) ELSE c0
    OBVIOUS
  <1>7. PICK c2 : c2 = IF s.capslk /\ "alt" \notin m THEN CapsChar(c1) ELSE c1
    OBVIOUS
  <1>8. c0 \in Byte \ {0, 224}
    BY <1>2, <1>5 DEF Byte
  <1>9. CharsOf(s, k) = IF "alt" \in m THEN <<27, c2>> ELSE <<c2>>
    BY <1>1, <1>2, <1>3, <1>5, <1>6, <1>7, <1>8, PlainChars
  <1>10. c2 = IF "ctrl" \in m THEN k - 64
              ELSE IF ("shift" \in m) # (s.capslk /\ "alt" \notin m) THEN k ELSE k + 32
    BY <1>2, <1>4, <1>5, <1>6, <1>7, <1>8 DEF CapsChar
  <1>11. UsCharacter(k, m, s.capslk, num) = <<c2>>
    <2>1. c2 = IF s.capslk /\ "alt" \notin m THEN UsChosen(m, k - 64, k, k + 32)
               ELSE UsChosen(m, k - 64, k + 32, k)
      BY <1>10 DEF UsChosen
    <2>2. k # 45 /\ k # 91 /\ k # 32 /\ ~is_numpad(k)
      BY KeyNumbers DEF Letters, is_numpad
    <2>3. IsLetter(k) => k # 50 /\ k # 47
      BY DEF IsLetter
    <2> QED
      BY <1>2, <2>1, <2>2, <2>3 DEF UsCharacter
  <1>12. <<c2>> # << >> /\ <<27>> \o <<c2>> = <<27, c2>>
    <2>1. c2 \in Byte
      BY <1>2, <1>10 DEF Byte
    <2> QED
      BY <2>1, Joined
  <1>13. UsText(k, m, s.capslk, num) = IF "alt" \in m THEN <<27>> \o <<c2>> ELSE <<c2>>
    BY <1>11, <1>12 DEF UsText, ESC
  <1> QED
    BY <1>1, <1>9, <1>12, <1>13

LEMMA SignText ==
    ASSUME NEW s, NEW k \in {47, 50}, KEY.SYSRQ \notin s.mods, s.capslk \in BOOLEAN, NEW num
    PROVE  CharsOf(s, k) = UsText(k, Mods(s.mods), s.capslk, num)
  <1>1. PICK m : m = Mods(s.mods)
    OBVIOUS
  <1>2. k \in 32 .. 96 /\ ~IsLetter(k) /\ k # 105
    BY DEF IsLetter
  <1>3. keymap(k) = k /\ keymap_shift(k) = IF k = 47 THEN 63 ELSE 64
    BY <1>2 DEF keymap, keymap_shift
  <1>4. \A c \in Byte : CtrlChar(k, c) = IF k = 47 THEN 127 ELSE 0
    BY <1>2, KeyNumbers DEF CtrlChar, Control
  <1>5. PICK c0 : c0 = IF "shift" \in m THEN keymap_shift(k) ELSE keymap(k)
    OBVIOUS
  <1>6. PICK c1 : c1 = IF "ctrl" \in m THEN CtrlChar(k, c0) ELSE c0
    OBVIOUS
  <1>7. PICK c2 : c2 = IF s.capslk /\ "alt" \notin m THEN CapsChar(c1) ELSE c1
    OBVIOUS
  <1>8. c0 \in Byte \ {0, 224}
    BY <1>2, <1>3, <1>5 DEF Byte
  <1>9. CharsOf(s, k) = IF "alt" \in m THEN <<27, c2>> ELSE <<c2>>
    BY <1>1, <1>2, <1>3, <1>5, <1>6, <1>7, <1>8, PlainChars
  <1>10. c2 = IF "ctrl" \in m THEN (IF k = 47 THEN 127 ELSE 0)
              ELSE IF "shift" \in m THEN (IF k = 47 THEN 63 ELSE 64) ELSE k
    BY <1>2, <1>3, <1>4, <1>5, <1>6, <1>7, <1>8 DEF CapsChar
  <1>11. UsCharacter(k, m, s.capslk, num) = <<c2>>
    <2>1. c2 = IF k = 47 THEN UsChosen(m, 127, 47, 63) ELSE UsChosen(m, 0, 50, 64)
      BY <1>10 DEF UsChosen
    <2>2. k # 45 /\ k # 91 /\ k # 32 /\ ~is_numpad(k)
      BY KeyNumbers DEF Letters, is_numpad
    <2>3. IsLetter(k) => k # 50 /\ k # 47
      BY DEF IsLetter
    <2> QED
      BY <1>2, <2>1, <2>2, <2>3 DEF UsCharacter
  <1>12. <<c2>> # << >> /\ <<27>> \o <<c2>> = <<27, c2>>
    <2>1. c2 \in Byte
      BY <1>2, <1>10 DEF Byte
    <2> QED
      BY <2>1, Joined
  <1>13. UsText(k, m, s.capslk, num) = IF "alt" \in m THEN <<27>> \o <<c2>> ELSE <<c2>>
    BY <1>11, <1>12 DEF UsText, ESC
  <1> QED
    BY <1>1, <1>9, <1>12, <1>13

LEMMA DigitText ==
    ASSUME NEW s, NEW k \in {108, 109}, KEY.SYSRQ \notin s.mods, s.capslk \in BOOLEAN,
           "alt" \notin Mods(s.mods)
    PROVE  CharsOf(s, k) = UsText(k, Mods(s.mods), s.capslk, TRUE)
  <1>1. PICK m : m = Mods(s.mods)
    OBVIOUS
  <1>2. k \notin 32 .. 96 /\ ~IsLetter(k) /\ k # 105 /\ is_numpad(k) /\ numpad_index(k) = k - 100
    BY KeyNumbers DEF IsLetter, is_numpad, numpad_index
  <1>3. keymap(k) = k - 52
    BY <1>2 DEF keymap
  <1>4. \A c \in 56 .. 57 : CtrlChar(k, c) = c
    BY <1>2, KeyNumbers DEF CtrlChar, Control
  <1>5. PICK c0 : c0 = k - 52
    OBVIOUS
  <1>8. c0 \in Byte \ {0, 224} /\ c0 \in 56 .. 57
    BY <1>2, <1>5 DEF Byte
  <1>9. CharsOf(s, k) = <<c0>>
    <2>1. c0 = IF "ctrl" \in m THEN CtrlChar(k, c0) ELSE c0
      BY <1>4, <1>8
    <2>2. c0 = IF s.capslk /\ "alt" \notin m THEN CapsChar(c0) ELSE c0
      BY <1>8 DEF CapsChar
    <2> QED
      BY <1>1, <1>2, <1>3, <1>5, <1>8, <2>1, <2>2, PlainChars
  <1>10. 48 + numpad_index(k) = c0
    BY <1>2, <1>5
  <1>11. UsCharacter(k, m, s.capslk, TRUE) = <<c0>>
    BY <1>2, <1>10 DEF UsCharacter
  <1>12. <<c0>> # << >>
    OBVIOUS
  <1>13. UsText(k, m, s.capslk, TRUE) = <<c0>>
    BY <1>1, <1>11, <1>12 DEF UsText
  <1> QED
    BY <1>1, <1>9, <1>13

SequencesMeant(m, caps) ==
    /\ \A num : UsText(121, m, caps, num) = Sequence(121)
    /\ UsText(108, m, caps, FALSE) = Sequence(121)
    /\ UsText(109, m, caps, FALSE) = Sequence(116)
    /\ \A num : UsText(113, m, caps, num) = IF {"ctrl", "alt"} \subseteq m THEN << >> ELSE Sequence(113)
    /\ \A num : UsText(11, m, caps, num) = Sequence(11)
    /\ \A num : UsText(19, m, caps, num) = Sequence(19)

LEMMA SequenceText ==
    ASSUME NEW m, NEW caps
    PROVE  SequencesMeant(m, caps)
  <1>1. \A k \in {121, 108, 109, 113, 11, 19} : ~IsLetter(k) /\ k \notin {50, 47, 45, 91, 32}
    BY DEF IsLetter
  <1>2. ~is_numpad(121) /\ ~is_numpad(113) /\ ~is_numpad(11) /\ ~is_numpad(19)
    BY KeyNumbers DEF is_numpad
  <1>3. ASSUME NEW num PROVE UsText(121, m, caps, num) = Sequence(121)
    BY <1>1, <1>2, SequencesAre DEF UsText, UsCharacter, UsSequence, KEY, ESC
  <1>4. UsText(108, m, caps, FALSE) = Sequence(121)
    BY <1>1, <1>2, SequencesAre DEF UsText, UsCharacter, UsSequence, KEY, ESC
  <1>5. UsText(109, m, caps, FALSE) = Sequence(116)
    BY <1>1, <1>2, SequencesAre DEF UsText, UsCharacter, UsSequence, KEY, ESC
  <1>6. ASSUME NEW num
        PROVE  UsText(113, m, caps, num) = IF {"ctrl", "alt"} \subseteq m THEN << >> ELSE Sequence(113)
    BY <1>1, <1>2, SequencesAre DEF UsText, UsCharacter, UsSequence, KEY, ESC
  <1>7. ASSUME NEW num PROVE UsText(11, m, caps, num) = Sequence(11)
    BY <1>1, <1>2, SequencesAre DEF UsText, UsCharacter, UsSequence, KEY, ESC
  <1>8. ASSUME NEW num PROVE UsText(19, m, caps, num) = Sequence(19)
    BY <1>1, <1>2, SequencesAre DEF UsText, UsCharacter, UsSequence, KEY, ESC
  <1> QED
    BY <1>3, <1>4, <1>5, <1>6, <1>7, <1>8 DEF SequencesMeant

LEMMA SilentText ==
    ASSUME NEW k \in Silent, NEW m, NEW caps, NEW num PROVE UsText(k, m, caps, num) = << >>
  <1>1. ~IsLetter(k) /\ k \notin {50, 47, 45, 91, 32, 108, 109} /\ ~is_numpad(k)
    BY KeyNumbers DEF Silent, IsLetter, is_numpad
  <1> QED
    BY <1>1 DEF UsText, UsCharacter, UsSequence, KEY, Silent

(* A key's make code leads back to the key. *)
CodeOf(k, b) ==
    \/ KeyOf(FALSE, b) = k /\ Make(k) = <<b>>
    \/ KeyOf(TRUE, b) = k /\ Make(k) = <<224, b>>

LEMMA Codes ==
    ASSUME NEW k \in ModelledKeys, k # KEY.PAUSE
    PROVE  \E b \in 1 .. 90 : CodeOf(k, b)
  <1>0. k \in {1, 2, 3, 4, 5, 6, 28, 29, 30, 31, 121, 113, 65, 67, 71, 82, 50, 47, 109, 108, 11, 19}
    BY KeyNumbers DEF ModelledKeys
  <1>1. CASE k = 1
    <2>1. KeyOf(FALSE, 29) = k
      BY <1>1, KeyNumbers DEF KeyOf, scanmap
    <2>2. Make(k) = <<29>>
      BY <1>1, KeyNumbers DEF Make
    <2>3. CodeOf(k, 29)
      BY <2>1, <2>2, Zenon DEF CodeOf
    <2> QED
      BY <2>3
  <1>2. CASE k = 3
    <2>1. KeyOf(FALSE, 42) = k
      BY <1>2, KeyNumbers DEF KeyOf, scanmap
    <2>2. Make(k) = <<42>>
      BY <1>2, KeyNumbers DEF Make
    <2>3. CodeOf(k, 42)
      BY <2>1, <2>2, Zenon DEF CodeOf
    <2> QED
      BY <2>3
  <1>3. CASE k = 4
    <2>1. KeyOf(FALSE, 54) = k
      BY <1>3, KeyNumbers DEF KeyOf, scanmap
    <2>2. Make(k) = <<54>>
      BY <1>3, KeyNumbers DEF Make
    <2>3. CodeOf(k, 54)
      BY <2>1, <2>2, Zenon DEF CodeOf
    <2> QED
      BY <2>3
  <1>4. CASE k = 5
    <2>1. KeyOf(FALSE, 56) = k
      BY <1>4, KeyNumbers DEF KeyOf, scanmap
    <2>2. Make(k) = <<56>>
      BY <1>4, KeyNumbers DEF Make
    <2>3. CodeOf(k, 56)
      BY <2>1, <2>2, Zenon DEF CodeOf
    <2> QED
      BY <2>3
  <1>5. CASE k = 29
    <2>1. KeyOf(FALSE, 58) = k
      BY <1>5, KeyNumbers DEF KeyOf, scanmap
    <2>2. Make(k) = <<58>>
      BY <1>5, KeyNumbers DEF Make
    <2>3. CodeOf(k, 58)
      BY <2>1, <2>2, Zenon DEF CodeOf
    <2> QED
      BY <2>3
  <1>6. CASE k = 30
    <2>1. KeyOf(FALSE, 69) = k
      BY <1>6, KeyNumbers DEF KeyOf, scanmap
    <2>2. Make(k) = <<69>>
      BY <1>6, KeyNumbers DEF Make
    <2>3. CodeOf(k, 69)
      BY <2>1, <2>2, Zenon DEF CodeOf
    <2> QED
      BY <2>3
  <1>7. CASE k = 31
    <2>1. KeyOf(FALSE, 70) = k
      BY <1>7, KeyNumbers DEF KeyOf, scanmap
    <2>2. Make(k) = <<70>>
      BY <1>7, KeyNumbers DEF Make
    <2>3. CodeOf(k, 70)
      BY <2>1, <2>2, Zenon DEF CodeOf
    <2> QED
      BY <2>3
  <1>8. CASE k = 28
    <2>1. KeyOf(FALSE, 84) = k
      BY <1>8, KeyNumbers DEF KeyOf, scanmap
    <2>2. Make(k) = <<84>>
      BY <1>8, KeyNumbers DEF Make
    <2>3. CodeOf(k, 84)
      BY <2>1, <2>2, Zenon DEF CodeOf
    <2> QED
      BY <2>3
  <1>9. CASE k = 65
    <2>1. KeyOf(FALSE, 30) = k
      BY <1>9, KeyNumbers DEF KeyOf, scanmap
    <2>2. Make(k) = <<30>>
      BY <1>9, KeyNumbers DEF Make
    <2>3. CodeOf(k, 30)
      BY <2>1, <2>2, Zenon DEF CodeOf
    <2> QED
      BY <2>3
  <1>10. CASE k = 67
    <2>1. KeyOf(FALSE, 46) = k
      BY <1>10, KeyNumbers DEF KeyOf, scanmap
    <2>2. Make(k) = <<46>>
      BY <1>10, KeyNumbers DEF Make
    <2>3. CodeOf(k, 46)
      BY <2>1, <2>2, Zenon DEF CodeOf
    <2> QED
      BY <2>3
  <1>11. CASE k = 71
    <2>1. KeyOf(FALSE, 34) = k
      BY <1>11, KeyNumbers DEF KeyOf, scanmap
    <2>2. Make(k) = <<34>>
      BY <1>11, KeyNumbers DEF Make
    <2>3. CodeOf(k, 34)
      BY <2>1, <2>2, Zenon DEF CodeOf
    <2> QED
      BY <2>3
  <1>12. CASE k = 82
    <2>1. KeyOf(FALSE, 19) = k
      BY <1>12, KeyNumbers DEF KeyOf, scanmap
    <2>2. Make(k) = <<19>>
      BY <1>12, KeyNumbers DEF Make
    <2>3. CodeOf(k, 19)
      BY <2>1, <2>2, Zenon DEF CodeOf
    <2> QED
      BY <2>3
  <1>13. CASE k = 50
    <2>1. KeyOf(FALSE, 3) = k
      BY <1>13, KeyNumbers DEF KeyOf, scanmap
    <2>2. Make(k) = <<3>>
      BY <1>13, KeyNumbers DEF Make
    <2>3. CodeOf(k, 3)
      BY <2>1, <2>2, Zenon DEF CodeOf
    <2> QED
      BY <2>3
  <1>14. CASE k = 47
    <2>1. KeyOf(FALSE, 53) = k
      BY <1>14, KeyNumbers DEF KeyOf, scanmap
    <2>2. Make(k) = <<53>>
      BY <1>14, KeyNumbers DEF Make
    <2>3. CodeOf(k, 53)
      BY <2>1, <2>2, Zenon DEF CodeOf
    <2> QED
      BY <2>3
  <1>15. CASE k = 109
    <2>1. KeyOf(FALSE, 73) = k
      BY <1>15, KeyNumbers DEF KeyOf, scanmap
    <2>2. Make(k) = <<73>>
      BY <1>15, KeyNumbers DEF Make
    <2>3. CodeOf(k, 73)
      BY <2>1, <2>2, Zenon DEF CodeOf
    <2> QED
      BY <2>3
  <1>16. CASE k = 108
    <2>1. KeyOf(FALSE, 72) = k
      BY <1>16, KeyNumbers DEF KeyOf, scanmap
    <2>2. Make(k) = <<72>>
      BY <1>16, KeyNumbers DEF Make
    <2>3. CodeOf(k, 72)
      BY <2>1, <2>2, Zenon DEF CodeOf
    <2> QED
      BY <2>3
  <1>17. CASE k = 11
    <2>1. KeyOf(FALSE, 59) = k
      BY <1>17, KeyNumbers DEF KeyOf, scanmap
    <2>2. Make(k) = <<59>>
      BY <1>17, KeyNumbers DEF Make
    <2>3. CodeOf(k, 59)
      BY <2>1, <2>2, Zenon DEF CodeOf
    <2> QED
      BY <2>3
  <1>18. CASE k = 19
    <2>1. KeyOf(FALSE, 67) = k
      BY <1>18, KeyNumbers DEF KeyOf, scanmap
    <2>2. Make(k) = <<67>>
      BY <1>18, KeyNumbers DEF Make
    <2>3. CodeOf(k, 67)
      BY <2>1, <2>2, Zenon DEF CodeOf
    <2> QED
      BY <2>3
  <1>19. CASE k = 2
    <2>1. KeyOf(TRUE, 29) = k
      BY <1>19, KeyNumbers DEF KeyOf, scanmap_e0, KEY
    <2>2. Make(k) = <<224, 29>>
      BY <1>19, KeyNumbers DEF Make
    <2>3. CodeOf(k, 29)
      BY <2>1, <2>2, Zenon DEF CodeOf
    <2> QED
      BY <2>3
  <1>20. CASE k = 6
    <2>1. KeyOf(TRUE, 56) = k
      BY <1>20, KeyNumbers DEF KeyOf, scanmap_e0, KEY
    <2>2. Make(k) = <<224, 56>>
      BY <1>20, KeyNumbers DEF Make
    <2>3. CodeOf(k, 56)
      BY <2>1, <2>2, Zenon DEF CodeOf
    <2> QED
      BY <2>3
  <1>21. CASE k = 121
    <2>1. KeyOf(TRUE, 72) = k
      BY <1>21, KeyNumbers DEF KeyOf, scanmap_e0, KEY
    <2>2. Make(k) = <<224, 72>>
      BY <1>21, KeyNumbers DEF Make
    <2>3. CodeOf(k, 72)
      BY <2>1, <2>2, Zenon DEF CodeOf
    <2> QED
      BY <2>3
  <1>22. CASE k = 113
    <2>1. KeyOf(TRUE, 83) = k
      BY <1>22, KeyNumbers DEF KeyOf, scanmap_e0, KEY
    <2>2. Make(k) = <<224, 83>>
      BY <1>22, KeyNumbers DEF Make
    <2>3. CodeOf(k, 83)
      BY <2>1, <2>2, Zenon DEF CodeOf
    <2> QED
      BY <2>3
  <1> QED
    BY <1>0, <1>1, <1>2, <1>3, <1>4, <1>5, <1>6, <1>7, <1>8, <1>9, <1>10, <1>11, <1>12, <1>13, <1>14, <1>15, <1>16, <1>17, <1>18, <1>19, <1>20, <1>21, <1>22

(* The key the driver takes k for. *)
Under(k, num) == IF num THEN k ELSE Unlocked(k)

LEMMA EatCode ==
    ASSUME NEW s, ~s.e1, s.numlk \in BOOLEAN,
           NEW k, NEW b \in 1 .. 90, KeyOf(s.e0, b) = k, NEW key, key = Under(k, s.numlk)
    PROVE  /\ Eat(s, b) = Finish(Locked(s, FALSE, key, TRUE), key, FALSE)
           /\ Eat(s, b + 128) = Finish(Locked(s, FALSE, key, FALSE), key, TRUE)
  <1>1. /\ b % 128 = b /\ (b + 128) % 128 = b /\ b \notin {224, 225} /\ b + 128 \notin {224, 225}
        /\ (b < 128) = TRUE /\ (b + 128 < 128) = FALSE /\ (b >= 128) = FALSE /\ (b + 128 >= 128) = TRUE
    OBVIOUS
  <1>2. KeyOf(s.e0, b % 128) = k /\ KeyOf(s.e0, (b + 128) % 128) = k
    BY <1>1
  <1>3. KeyFor(s, b) = key /\ KeyFor(s, b + 128) = key
    BY <1>2 DEF KeyFor, Under
  <1>4. (s.e1 /\ KeyOf(s.e0, b % 128) # KEY.NUMLK) = FALSE
        /\ (s.e1 /\ KeyOf(s.e0, (b + 128) % 128) # KEY.NUMLK) = FALSE
    OBVIOUS
  <1>5. Decoded(s, b) = Locked(s, FALSE, key, TRUE)
    <2>1. Decoded(s, b) = Locked(s, s.e1 /\ KeyOf(s.e0, b % 128) # KEY.NUMLK, KeyFor(s, b), b < 128)
      BY DEF Decoded
    <2> QED
      BY <1>1, <1>3, <1>4, <2>1
  <1>6. Decoded(s, b + 128) = Locked(s, FALSE, key, FALSE)
    <2>1. Decoded(s, b + 128) =
            Locked(s, s.e1 /\ KeyOf(s.e0, (b + 128) % 128) # KEY.NUMLK, KeyFor(s, b + 128), b + 128 < 128)
      BY DEF Decoded
    <2> QED
      BY <1>1, <1>3, <1>4, <2>1
  <1>7. Eat(s, b) = Finish(Decoded(s, b), KeyFor(s, b), b >= 128)
    BY <1>1 DEF Eat
  <1>8. Eat(s, b + 128) = Finish(Decoded(s, b + 128), KeyFor(s, b + 128), b + 128 >= 128)
    BY <1>1 DEF Eat
  <1> QED
    BY <1>1, <1>3, <1>5, <1>6, <1>7, <1>8

Alike(f, s) ==
    /\ f.mods = s.mods /\ f.numlk = s.numlk /\ f.capslk = s.capslk /\ f.scrlk = s.scrlk
    /\ f.altchar = s.altchar /\ f.term = s.term /\ f.out = s.out

LEMMA LockedAlike ==
    ASSUME NEW f, NEW s, Alike(f, s), NEW e1, NEW key, NEW make
    PROVE  Locked(f, e1, key, make) = Locked(s, e1, key, make)
  BY DEF Alike, Locked

LEMMA EatPrefix ==
    ASSUME NEW s, s.e0 = FALSE, s.e1 = FALSE
    PROVE  /\ Eat(s, 224) = Flagged(s, 224) /\ Flagged(s, 224).e0 = TRUE /\ ~Flagged(s, 224).e1
           /\ Flagged(s, 224).numlk = s.numlk
           /\ Alike(Flagged(s, 224), s)
  <1>1. 224 \in {224, 225}
    OBVIOUS
  <1>2. Eat(s, 224) = Flagged(s, 224)
    BY <1>1 DEF Eat
  <1>3. PICK f : f = Flagged(s, 224)
    OBVIOUS
  <1>4. /\ f.e0 = TRUE /\ f.e1 = FALSE /\ f.mods = s.mods /\ f.numlk = s.numlk /\ f.capslk = s.capslk
        /\ f.scrlk = s.scrlk /\ f.altchar = s.altchar /\ f.term = s.term /\ f.out = s.out
    <2>1. (s.e0 \/ 224 = 224) = TRUE /\ (s.e1 \/ 224 = 225) = FALSE
      OBVIOUS
    <2>2. f = [e0 |-> TRUE, e1 |-> FALSE, mods |-> s.mods, numlk |-> s.numlk, capslk |-> s.capslk,
               scrlk |-> s.scrlk, altchar |-> s.altchar, term |-> s.term, out |-> s.out]
      BY <1>3, <2>1, Zenon DEF Flagged
    <2> QED
      BY <2>2
  <1> QED
    BY <1>2, <1>3, <1>4 DEF Alike

(* The state a press or a release of k leaves, in the driver's terms. *)
Struck(s, k, make) == Finish(Locked(s, FALSE, Under(k, s.numlk), make), Under(k, s.numlk), ~make)

LEMMA KeyEaten ==
    ASSUME NEW s, s.e0 = FALSE, s.e1 = FALSE, s.numlk \in BOOLEAN,
           NEW k \in ModelledKeys, k # KEY.PAUSE, FakeShift = FALSE, NEW held,
           NEW q \in Seq(Byte), NEW a, Leads(a, q, s)
    PROVE  /\ Leads(a, q \o PressBytes(k, held), Struck(s, k, TRUE))
           /\ Leads(a, q \o ReleaseBytes(k, held), Struck(s, k, FALSE))
  <1>1. PICK b \in 1 .. 90 : CodeOf(k, b)
    BY Codes
  <1>2. PressBytes(k, held) = Make(k) /\ ReleaseBytes(k, held) = BreakOf(k)
    <2>1. ~Bracketed(k, held)
      BY DEF Bracketed
    <2> QED
      BY <2>1 DEF PressBytes, ReleaseBytes
  <1>3. b \in Byte /\ b + 128 \in Byte /\ 224 \in Byte /\ b # 224
    BY DEF Byte
  <1>4. PICK key : key = Under(k, s.numlk)
    OBVIOUS
  <1>5. (~TRUE) = FALSE /\ (~FALSE) = TRUE
    OBVIOUS
  <1>6. CASE KeyOf(FALSE, b) = k /\ Make(k) = <<b>>
    <2>1. BreakOf(k) = <<b + 128>>
      BY <1>3, <1>6 DEF BreakOf
    <2>2. /\ Eat(s, b) = Finish(Locked(s, FALSE, key, TRUE), key, FALSE)
          /\ Eat(s, b + 128) = Finish(Locked(s, FALSE, key, FALSE), key, TRUE)
      <3>1. KeyOf(s.e0, b) = k /\ ~s.e1
        BY <1>6, Zenon
      <3> QED
        BY <1>4, <3>1, EatCode
    <2>3. Struck(s, k, TRUE) = Eat(s, b) /\ Struck(s, k, FALSE) = Eat(s, b + 128)
      BY <1>4, <1>5, <2>2 DEF Struck
    <2>4. <<b>> \in Seq(Byte) /\ <<b + 128>> \in Seq(Byte)
      BY <1>3
    <2>5. Leads(a, q \o <<b>>, Eat(s, b)) /\ Leads(a, q \o <<b + 128>>, Eat(s, b + 128))
      BY <1>3, <2>4, LeadsConcat
    <2> QED
      BY <1>2, <1>6, <2>1, <2>3, <2>5
  <1>7. CASE KeyOf(TRUE, b) = k /\ Make(k) = <<224, b>>
    <2>1. BreakOf(k) = <<224, b + 128>>
      <3>1. PICK m : m = Make(k)
        OBVIOUS
      <3>2. m = <<224, b>> /\ DOMAIN m = {1, 2} /\ m[1] = 224 /\ m[2] = b
        BY <1>7, <3>1
      <3>3. BreakOf(k) = [i \in {1, 2} |-> IF m[i] = 224 THEN 224 ELSE m[i] + 128]
        BY <3>1, <3>2 DEF BreakOf
      <3>4. [i \in {1, 2} |-> IF m[i] = 224 THEN 224 ELSE m[i] + 128] = <<224, b + 128>>
        BY <1>3, <3>2
      <3> QED
        BY <3>3, <3>4
    <2>2. PICK f : f = Flagged(s, 224)
      OBVIOUS
    <2>3. /\ Eat(s, 224) = f /\ f.e0 = TRUE /\ ~f.e1 /\ f.numlk = s.numlk
          /\ Locked(f, FALSE, key, TRUE) = Locked(s, FALSE, key, TRUE)
          /\ Locked(f, FALSE, key, FALSE) = Locked(s, FALSE, key, FALSE)
      <3>1. s.e0 = FALSE /\ s.e1 = FALSE
        OBVIOUS
      <3>2. Eat(s, 224) = f /\ ~f.e1 /\ f.numlk = s.numlk
        BY <2>2, <3>1, EatPrefix
      <3>3. f.e0 = TRUE
        BY <2>2, <3>1, EatPrefix
      <3>4. Alike(f, s)
        BY <2>2, <3>1, EatPrefix
      <3>5. /\ Locked(f, FALSE, key, TRUE) = Locked(s, FALSE, key, TRUE)
            /\ Locked(f, FALSE, key, FALSE) = Locked(s, FALSE, key, FALSE)
        <4>1. \A e, c, m : Locked(f, e, c, m) = Locked(s, e, c, m)
          BY <3>4, LockedAlike
        <4> QED
          BY <4>1, Zenon
      <3> QED
        BY <3>2, <3>3, <3>4, <3>5
    <2>4. /\ Eat(f, b) = Finish(Locked(f, FALSE, key, TRUE), key, FALSE)
          /\ Eat(f, b + 128) = Finish(Locked(f, FALSE, key, FALSE), key, TRUE)
      <3>1. key = Under(k, f.numlk) /\ f.numlk \in BOOLEAN
        BY <1>4, <2>3
      <3>2. KeyOf(f.e0, b) = k
        BY <1>7, <2>3, Zenon
      <3>3. ~f.e1
        BY <2>3
      <3> QED
        BY <3>1, <3>2, <3>3, EatCode
    <2>5. Struck(s, k, TRUE) = Eat(f, b) /\ Struck(s, k, FALSE) = Eat(f, b + 128)
      <3>1. /\ Struck(s, k, TRUE) = Finish(Locked(s, FALSE, key, TRUE), key, FALSE)
            /\ Struck(s, k, FALSE) = Finish(Locked(s, FALSE, key, FALSE), key, TRUE)
        BY <1>4, <1>5 DEF Struck
      <3>2. /\ Locked(f, FALSE, key, TRUE) = Locked(s, FALSE, key, TRUE)
            /\ Locked(f, FALSE, key, FALSE) = Locked(s, FALSE, key, FALSE)
        BY <2>3
      <3> QED
        BY <2>4, <3>1, <3>2, Zenon
    <2>6. PICK c \in Byte : c = b + 128
      BY <1>3
    <2>7. Leads(a, q \o <<224, b>>, Eat(f, b))
      <3>1. PICK g : g = Eat(f, b)
        OBVIOUS
      <3>2. g = Eat(Eat(s, 224), b)
        BY <2>3, <3>1, Zenon
      <3> QED
        BY <1>3, <3>1, <3>2, TwoMore
    <2>8. Leads(a, q \o <<224, c>>, Eat(f, c))
      <3>1. PICK g : g = Eat(f, c)
        OBVIOUS
      <3>2. g = Eat(Eat(s, 224), c)
        BY <2>3, <3>1, Zenon
      <3> QED
        BY <1>3, <3>1, <3>2, TwoMore
    <2>9. PressBytes(k, held) = <<224, b>>
      BY <1>2, <1>7, Zenon
    <2>10. ReleaseBytes(k, held) = <<224, c>>
      BY <1>2, <2>1, <2>6, Zenon
    <2>11. Struck(s, k, FALSE) = Eat(f, c)
      BY <2>5, <2>6, Zenon
    <2> QED
      BY <2>5, <2>7, <2>8, <2>9, <2>10, <2>11, Zenon
  <1> QED
    BY <1>1, <1>6, <1>7 DEF CodeOf

-------------------------------------------------------------------------------
(* A press and a release, as the driver and the user take them.             *)

State(mods, num, caps, scr, alt, term, text) ==
    [e0 |-> FALSE, e1 |-> FALSE, mods |-> mods, numlk |-> num, capslk |-> caps, scrlk |-> scr,
     altchar |-> alt, term |-> term, out |-> text]

Swallowed(m, key) == Resets(m, key) \/ Switches(m, key) \/ Counts(m, key)

StruckAs(t, s, key, p) ==
    /\ t = State(p.mods, p.numlk, p.capslk, p.scrlk,
                 IF Counts(Mods(p.mods), key) THEN AltDigit(s.altchar, key) ELSE s.altchar,
                 IF Switches(Mods(p.mods), key) THEN fnkey_index(key) ELSE s.term,
                 s.out \o (IF Swallowed(Mods(p.mods), key) THEN << >> ELSE CharsOf(p, key)))
    /\ p.mods = IF key \in ModKeys THEN s.mods \cup {key} ELSE s.mods
    /\ p.numlk = (s.numlk # (key = KEY.NUMLK)) /\ p.capslk = (s.capslk # (key = KEY.CAPSLK))
    /\ p.scrlk = (s.scrlk # (key = KEY.SCRLK))

LEMMA PressIs ==
    ASSUME NEW s, NEW k, NEW key, key = Under(k, s.numlk), NEW p,
           p = Pressed(Locked(s, FALSE, key, TRUE), key, FALSE)
    PROVE  StruckAs(Struck(s, k, TRUE), s, key, p)
  <1>1. PICK l : l = Locked(s, FALSE, key, TRUE)
    OBVIOUS
  <1>2. /\ l.e0 = FALSE /\ l.e1 = FALSE /\ l.mods = s.mods /\ l.numlk = (s.numlk # (key = KEY.NUMLK))
        /\ l.capslk = (s.capslk # (key = KEY.CAPSLK)) /\ l.scrlk = (s.scrlk # (key = KEY.SCRLK))
        /\ l.altchar = s.altchar /\ l.term = s.term /\ l.out = s.out
    BY <1>1 DEF Locked
  <1>3. /\ p.e0 = FALSE /\ p.e1 = FALSE /\ p.mods = handle_modifier(l, key, FALSE) /\ p.numlk = l.numlk
        /\ p.capslk = l.capslk /\ p.scrlk = l.scrlk
        /\ p.altchar = s.altchar /\ p.term = s.term /\ p.out = s.out
    BY <1>1, <1>2 DEF Pressed
  <1>4. p.mods = IF key \in ModKeys THEN s.mods \cup {key} ELSE s.mods
    BY <1>2, <1>3 DEF handle_modifier
  <1>5. ~Submits(p, key, FALSE)
    BY DEF Submits
  <1>6. Chars(p, key, FALSE) = IF Swallowed(Mods(p.mods), key) THEN << >> ELSE CharsOf(p, key)
    BY <1>5 DEF Chars, Swallowed
  <1>7. Struck(s, k, TRUE) = Handled(p, key, FALSE)
    <2>1. (~TRUE) = FALSE
      OBVIOUS
    <2> QED
      BY <2>1, Zenon DEF Struck, Finish
  <1>8. Handled(p, key, FALSE) =
          State(p.mods, p.numlk, p.capslk, p.scrlk,
                IF Counts(Mods(p.mods), key) THEN AltDigit(s.altchar, key) ELSE s.altchar,
                IF Switches(Mods(p.mods), key) THEN fnkey_index(key) ELSE s.term,
                s.out \o Chars(p, key, FALSE))
    BY <1>3, <1>5 DEF Handled, State
  <1> QED
    BY <1>2, <1>3, <1>4, <1>6, <1>7, <1>8 DEF StruckAs

LEMMA ReleaseIs ==
    ASSUME NEW s, NEW k, NEW key, key = Under(k, s.numlk),
           s.numlk \in BOOLEAN, s.capslk \in BOOLEAN, s.scrlk \in BOOLEAN
    PROVE  Struck(s, k, FALSE) =
             State(IF key \in ModKeys THEN s.mods \ {key} ELSE s.mods, s.numlk, s.capslk, s.scrlk,
                   IF is_alt(key) THEN 0 ELSE s.altchar, s.term,
                   IF is_alt(key) /\ s.altchar # 0 THEN s.out \o <<s.altchar>> ELSE s.out \o << >>)
  <1>1. PICK l : l = Locked(s, FALSE, key, FALSE)
    OBVIOUS
  <1>2. /\ l.e0 = FALSE /\ l.e1 = FALSE /\ l.mods = s.mods /\ l.numlk = s.numlk
        /\ l.capslk = s.capslk /\ l.scrlk = s.scrlk
        /\ l.altchar = s.altchar /\ l.term = s.term /\ l.out = s.out
    BY <1>1 DEF Locked
  <1>3. PICK p : p = Pressed(l, key, TRUE)
    OBVIOUS
  <1>4. /\ p.e0 = FALSE /\ p.e1 = FALSE /\ p.mods = handle_modifier(l, key, TRUE) /\ p.numlk = s.numlk
        /\ p.capslk = s.capslk /\ p.scrlk = s.scrlk
        /\ p.altchar = s.altchar /\ p.term = s.term /\ p.out = s.out
    BY <1>2, <1>3 DEF Pressed
  <1>5. p.mods = IF key \in ModKeys THEN s.mods \ {key} ELSE s.mods
    BY <1>2, <1>4 DEF handle_modifier
  <1>6. Submits(p, key, TRUE) = (is_alt(key) /\ s.altchar # 0)
    BY <1>4 DEF Submits, is_alt
  <1>7. s.out \o Chars(p, key, TRUE) =
          IF is_alt(key) /\ s.altchar # 0 THEN s.out \o <<s.altchar>> ELSE s.out \o << >>
    BY <1>4, <1>6 DEF Chars
  <1>8. Struck(s, k, FALSE) = Handled(p, key, TRUE)
    <2>1. (~FALSE) = TRUE
      OBVIOUS
    <2> QED
      BY <1>1, <1>3, <2>1, Zenon DEF Struck, Finish
  <1>9. (IF Submits(p, key, TRUE) THEN 0 ELSE s.altchar) = IF is_alt(key) THEN 0 ELSE s.altchar
    BY <1>6
  <1>10. Handled(p, key, TRUE) =
          State(p.mods, s.numlk, s.capslk, s.scrlk, IF Submits(p, key, TRUE) THEN 0 ELSE s.altchar, s.term,
                s.out \o Chars(p, key, TRUE))
    BY <1>4 DEF Handled, State
  <1> QED
    BY <1>5, <1>7, <1>8, <1>9, <1>10

LEMMA ModKeysAre == ModKeys = {1, 2, 3, 4, 5, 6, 23, 24, 28}
  BY DEF ModKeys, KEY

LEMMA ModsSame == ASSUME NEW h PROVE Mods(h \cap ModKeys) = Mods(h)
  <1>1. /\ (h \cap ModKeys) \cap {KEY.LCTRL, KEY.RCTRL} = h \cap {KEY.LCTRL, KEY.RCTRL}
        /\ (h \cap ModKeys) \cap {KEY.LALT, KEY.RALT} = h \cap {KEY.LALT, KEY.RALT}
        /\ (h \cap ModKeys) \cap {KEY.LSHIFT, KEY.RSHIFT} = h \cap {KEY.LSHIFT, KEY.RSHIFT}
    BY KeyNumbers, ModKeysAre
  <1> QED
    BY <1>1, Zenon DEF Mods

LEMMA UnderIs ==
    ASSUME NEW k \in ModelledKeys, NEW num \in BOOLEAN
    PROVE  /\ k \notin {108, 109} => Under(k, num) = k
           /\ num => Under(k, num) = k
           /\ ~num => Under(108, num) = 121 /\ Under(109, num) = 116
  BY KeyNumbers DEF Under, Unlocked, ModelledKeys, KEY

UserRight ==
    /\ user.num \in BOOLEAN /\ user.caps \in BOOLEAN /\ user.scr \in BOOLEAN
    /\ user.code \in Nat /\ user.text \in Seq(Byte)

LEMMA TypedIs ==
    ASSUME DOMAIN user = UserFields, NEW k, NEW w, w = Typed(k), NEW m, m = Mods(user.held),
           NEW counts, counts = (is_numpad(k) /\ user.num /\ "alt" \in m)
    PROVE  /\ DOMAIN w = UserFields /\ w.held = user.held \cup {k}
           /\ w.caps = (user.caps # (k = KEY.CAPSLK /\ KEY.CAPSLK \notin user.held))
           /\ w.num = (user.num # (k = KEY.NUMLK /\ KEY.NUMLK \notin user.held))
           /\ w.scr = (user.scr # (k = KEY.SCRLK /\ KEY.SCRLK \notin user.held))
           /\ w.term = IF Switches(m, k) THEN fnkey_index(k) ELSE user.term
           /\ w.code = IF counts THEN 10 * user.code + numpad_index(k) ELSE user.code
           /\ w.text = IF Switches(m, k) \/ counts \/ KEY.SYSRQ \in user.held THEN user.text
                       ELSE user.text \o UsText(k, m, user.caps, user.num)
  <1> DEFINE term == IF Switches(m, k) THEN fnkey_index(k) ELSE user.term
             code == IF counts THEN 10 * user.code + numpad_index(k) ELSE user.code
             text == IF Switches(m, k) \/ counts \/ KEY.SYSRQ \in user.held THEN user.text
                     ELSE user.text \o UsText(k, m, user.caps, user.num)
             cl == user.caps # (k = KEY.CAPSLK /\ KEY.CAPSLK \notin user.held)
             nl == user.num # (k = KEY.NUMLK /\ KEY.NUMLK \notin user.held)
             sl == user.scr # (k = KEY.SCRLK /\ KEY.SCRLK \notin user.held)
  <1>2. (is_fnkey(k) /\ m \cap {"ctrl", "alt"} = {"alt"} /\ fnkey_index(k) <= NR_TERMINAL) <=> Switches(m, k)
    BY DEF Switches
  <1>3. PICK e : w = [user EXCEPT !.held = @ \cup {k}, !.events = e, !.caps = cl, !.num = nl, !.scr = sl,
                         !.term = term, !.code = code, !.text = text]
    <2> DEFINE sw == is_fnkey(k) /\ m \cap {"ctrl", "alt"} = {"alt"} /\ fnkey_index(k) <= NR_TERMINAL
               cn == is_numpad(k) /\ user.num /\ "alt" \in m
    <2>1. w = [user EXCEPT !.held = @ \cup {k}, !.events = user.events + 1, !.caps = cl, !.num = nl, !.scr = sl,
                 !.term = IF sw THEN fnkey_index(k) ELSE @,
                 !.code = IF cn THEN 10 * @ + numpad_index(k) ELSE @,
                 !.text = IF sw \/ cn \/ KEY.SYSRQ \in user.held THEN @
                          ELSE @ \o UsText(k, m, user.caps, user.num)]
      BY DEF Typed
    <2>2. (IF sw THEN fnkey_index(k) ELSE user.term) = term
      BY <1>2
    <2>3. (IF cn THEN 10 * user.code + numpad_index(k) ELSE user.code) = code
      OBVIOUS
    <2>4. (IF sw \/ cn \/ KEY.SYSRQ \in user.held THEN user.text
           ELSE user.text \o UsText(k, m, user.caps, user.num)) = text
      BY <1>2
    <2> HIDE DEF sw, cn, term, code, text, cl, nl, sl
    <2> QED
      BY <2>1, <2>2, <2>3, <2>4
  <1> HIDE DEF term, code, text, cl, nl, sl
  <1>4. /\ DOMAIN w = UserFields /\ w.held = user.held \cup {k} /\ w.caps = cl /\ w.num = nl /\ w.scr = sl
        /\ w.term = term /\ w.code = code /\ w.text = text
    BY <1>3 DEF UserFields
  <1> QED
    BY <1>4 DEF term, code, text, cl, nl, sl

LEMMA MeantIs ==
    ASSUME NEW u
    PROVE  Meant(u) = State(u.held \cap ModKeys, u.num, u.caps, u.scr, u.code % 256, u.term, u.text)
  BY DEF Meant, State

LEMMA CodeWraps ==
    ASSUME NEW c \in Nat, NEW i \in 0 .. 9 PROVE (10 * (c % 256) + i) % 256 = (10 * c + i) % 256
  <1>1. PICK q \in Nat : c = 256 * q + (c % 256) /\ c % 256 \in 0 .. 255
    <2>1. c = 256 * (c \div 256) + (c % 256) /\ c \div 256 \in Nat /\ c % 256 \in 0 .. 255
      OBVIOUS
    <2> QED
      BY <2>1
  <1>2. PICK r \in 0 .. 255 : r = c % 256
    BY <1>1
  <1>3. 10 * c + i = (10 * r + i) + 256 * (10 * q)
    BY <1>1, <1>2
  <1>4. \A a \in Nat, n \in Nat : (a + 256 * n) % 256 = a % 256
    OBVIOUS
  <1>5. 10 * r + i \in Nat /\ 10 * q \in Nat
    OBVIOUS
  <1> QED
    BY <1>2, <1>3, <1>4, <1>5

LEMMA NothingTyped ==
    ASSUME NEW t \in Seq(Byte) PROVE t \o << >> = t
  BY ConcatEmptySeq

Sequenced == {KEY.UP, KEY.DELETE, KEY.F1, KEY.F1 + 8, 108, 109}

(* No false shifts, no lock key held until it repeats, and no key with a    *)
(* sequence beside SYSRQ.                                                   *)
PlainKeys ==
    /\ FakeShift = FALSE
    /\ Repeating \cap {KEY.CAPSLK, KEY.NUMLK, KEY.SCRLK} = {}
    /\ KEY.SYSRQ \in Keys => Keys \cap Sequenced = {}

LEMMA NoFlip == ASSUME NEW a \in BOOLEAN, NEW x \in BOOLEAN, ~x PROVE (a # x) = a
  OBVIOUS

LEMMA SameFlip ==
    ASSUME NEW a \in BOOLEAN, NEW x \in BOOLEAN, NEW y \in BOOLEAN, x <=> y PROVE (a # x) = (a # y)
  OBVIOUS

LEMMA CodeByte == ASSUME NEW c \in Nat PROVE c % 256 \in Byte
  BY DEF Byte

LEMMA PressMeans ==
    ASSUME Types, UserRight, PlainKeys, NEW k \in Keys, k # KEY.PAUSE,
           k \in Repeating \/ k \notin user.held, NEW w, w = Typed(k)
    PROVE  Struck(Meant(user), k, TRUE) = Meant(w)
  <1>0. /\ DOMAIN user = UserFields /\ k \in ModelledKeys /\ user.held \subseteq Keys
        /\ user.num \in BOOLEAN /\ user.caps \in BOOLEAN /\ user.scr \in BOOLEAN
        /\ user.code \in Nat /\ user.text \in Seq(Byte)
    BY KeyboardAssumption DEF Types, UserRight
  <1>1. PICK s : s = Meant(user)
    OBVIOUS
  <1>2. /\ s.mods = user.held \cap ModKeys /\ s.numlk = user.num /\ s.capslk = user.caps
        /\ s.scrlk = user.scr /\ s.altchar = user.code % 256 /\ s.term = user.term /\ s.out = user.text
    BY <1>1 DEF Meant
  <1>3. PICK key : key = Under(k, s.numlk)
    OBVIOUS
  <1>4. PICK p : p = Pressed(Locked(s, FALSE, key, TRUE), key, FALSE)
    OBVIOUS
  <1>5. PICK alt, term, text :
          /\ alt = (IF Counts(Mods(p.mods), key) THEN AltDigit(s.altchar, key) ELSE s.altchar)
          /\ term = (IF Switches(Mods(p.mods), key) THEN fnkey_index(key) ELSE s.term)
          /\ text = s.out \o (IF Swallowed(Mods(p.mods), key) THEN << >> ELSE CharsOf(p, key))
    OBVIOUS
  <1>6. /\ Struck(s, k, TRUE) = State(p.mods, p.numlk, p.capslk, p.scrlk, alt, term, text)
        /\ p.mods = IF key \in ModKeys THEN s.mods \cup {key} ELSE s.mods
        /\ p.numlk = (s.numlk # (key = KEY.NUMLK)) /\ p.capslk = (s.capslk # (key = KEY.CAPSLK))
        /\ p.scrlk = (s.scrlk # (key = KEY.SCRLK))
    <2>1. StruckAs(Struck(s, k, TRUE), s, key, p)
      BY <1>3, <1>4, PressIs, Zenon
    <2> QED
      BY <1>5, <2>1, Zenon DEF StruckAs
  <1>7. PICK m : m = Mods(user.held)
    OBVIOUS
  <1>8. PICK counts \in BOOLEAN : counts = (is_numpad(k) /\ user.num /\ "alt" \in m)
    BY DEF is_numpad
  <1>9. /\ w.held = user.held \cup {k}
        /\ w.caps = (user.caps # (k = KEY.CAPSLK /\ KEY.CAPSLK \notin user.held))
        /\ w.num = (user.num # (k = KEY.NUMLK /\ KEY.NUMLK \notin user.held))
        /\ w.scr = (user.scr # (k = KEY.SCRLK /\ KEY.SCRLK \notin user.held))
        /\ w.term = IF Switches(m, k) THEN fnkey_index(k) ELSE user.term
        /\ w.code = IF counts THEN 10 * user.code + numpad_index(k) ELSE user.code
        /\ w.text = IF Switches(m, k) \/ counts \/ KEY.SYSRQ \in user.held THEN user.text
                    ELSE user.text \o UsText(k, m, user.caps, user.num)
    BY <1>0, <1>7, <1>8, TypedIs
  <1>10. /\ k \notin {108, 109} => key = k
         /\ user.num => key = k
         /\ ~user.num => (k = 108 => key = 121) /\ (k = 109 => key = 116)
    BY <1>0, <1>2, <1>3, UnderIs
  <1>11. k \in {1, 2, 3, 4, 5, 6, 28, 29, 30, 31, 121, 113, 65, 67, 71, 82, 50, 47, 109, 108, 11, 19}
    BY <1>0, KeyNumbers DEF ModelledKeys
  <1>12. p.numlk = w.num /\ p.capslk = w.caps /\ p.scrlk = w.scr
    <2>1. \A l \in {29, 30, 31} : (key = l) = (k = l) /\ (k = l => l \notin user.held)
      BY <1>10, <1>11, KeyNumbers DEF PlainKeys
    <2>2. ASSUME NEW a \in BOOLEAN, NEW l \in {29, 30, 31}
          PROVE  (a # (key = l)) = (a # (k = l /\ l \notin user.held))
      <3>1. PICK x \in BOOLEAN, y \in BOOLEAN : x = (key = l) /\ y = (k = l /\ l \notin user.held)
        OBVIOUS
      <3>2. x <=> y
        BY <2>1, <3>1
      <3> QED
        BY <3>1, <3>2, SameFlip, Zenon
    <2>3. /\ (user.num # (key = 30)) = (user.num # (k = 30 /\ 30 \notin user.held))
          /\ (user.caps # (key = 29)) = (user.caps # (k = 29 /\ 29 \notin user.held))
          /\ (user.scr # (key = 31)) = (user.scr # (k = 31 /\ 31 \notin user.held))
      <3>1. 29 \in {29, 30, 31} /\ 30 \in {29, 30, 31} /\ 31 \in {29, 30, 31}
        OBVIOUS
      <3> QED
        BY <1>0, <2>2, <3>1, Zenon
    <2>4. KEY.NUMLK = 30 /\ KEY.CAPSLK = 29 /\ KEY.SCRLK = 31
      BY KeyNumbers
    <2> QED
      <3>1. p.numlk = (user.num # (key = 30)) /\ w.num = (user.num # (k = 30 /\ 30 \notin user.held))
        BY <1>2, <1>6, <1>9, <2>4, Zenon
      <3>2. p.capslk = (user.caps # (key = 29)) /\ w.caps = (user.caps # (k = 29 /\ 29 \notin user.held))
        BY <1>2, <1>6, <1>9, <2>4, Zenon
      <3>3. p.scrlk = (user.scr # (key = 31)) /\ w.scr = (user.scr # (k = 31 /\ 31 \notin user.held))
        BY <1>2, <1>6, <1>9, <2>4, Zenon
      <3> QED
        BY <2>3, <3>1, <3>2, <3>3, Zenon
  <1>13. /\ p.mods = w.held \cap ModKeys
         /\ k \notin ModKeys => p.mods = user.held \cap ModKeys
    <2>1. (key \in ModKeys) <=> (k \in ModKeys)
      BY <1>0, <1>10, <1>11, ModKeysAre
    <2>2. key \in ModKeys => key = k
      BY <1>0, <1>10, <1>11, ModKeysAre
    <2> QED
      BY <1>2, <1>6, <1>9, <2>1, <2>2
  <1>14. k \notin ModKeys => Mods(p.mods) = m
    BY <1>7, <1>13, ModsSame
  <1>15. alt = w.code % 256 /\ term = w.term /\ text = w.text
    <2>1. CASE k \in Silent
      <3>1. key = k /\ ~is_numpad(k) /\ ~is_fnkey(k)
        BY <1>10, <2>1, KeyNumbers DEF Silent, is_numpad, is_fnkey
      <3>2. CharsOf(p, key) = << >> /\ UsText(k, m, user.caps, user.num) = << >>
        BY <2>1, <3>1, SilentChars, SilentText
      <3>3. ~counts /\ \A n : ~Counts(n, key) /\ ~Switches(n, key) /\ ~Switches(n, k)
        BY <1>8, <3>1 DEF Counts, Switches
      <3>4. text = user.text \o << >> /\ (w.text = user.text \/ w.text = user.text \o << >>)
        BY <1>2, <1>5, <1>9, <3>2
      <3>5. user.text \o << >> = user.text
        BY <1>0, NothingTyped
      <3> QED
        BY <1>2, <1>5, <1>9, <3>3, <3>4, <3>5
    <2>2. CASE k \in Letters \cup {47, 50}
      <3>1. key = k /\ ~is_numpad(k) /\ ~is_fnkey(k) /\ k \notin ModKeys /\ k \notin {KEY.DELETE, KEY.KPDOT}
        BY <1>10, <2>2, KeyNumbers, ModKeysAre DEF Letters, is_numpad, is_fnkey, KEY
      <3>2. /\ ~counts
            /\ \A n : ~Counts(n, key) /\ ~Switches(n, key) /\ ~Switches(n, k) /\ ~Swallowed(n, key)
        BY <1>8, <3>1 DEF Counts, Switches, Swallowed, Resets
      <3>3. alt = w.code % 256 /\ term = w.term
        BY <1>2, <1>5, <1>9, <3>2
      <3>4. text = user.text \o CharsOf(p, k)
        BY <1>2, <1>5, <3>1, <3>2
      <3>5. p.capslk = user.caps
        <4>1. PICK x \in BOOLEAN : x = (key = KEY.CAPSLK)
          OBVIOUS
        <4>2. ~x
          <5>1. key # KEY.CAPSLK
            BY <2>2, <3>1, KeyNumbers DEF Letters
          <5> QED
            BY <4>1, <5>1, Zenon
        <4>3. (user.caps # x) = user.caps
          BY <1>0, <4>2, NoFlip
        <4> QED
          BY <1>2, <1>6, <4>1, <4>3, Zenon
      <3>6. Mods(p.mods) = m /\ (KEY.SYSRQ \in p.mods <=> KEY.SYSRQ \in user.held)
        BY <1>13, <1>14, <3>1, KeyNumbers, ModKeysAre
      <3>7. CASE KEY.SYSRQ \in user.held
        <4>1. CharsOf(p, k) = << >>
          BY <2>2, <3>6, <3>7, SysRqChars
        <4>2. user.text \o << >> = user.text
          BY <1>0, NothingTyped
        <4>3. w.text = user.text
          BY <1>9, <3>7
        <4> QED
          BY <3>3, <3>4, <4>1, <4>2, <4>3
      <3>8. CASE KEY.SYSRQ \notin user.held
        <4>1. CharsOf(p, k) = UsText(k, m, user.caps, user.num)
          BY <1>0, <2>2, <3>5, <3>6, <3>8, LetterText, SignText
        <4> QED
          BY <1>9, <3>2, <3>3, <3>4, <3>8, <4>1
      <3> QED
        BY <3>7, <3>8
    <2>3. CASE k \in {108, 109} /\ user.num
      <3>1. key = k /\ is_numpad(k) /\ ~is_fnkey(k) /\ k \notin ModKeys /\ k \notin {KEY.DELETE, KEY.KPDOT}
            /\ numpad_index(k) \in 0 .. 9
        BY <1>10, <2>3, KeyNumbers, ModKeysAre DEF is_numpad, is_fnkey, numpad_index, KEY
      <3>2. Mods(p.mods) = m
        BY <1>14, <3>1
      <3>3. /\ counts = ("alt" \in m) /\ Counts(m, key) = ("alt" \in m) /\ Swallowed(m, key) = ("alt" \in m)
            /\ ~Switches(m, key) /\ ~Switches(m, k)
        BY <1>8, <2>3, <3>1 DEF Counts, Switches, Swallowed, Resets
      <3>4. term = w.term
        BY <1>2, <1>5, <1>9, <3>2, <3>3
      <3>5. CASE "alt" \in m
        <4>1. alt = (10 * (user.code % 256) + numpad_index(k)) % 256
          BY <1>2, <1>5, <3>1, <3>2, <3>3, <3>5 DEF AltDigit
        <4>2. w.code % 256 = (10 * user.code + numpad_index(k)) % 256
          BY <1>9, <3>3, <3>5
        <4>3. alt = w.code % 256
          BY <1>0, <3>1, <4>1, <4>2, CodeWraps
        <4>4. text = user.text \o << >> /\ w.text = user.text
          BY <1>2, <1>5, <1>9, <3>2, <3>3, <3>5
        <4> QED
          BY <1>0, <3>4, <4>3, <4>4, NothingTyped
      <3>6. CASE "alt" \notin m
        <4>1. KEY.SYSRQ \notin user.held
          BY <1>0, <2>3 DEF PlainKeys, Sequenced
        <4>2. KEY.SYSRQ \notin p.mods
          BY <1>13, <3>1, <4>1
        <4>3. p.capslk = user.caps
          <5>1. PICK x \in BOOLEAN : x = (key = KEY.CAPSLK)
            OBVIOUS
          <5>2. ~x
            <6>1. key # KEY.CAPSLK
              BY <2>3, <3>1, KeyNumbers DEF Letters
            <6> QED
              BY <5>1, <6>1, Zenon
          <5>3. (user.caps # x) = user.caps
            BY <1>0, <5>2, NoFlip
          <5> QED
            BY <1>2, <1>6, <5>1, <5>3, Zenon
        <4>4. CharsOf(p, k) = UsText(k, m, user.caps, TRUE)
          <5>1. p.capslk \in BOOLEAN /\ "alt" \notin Mods(p.mods) /\ k \in {108, 109}
            BY <1>0, <2>3, <3>2, <3>6, <4>3
          <5>2. CharsOf(p, k) = UsText(k, Mods(p.mods), p.capslk, TRUE)
            BY <4>2, <5>1, DigitText, Zenon
          <5> QED
            BY <3>2, <4>3, <5>2, Zenon
        <4>5. text = user.text \o CharsOf(p, k)
          BY <1>2, <1>5, <3>1, <3>2, <3>3, <3>6
        <4>6. w.text = user.text \o UsText(k, m, user.caps, user.num)
          BY <1>9, <3>3, <3>6, <4>1
        <4>7. user.num = TRUE
          BY <1>0, <2>3
        <4>8. alt = w.code % 256
          BY <1>2, <1>5, <1>9, <3>2, <3>3, <3>6
        <4> QED
          BY <3>4, <4>4, <4>5, <4>6, <4>7, <4>8
      <3> QED
        BY <3>5, <3>6
    <2>4. CASE k \in {121, 113, 11, 19} \/ (k \in {108, 109} /\ ~user.num)
      <3>1. /\ key \in {121, 116, 113, 11, 19} /\ ~is_numpad(key) /\ k \notin ModKeys
            /\ (is_fnkey(k) <=> is_fnkey(key)) /\ (is_fnkey(k) => k = key)
            /\ (key \in {KEY.DELETE, KEY.KPDOT} <=> k = 113) /\ (is_fnkey(key) => k # 113)
        BY <1>10, <2>4, KeyNumbers, ModKeysAre DEF is_numpad, is_fnkey, KEY
      <3>2. Mods(p.mods) = m
        BY <1>14, <3>1
      <3>3. ~counts
        <4>1. is_numpad(k) => k \in {108, 109}
          BY <2>4, KeyNumbers DEF is_numpad
        <4>2. is_numpad(k) => ~user.num
          BY <2>4, <4>1
        <4> QED
          BY <1>8, <4>2
      <3>4. ~Counts(m, key) /\ (Switches(m, k) <=> Switches(m, key))
        BY <3>1 DEF Counts, Switches
      <3>5. alt = w.code % 256
        BY <1>2, <1>5, <1>9, <3>2, <3>3, <3>4
      <3>6. term = w.term
        <4>1. Switches(m, k) => k = key
          BY <3>1 DEF Switches
        <4> QED
          BY <1>2, <1>5, <1>9, <3>2, <3>4, <4>1
      <3>7. CharsOf(p, key) = Sequence(key)
        BY <3>1, SpecialChars
      <3>8. KEY.SYSRQ \notin user.held
        <4>1. k \in Sequenced
          BY <2>4, KeyNumbers DEF Sequenced
        <4>2. Keys \cap Sequenced # {}
          BY <4>1
        <4> QED
          BY <1>0, <4>2, Zenon DEF PlainKeys
      <3>9. UsText(k, m, user.caps, user.num) =
              IF k = 113 /\ {"ctrl", "alt"} \subseteq m THEN << >> ELSE Sequence(key)
        <4>1. CASE k \in {108, 109}
          <5>1. user.num = FALSE
            BY <1>0, <2>4, <4>1
          <5>2. /\ UsText(108, m, user.caps, FALSE) = Sequence(121)
                /\ UsText(109, m, user.caps, FALSE) = Sequence(116)
            <6>1. SequencesMeant(m, user.caps)
              BY SequenceText
            <6> QED
              BY <6>1 DEF SequencesMeant
          <5>3. k # 113 /\ ((k = 108 /\ key = 121) \/ (k = 109 /\ key = 116))
            BY <1>10, <4>1, <5>1
          <5>4. UsText(k, m, user.caps, user.num) = Sequence(key)
            BY <5>1, <5>2, <5>3, Zenon
          <5> QED
            BY <5>3, <5>4
        <4>2. CASE k \in {121, 113, 11, 19}
          <5>1. key = k
            BY <1>10, <4>2
          <5>2. \A num : /\ UsText(121, m, user.caps, num) = Sequence(121)
                         /\ UsText(113, m, user.caps, num) = IF {"ctrl", "alt"} \subseteq m THEN << >> ELSE Sequence(113)
                         /\ UsText(11, m, user.caps, num) = Sequence(11)
                         /\ UsText(19, m, user.caps, num) = Sequence(19)
            <6>1. SequencesMeant(m, user.caps)
              BY SequenceText
            <6> QED
              BY <6>1 DEF SequencesMeant
          <5> QED
            BY <4>2, <5>1, <5>2
        <4> QED
          BY <2>4, <4>1, <4>2
      <3>10. Resets(m, key) <=> (k = 113 /\ {"ctrl", "alt"} \subseteq m)
        BY <3>1 DEF Resets
      <3>11. Swallowed(m, key) <=> (Switches(m, k) \/ (k = 113 /\ {"ctrl", "alt"} \subseteq m))
        BY <3>4, <3>10 DEF Swallowed
      <3>12. Switches(m, k) => k # 113
        BY <3>1 DEF Switches
      <3>13. user.text \o << >> = user.text
        BY <1>0, NothingTyped
      <3>14. text = user.text \o (IF Swallowed(m, key) THEN << >> ELSE Sequence(key))
        BY <1>2, <1>5, <3>2, <3>7
      <3>15. w.text = IF Switches(m, k) THEN user.text ELSE user.text \o UsText(k, m, user.caps, user.num)
        BY <1>9, <3>3, <3>8
      <3>16. text = w.text
        <4>1. CASE Switches(m, k)
          BY <3>11, <3>13, <3>14, <3>15, <4>1
        <4>2. CASE ~Switches(m, k) /\ k = 113 /\ {"ctrl", "alt"} \subseteq m
          BY <3>9, <3>11, <3>14, <3>15, <4>2
        <4>3. CASE ~Switches(m, k) /\ ~(k = 113 /\ {"ctrl", "alt"} \subseteq m)
          BY <3>9, <3>11, <3>14, <3>15, <4>3
        <4> QED
          BY <4>1, <4>2, <4>3
      <3> QED
        BY <3>5, <3>6, <3>16
    <2> QED
      BY <1>0, <1>11, <2>1, <2>2, <2>3, <2>4 DEF Silent, Letters
  <1> QED
    BY <1>1, <1>6, <1>12, <1>13, <1>15, MeantIs

LEMMA ReleaseMeans ==
    ASSUME Types, UserRight, NEW k \in Keys, k # KEY.PAUSE, k \in user.held, NEW w,
           w = [user EXCEPT !.held = @ \ {k}, !.events = @ + 1,
                    !.code = IF is_alt(k) THEN 0 ELSE @,
                    !.text = IF is_alt(k) /\ user.code % 256 # 0
                             THEN Append(@, user.code % 256) ELSE @]
    PROVE  Struck(Meant(user), k, FALSE) = Meant(w)
  <1>0. /\ DOMAIN user = UserFields /\ k \in ModelledKeys
        /\ user.num \in BOOLEAN /\ user.caps \in BOOLEAN /\ user.scr \in BOOLEAN
        /\ user.code \in Nat /\ user.text \in Seq(Byte)
    BY KeyboardAssumption DEF Types, UserRight
  <1>1. PICK s : s = Meant(user)
    OBVIOUS
  <1>2. /\ s.mods = user.held \cap ModKeys /\ s.numlk = user.num /\ s.capslk = user.caps
        /\ s.scrlk = user.scr /\ s.altchar = user.code % 256 /\ s.term = user.term /\ s.out = user.text
    BY <1>1 DEF Meant
  <1>3. PICK key : key = Under(k, s.numlk)
    OBVIOUS
  <1>4. Struck(s, k, FALSE) =
             State(IF key \in ModKeys THEN s.mods \ {key} ELSE s.mods, s.numlk, s.capslk, s.scrlk,
                   IF is_alt(key) THEN 0 ELSE s.altchar, s.term,
                   IF is_alt(key) /\ s.altchar # 0 THEN s.out \o <<s.altchar>> ELSE s.out \o << >>)
    <2>1. s.numlk \in BOOLEAN /\ s.capslk \in BOOLEAN /\ s.scrlk \in BOOLEAN
      BY <1>0, <1>2
    <2> QED
      BY <1>3, <2>1, ReleaseIs, Zenon
  <1>5. /\ k \notin {108, 109} => key = k
        /\ user.num => key = k
        /\ ~user.num => (k = 108 => key = 121) /\ (k = 109 => key = 116)
    BY <1>0, <1>2, <1>3, UnderIs
  <1>6. k \in {1, 2, 3, 4, 5, 6, 28, 29, 30, 31, 121, 113, 65, 67, 71, 82, 50, 47, 109, 108, 11, 19}
    BY <1>0, KeyNumbers DEF ModelledKeys
  <1>7. /\ w.held = user.held \ {k} /\ w.num = user.num /\ w.caps = user.caps /\ w.scr = user.scr
        /\ w.term = user.term
        /\ w.code = IF is_alt(k) THEN 0 ELSE user.code
        /\ w.text = IF is_alt(k) /\ user.code % 256 # 0 THEN Append(user.text, user.code % 256) ELSE user.text
    BY <1>0 DEF UserFields
  <1>8. (IF key \in ModKeys THEN s.mods \ {key} ELSE s.mods) = w.held \cap ModKeys
    <2>1. (key \in ModKeys) <=> (k \in ModKeys)
      BY <1>0, <1>5, <1>6, ModKeysAre
    <2>2. key \in ModKeys => key = k
      BY <1>0, <1>5, <1>6, ModKeysAre
    <2> QED
      BY <1>2, <1>7, <2>1, <2>2
  <1>9. is_alt(key) <=> is_alt(k)
    BY <1>0, <1>5, <1>6, KeyNumbers DEF is_alt
  <1>10. (IF is_alt(key) THEN 0 ELSE s.altchar) = w.code % 256
    <2>1. 0 % 256 = 0
      OBVIOUS
    <2> QED
      BY <1>2, <1>7, <1>9, <2>1
  <1>11. (IF is_alt(key) /\ s.altchar # 0 THEN s.out \o <<s.altchar>> ELSE s.out \o << >>) = w.text
    <2>1. user.code % 256 \in Byte
      BY <1>0, CodeByte
    <2>2. Append(user.text, user.code % 256) = user.text \o <<user.code % 256>>
      BY <1>0, <2>1, AppendIsConcat
    <2>3. user.text \o << >> = user.text
      BY <1>0, NothingTyped
    <2> QED
      BY <1>2, <1>7, <1>9, <2>2, <2>3
  <1> QED
    <2>1. Struck(s, k, FALSE) =
            State(w.held \cap ModKeys, s.numlk, s.capslk, s.scrlk, w.code % 256, s.term, w.text)
      BY <1>4, <1>8, <1>10, <1>11, Zenon
    <2>2. s.numlk = w.num /\ s.capslk = w.caps /\ s.scrlk = w.scr /\ s.term = w.term
      BY <1>2, <1>7
    <2>3. Meant(w) = State(w.held \cap ModKeys, w.num, w.caps, w.scr, w.code % 256, w.term, w.text)
      BY MeantIs, Zenon
    <2> QED
      BY <1>1, <2>1, <2>2, <2>3, Zenon

-------------------------------------------------------------------------------
(* PAUSE, which means nothing and sends the most.                           *)

With(s, e0, e1, mods) ==
    [e0 |-> e0, e1 |-> e1, mods |-> mods, numlk |-> s.numlk, capslk |-> s.capslk, scrlk |-> s.scrlk,
     altchar |-> s.altchar, term |-> s.term, out |-> s.out]

Mute == {1, 7, 26}

LEMMA MuteIs ==
    ASSUME NEW key \in Mute
    PROVE  /\ key \in Silent /\ ~is_alt(key) /\ ~is_numpad(key) /\ ~is_fnkey(key)
           /\ key \notin {KEY.NUMLK, KEY.CAPSLK, KEY.SCRLK, KEY.DELETE, KEY.KPDOT}
           /\ (key \in ModKeys <=> key = 1)
  BY KeyNumbers, ModKeysAre DEF Mute, Silent, is_alt, is_numpad, is_fnkey, KEY

LEMMA MuteFinish ==
    ASSUME NEW l, NEW key \in Mute, l.out \in Seq(Byte)
    PROVE  /\ Finish(l, key, FALSE) = With(l, l.e0, l.e1, IF key = 1 THEN l.mods \cup {1} ELSE l.mods)
           /\ Finish(l, key, TRUE) = With(l, l.e0, l.e1, IF key = 1 THEN l.mods \ {1} ELSE l.mods)
  <1>1. l.out \o << >> = l.out
    BY NothingTyped
  <1>2. Finish(l, key, FALSE) = With(l, l.e0, l.e1, IF key = 1 THEN l.mods \cup {1} ELSE l.mods)
    <2>1. PICK p : p = Pressed(l, key, FALSE)
      OBVIOUS
    <2>2. /\ p.e0 = l.e0 /\ p.e1 = l.e1 /\ p.mods = handle_modifier(l, key, FALSE) /\ p.numlk = l.numlk
          /\ p.capslk = l.capslk /\ p.scrlk = l.scrlk
          /\ p.altchar = l.altchar /\ p.term = l.term /\ p.out = l.out
      BY <2>1 DEF Pressed
    <2>3. p.mods = IF key = 1 THEN l.mods \cup {1} ELSE l.mods
      BY <2>2, MuteIs DEF handle_modifier
    <2>4. Chars(p, key, FALSE) = << >>
      BY MuteIs, SilentChars DEF Chars, Submits
    <2>5. \A n : ~Counts(n, key) /\ ~Switches(n, key)
      BY MuteIs DEF Counts, Switches
    <2>6. ~Submits(p, key, FALSE)
      BY DEF Submits
    <2>7. Handled(p, key, FALSE) = With(l, l.e0, l.e1, p.mods)
      BY <1>1, <2>2, <2>4, <2>5, <2>6 DEF Handled, With
    <2>8. Finish(l, key, FALSE) = Handled(p, key, FALSE)
      BY <2>1, Zenon DEF Finish
    <2> QED
      BY <2>3, <2>7, <2>8, Zenon
  <1>3. Finish(l, key, TRUE) = With(l, l.e0, l.e1, IF key = 1 THEN l.mods \ {1} ELSE l.mods)
    <2>1. PICK p : p = Pressed(l, key, TRUE)
      OBVIOUS
    <2>2. /\ p.e0 = l.e0 /\ p.e1 = l.e1 /\ p.mods = handle_modifier(l, key, TRUE) /\ p.numlk = l.numlk
          /\ p.capslk = l.capslk /\ p.scrlk = l.scrlk
          /\ p.altchar = l.altchar /\ p.term = l.term /\ p.out = l.out
      BY <2>1 DEF Pressed
    <2>3. p.mods = IF key = 1 THEN l.mods \ {1} ELSE l.mods
      BY <2>2, MuteIs DEF handle_modifier
    <2>4. ~Submits(p, key, TRUE)
      BY MuteIs DEF Submits
    <2>5. Chars(p, key, TRUE) = << >>
      BY <2>4 DEF Chars
    <2>6. Handled(p, key, TRUE) = With(l, l.e0, l.e1, p.mods)
      BY <1>1, <2>2, <2>4, <2>5 DEF Handled, With
    <2>7. Finish(l, key, TRUE) = Handled(p, key, TRUE)
      BY <2>1, Zenon DEF Finish
    <2> QED
      BY <2>3, <2>6, <2>7, Zenon
  <1> QED
    BY <1>2, <1>3

Steady(s) == s.numlk \in BOOLEAN /\ s.capslk \in BOOLEAN /\ s.scrlk \in BOOLEAN /\ s.out \in Seq(Byte)
LocksKept(s, key) == \A e1, make : Locked(s, e1, key, make) = With(s, FALSE, e1, s.mods)

LEMMA MuteLocked ==
    ASSUME NEW s, Steady(s), NEW key \in Mute PROVE LocksKept(s, key)
  <1> SUFFICES ASSUME NEW e1, NEW make PROVE Locked(s, e1, key, make) = With(s, FALSE, e1, s.mods)
    BY DEF LocksKept
  <1>1. PICK x \in BOOLEAN, y \in BOOLEAN, z \in BOOLEAN :
          x = (make /\ key = KEY.NUMLK) /\ y = (make /\ key = KEY.CAPSLK) /\ z = (make /\ key = KEY.SCRLK)
    OBVIOUS
  <1>2. ~x /\ ~y /\ ~z
    BY <1>1, MuteIs
  <1>3. (s.numlk # x) = s.numlk /\ (s.capslk # y) = s.capslk /\ (s.scrlk # z) = s.scrlk
    BY <1>2, NoFlip DEF Steady
  <1> QED
    BY <1>1, <1>3, Zenon DEF Locked, With

EatsMutely(s, b, key, f) ==
    /\ b < 128 => Eat(s, b) = With(s, FALSE, f, IF key = 1 THEN s.mods \cup {1} ELSE s.mods)
    /\ b >= 128 => Eat(s, b) = With(s, FALSE, f, IF key = 1 THEN s.mods \ {1} ELSE s.mods)

LEMMA MuteEaten ==
    ASSUME NEW s, Steady(s),
           NEW b \in Byte \ {224, 225}, NEW key \in Mute, KeyFor(s, b) = key,
           NEW f, f = (s.e1 /\ KeyOf(s.e0, b % 128) # KEY.NUMLK)
    PROVE  EatsMutely(s, b, key, f)
  <1>1. PICK l : l = Locked(s, f, key, b < 128)
    OBVIOUS
  <1>2. l = With(s, FALSE, f, s.mods)
    <2>1. LocksKept(s, key)
      BY MuteLocked
    <2> QED
      BY <1>1, <2>1, Zenon DEF LocksKept
  <1>3. /\ l.e0 = FALSE /\ l.e1 = f /\ l.mods = s.mods /\ l.numlk = s.numlk /\ l.capslk = s.capslk
        /\ l.scrlk = s.scrlk /\ l.altchar = s.altchar /\ l.term = s.term /\ l.out = s.out
    BY <1>2 DEF With
  <1>4. \A m : With(l, l.e0, l.e1, m) = With(s, FALSE, f, m)
    BY <1>3 DEF With
  <1>5. Eat(s, b) = Finish(l, key, b >= 128)
    BY <1>1 DEF Eat, Decoded
  <1>6. /\ Finish(l, key, FALSE) = With(l, l.e0, l.e1, IF key = 1 THEN s.mods \cup {1} ELSE s.mods)
        /\ Finish(l, key, TRUE) = With(l, l.e0, l.e1, IF key = 1 THEN s.mods \ {1} ELSE s.mods)
    <2>1. l.out \in Seq(Byte)
      BY <1>3 DEF Steady
    <2>2. /\ Finish(l, key, FALSE) = With(l, l.e0, l.e1, IF key = 1 THEN l.mods \cup {1} ELSE l.mods)
          /\ Finish(l, key, TRUE) = With(l, l.e0, l.e1, IF key = 1 THEN l.mods \ {1} ELSE l.mods)
      BY <2>1, MuteFinish, Zenon
    <2>3. l.mods = s.mods
      BY <1>3
    <2> QED
      BY <2>2, <2>3, Zenon
  <1>7. ASSUME b < 128 PROVE Eat(s, b) = Finish(l, key, FALSE)
    <2>1. (b >= 128) = FALSE
      BY <1>7 DEF Byte
    <2> QED
      BY <1>5, <2>1, Zenon
  <1>8. ASSUME b >= 128 PROVE Eat(s, b) = Finish(l, key, TRUE)
    <2>1. (b >= 128) = TRUE
      BY <1>8 DEF Byte
    <2> QED
      BY <1>5, <2>1, Zenon
  <1> QED
    BY <1>4, <1>6, <1>7, <1>8, Zenon DEF EatsMutely

Between0(s, m) == With(s, FALSE, FALSE, m)
AfterE0(s, m) == With(s, TRUE, FALSE, m)
AfterE1(s, m) == With(s, FALSE, TRUE, m)

LEMMA PauseKeys ==
    /\ KeyOf(FALSE, 29) = 1 /\ KeyOf(FALSE, 69) = 30 /\ KeyOf(TRUE, 70) = 7
    /\ Unlocked(1) = 1 /\ Unlocked(7) = 7 /\ KEY.NUMLK = 30 /\ KEY.PAUSE = 26
  <1>1. KeyOf(FALSE, 29) = 1
    BY KeyNumbers DEF KeyOf, scanmap
  <1>2. KeyOf(FALSE, 69) = 30
    BY KeyNumbers DEF KeyOf, scanmap
  <1>3. KeyOf(TRUE, 70) = 7
    BY DEF KeyOf, scanmap_e0, KEY
  <1>4. Unlocked(1) = 1 /\ Unlocked(7) = 7
    BY DEF Unlocked
  <1> QED
    BY <1>1, <1>2, <1>3, <1>4, KeyNumbers

LEMMA FlagSteps ==
    ASSUME NEW s, NEW m
    PROVE  Eat(Between0(s, m), 225) = AfterE1(s, m) /\ Eat(Between0(s, m), 224) = AfterE0(s, m)
  <1>1. PICK t : t = With(s, FALSE, FALSE, m)
    OBVIOUS
  <1>2. /\ t.e0 = FALSE /\ t.e1 = FALSE /\ t.mods = m /\ t.numlk = s.numlk /\ t.capslk = s.capslk
        /\ t.scrlk = s.scrlk /\ t.altchar = s.altchar /\ t.term = s.term /\ t.out = s.out
    BY <1>1 DEF With
  <1>3. 225 \in {224, 225} /\ 224 \in {224, 225}
    OBVIOUS
  <1>4. Eat(t, 225) = Flagged(t, 225) /\ Eat(t, 224) = Flagged(t, 224)
    BY <1>3 DEF Eat
  <1>5. /\ (t.e0 \/ 225 = 224) = FALSE /\ (t.e1 \/ 225 = 225) = TRUE
        /\ (t.e0 \/ 224 = 224) = TRUE /\ (t.e1 \/ 224 = 225) = FALSE
    BY <1>2
  <1>6. Flagged(t, 225) = With(s, FALSE, TRUE, m)
    BY <1>2, <1>5, Zenon DEF Flagged, With
  <1>7. Flagged(t, 224) = With(s, TRUE, FALSE, m)
    BY <1>2, <1>5, Zenon DEF Flagged, With
  <1> QED
    BY <1>1, <1>4, <1>6, <1>7, Zenon DEF Between0, AfterE0, AfterE1

LEMMA CtrlInPause ==
    ASSUME NEW s, Steady(s), NEW m, NEW t, t = AfterE1(s, m), NEW b \in {29, 157}
    PROVE  Eat(t, b) = AfterE1(s, IF b = 29 THEN m \cup {1} ELSE m \ {1})
  <1>1. b % 128 = 29 /\ b \in Byte \ {224, 225}
    BY DEF Byte
  <1>2. /\ t.mods = m /\ t.numlk = s.numlk /\ t.capslk = s.capslk /\ t.scrlk = s.scrlk
        /\ t.altchar = s.altchar /\ t.term = s.term /\ t.out = s.out
    BY DEF AfterE1, With
  <1>3. t.e0 = FALSE
    BY DEF AfterE1, With
  <1>4. t.e1 = TRUE
    BY DEF AfterE1, With
  <1>5. KeyOf(t.e0, b % 128) = 1
    <2>1. KeyOf(FALSE, 29) = 1
      BY PauseKeys
    <2>2. b % 128 = 29
      BY <1>1
    <2> QED
      BY <1>3, <2>1, <2>2, Zenon
  <1>6. KeyFor(t, b) = 1
    BY <1>4, <1>5, PauseKeys DEF KeyFor
  <1>7. PICK f : f = (t.e1 /\ KeyOf(t.e0, b % 128) # KEY.NUMLK)
    OBVIOUS
  <1>8. f = TRUE
    <2>1. KeyOf(t.e0, b % 128) # KEY.NUMLK
      BY <1>5, PauseKeys
    <2> QED
      BY <1>4, <1>7, <2>1, Zenon
  <1>9. EatsMutely(t, b, 1, f)
    <2>1. 1 \in Mute
      BY DEF Mute
    <2>2. Steady(t)
      BY <1>2 DEF Steady
    <2>3. b \in Byte \ {224, 225}
      BY <1>1
    <2> QED
      BY <1>6, <1>7, <2>1, <2>2, <2>3, MuteEaten
  <1>b. \A n : With(t, FALSE, f, n) = With(s, FALSE, f, n)
    BY <1>2 DEF With
  <1>10. CASE b = 29
    <2>1. b < 128
      BY <1>10
    <2>2. Eat(t, b) = With(t, FALSE, f, m \cup {1})
      <3>1. Eat(t, b) = With(t, FALSE, f, IF 1 = 1 THEN t.mods \cup {1} ELSE t.mods)
        BY <1>9, <2>1, Zenon DEF EatsMutely
      <3>2. (IF 1 = 1 THEN t.mods \cup {1} ELSE t.mods) = m \cup {1}
        BY <1>2
      <3> QED
        BY <3>1, <3>2, Zenon
    <2>3. With(t, FALSE, f, m \cup {1}) = With(s, FALSE, f, m \cup {1})
      BY <1>b, Zenon
    <2> QED
      BY <1>8, <1>10, <2>2, <2>3, Zenon DEF AfterE1
  <1>11. CASE b = 157
    <2>1. b >= 128 /\ b # 29
      BY <1>11
    <2>2. Eat(t, b) = With(t, FALSE, f, m \ {1})
      <3>1. Eat(t, b) = With(t, FALSE, f, IF 1 = 1 THEN t.mods \ {1} ELSE t.mods)
        BY <1>9, <2>1, Zenon DEF EatsMutely
      <3>2. (IF 1 = 1 THEN t.mods \ {1} ELSE t.mods) = m \ {1}
        BY <1>2
      <3> QED
        BY <3>1, <3>2, Zenon
    <2>3. With(t, FALSE, f, m \ {1}) = With(s, FALSE, f, m \ {1})
      BY <1>b, Zenon
    <2> QED
      BY <1>8, <2>1, <2>2, <2>3, Zenon DEF AfterE1
  <1> QED
    BY <1>10, <1>11

LEMMA PauseEnds ==
    ASSUME NEW s, Steady(s), NEW m, NEW t, t = AfterE1(s, m), NEW b \in {69, 197}
    PROVE  Eat(t, b) = Between0(s, m)
  <1>1. b % 128 = 69 /\ b \in Byte \ {224, 225}
    BY DEF Byte
  <1>2. /\ t.mods = m /\ t.numlk = s.numlk /\ t.capslk = s.capslk /\ t.scrlk = s.scrlk
        /\ t.altchar = s.altchar /\ t.term = s.term /\ t.out = s.out
    BY DEF AfterE1, With
  <1>3. t.e0 = FALSE
    BY DEF AfterE1, With
  <1>4. t.e1 = TRUE
    BY DEF AfterE1, With
  <1>5. KeyOf(t.e0, b % 128) = 30
    <2>1. KeyOf(FALSE, 69) = 30
      BY PauseKeys
    <2>2. b % 128 = 69
      BY <1>1
    <2> QED
      BY <1>3, <2>1, <2>2, Zenon
  <1>6. KeyFor(t, b) = 26
    BY <1>4, <1>5, PauseKeys DEF KeyFor
  <1>7. PICK f : f = (t.e1 /\ KeyOf(t.e0, b % 128) # KEY.NUMLK)
    OBVIOUS
  <1>8. f = FALSE
    BY <1>4, <1>5, <1>7, PauseKeys
  <1>9. EatsMutely(t, b, 26, f)
    <2>1. 26 \in Mute
      BY DEF Mute
    <2>2. Steady(t)
      BY <1>2 DEF Steady
    <2>3. b \in Byte \ {224, 225}
      BY <1>1
    <2> QED
      BY <1>6, <1>7, <2>1, <2>2, <2>3, MuteEaten
  <1>b. \A n : With(t, FALSE, f, n) = With(s, FALSE, f, n)
    BY <1>2 DEF With
  <1>10. CASE b = 69
    <2>1. b < 128
      BY <1>10
    <2>2. Eat(t, b) = With(t, FALSE, f, m)
      <3>1. Eat(t, b) = With(t, FALSE, f, IF 26 = 1 THEN t.mods \cup {1} ELSE t.mods)
        BY <1>9, <2>1, Zenon DEF EatsMutely
      <3>2. (IF 26 = 1 THEN t.mods \cup {1} ELSE t.mods) = m
        BY <1>2
      <3> QED
        BY <3>1, <3>2, Zenon
    <2>3. With(t, FALSE, f, m) = With(s, FALSE, f, m)
      BY <1>b, Zenon
    <2> QED
      BY <1>8, <1>10, <2>2, <2>3, Zenon DEF Between0
  <1>11. CASE b = 197
    <2>1. b >= 128 /\ b # 69
      BY <1>11
    <2>2. Eat(t, b) = With(t, FALSE, f, m)
      <3>1. Eat(t, b) = With(t, FALSE, f, IF 26 = 1 THEN t.mods \ {1} ELSE t.mods)
        BY <1>9, <2>1, Zenon DEF EatsMutely
      <3>2. (IF 26 = 1 THEN t.mods \ {1} ELSE t.mods) = m
        BY <1>2
      <3> QED
        BY <3>1, <3>2, Zenon
    <2>3. With(t, FALSE, f, m) = With(s, FALSE, f, m)
      BY <1>b, Zenon
    <2> QED
      BY <1>8, <2>1, <2>2, <2>3, Zenon DEF Between0
  <1> QED
    BY <1>10, <1>11

LEMMA BreakEnds ==
    ASSUME NEW s, Steady(s), NEW m, NEW t, t = AfterE0(s, m), NEW b \in {70, 198}
    PROVE  Eat(t, b) = Between0(s, m)
  <1>1. b % 128 = 70 /\ b \in Byte \ {224, 225}
    BY DEF Byte
  <1>2. /\ t.mods = m /\ t.numlk = s.numlk /\ t.capslk = s.capslk /\ t.scrlk = s.scrlk
        /\ t.altchar = s.altchar /\ t.term = s.term /\ t.out = s.out
    BY DEF AfterE0, With
  <1>3. t.e0 = TRUE
    BY DEF AfterE0, With
  <1>4. t.e1 = FALSE
    BY DEF AfterE0, With
  <1>5. KeyOf(t.e0, b % 128) = 7
    <2>1. KeyOf(TRUE, 70) = 7
      BY PauseKeys
    <2>2. b % 128 = 70
      BY <1>1
    <2> QED
      BY <1>3, <2>1, <2>2, Zenon
  <1>6. KeyFor(t, b) = 7
    BY <1>4, <1>5, PauseKeys DEF KeyFor
  <1>7. PICK f : f = (t.e1 /\ KeyOf(t.e0, b % 128) # KEY.NUMLK)
    OBVIOUS
  <1>8. f = FALSE
    BY <1>4, <1>5, <1>7, PauseKeys
  <1>9. EatsMutely(t, b, 7, f)
    <2>1. 7 \in Mute
      BY DEF Mute
    <2>2. Steady(t)
      BY <1>2 DEF Steady
    <2>3. b \in Byte \ {224, 225}
      BY <1>1
    <2> QED
      BY <1>6, <1>7, <2>1, <2>2, <2>3, MuteEaten
  <1>b. \A n : With(t, FALSE, f, n) = With(s, FALSE, f, n)
    BY <1>2 DEF With
  <1>10. CASE b = 70
    <2>1. b < 128
      BY <1>10
    <2>2. Eat(t, b) = With(t, FALSE, f, m)
      <3>1. Eat(t, b) = With(t, FALSE, f, IF 7 = 1 THEN t.mods \cup {1} ELSE t.mods)
        BY <1>9, <2>1, Zenon DEF EatsMutely
      <3>2. (IF 7 = 1 THEN t.mods \cup {1} ELSE t.mods) = m
        BY <1>2
      <3> QED
        BY <3>1, <3>2, Zenon
    <2>3. With(t, FALSE, f, m) = With(s, FALSE, f, m)
      BY <1>b, Zenon
    <2> QED
      BY <1>8, <1>10, <2>2, <2>3, Zenon DEF Between0
  <1>11. CASE b = 198
    <2>1. b >= 128 /\ b # 70
      BY <1>11
    <2>2. Eat(t, b) = With(t, FALSE, f, m)
      <3>1. Eat(t, b) = With(t, FALSE, f, IF 7 = 1 THEN t.mods \ {1} ELSE t.mods)
        BY <1>9, <2>1, Zenon DEF EatsMutely
      <3>2. (IF 7 = 1 THEN t.mods \ {1} ELSE t.mods) = m
        BY <1>2
      <3> QED
        BY <3>1, <3>2, Zenon
    <2>3. With(t, FALSE, f, m) = With(s, FALSE, f, m)
      BY <1>b, Zenon
    <2> QED
      BY <1>8, <2>1, <2>2, <2>3, Zenon DEF Between0
  <1> QED
    BY <1>10, <1>11

LEMMA Associates ==
    ASSUME NEW p \in Seq(Byte), NEW q \in Seq(Byte), NEW r \in Seq(Byte) PROVE (p \o q) \o r = p \o (q \o r)
  BY ConcatAssociative

LEMMA PauseBytes ==
    /\ <<225, 29, 69, 225, 157, 197>> = (<<225, 29>> \o <<69, 225>>) \o <<157, 197>>
    /\ <<224, 70, 224, 198>> = <<224, 70>> \o <<224, 198>>
  <1>0. /\ <<225, 29, 69, 225, 157, 197>> \in Seq(Nat) /\ <<224, 70, 224, 198>> \in Seq(Nat)
        /\ <<225, 29>> \o <<69, 225>> \in Seq(Nat)
        /\ (<<225, 29>> \o <<69, 225>>) \o <<157, 197>> \in Seq(Nat)
        /\ <<224, 70>> \o <<224, 198>> \in Seq(Nat)
    <2>1. /\ <<225, 29>> \in Seq(Nat) /\ <<69, 225>> \in Seq(Nat) /\ <<157, 197>> \in Seq(Nat)
          /\ <<224, 70>> \in Seq(Nat) /\ <<224, 198>> \in Seq(Nat)
      OBVIOUS
    <2>2. <<225, 29, 69, 225, 157, 197>> \in Seq(Nat) /\ <<224, 70, 224, 198>> \in Seq(Nat)
      OBVIOUS
    <2>3. \A f \in Seq(Nat), g \in Seq(Nat) : f \o g \in Seq(Nat)
      OBVIOUS
    <2>4. <<225, 29>> \o <<69, 225>> \in Seq(Nat)
      BY <2>1, <2>3
    <2>5. (<<225, 29>> \o <<69, 225>>) \o <<157, 197>> \in Seq(Nat)
      <3>1. PICK f \in Seq(Nat), g \in Seq(Nat) : f = <<225, 29>> \o <<69, 225>> /\ g = <<157, 197>>
        BY <2>1, <2>4, Zenon
      <3>2. f \o g \in Seq(Nat)
        BY <2>3
      <3> QED
        BY <3>1, <3>2, Zenon
    <2>6. <<224, 70>> \o <<224, 198>> \in Seq(Nat)
      BY <2>1, <2>3
    <2> QED
      BY <2>2, <2>4, <2>5, <2>6
  <1>1. PICK x \in Seq(Nat), y \in Seq(Nat), z \in Seq(Nat), v \in Seq(Nat) :
          /\ x = <<225, 29, 69, 225, 157, 197>> /\ y = (<<225, 29>> \o <<69, 225>>) \o <<157, 197>>
          /\ z = <<224, 70, 224, 198>> /\ v = <<224, 70>> \o <<224, 198>>
    BY <1>0, Zenon
  <1>2. Len(x) = 6 /\ Len(y) = 6 /\ Len(z) = 4 /\ Len(v) = 4
    BY <1>1
  <1>3. x[1] = y[1] /\ x[2] = y[2] /\ x[3] = y[3] /\ x[4] = y[4] /\ x[5] = y[5] /\ x[6] = y[6]
    BY <1>1
  <1>4. z[1] = v[1] /\ z[2] = v[2] /\ z[3] = v[3] /\ z[4] = v[4]
    BY <1>1
  <1>5. ASSUME NEW i \in 1 .. 6 PROVE x[i] = y[i]
    <2>1. i = 1 \/ i = 2 \/ i = 3 \/ i = 4 \/ i = 5 \/ i = 6
      OBVIOUS
    <2> QED
      BY <1>3, <2>1, Zenon
  <1>6. ASSUME NEW i \in 1 .. 4 PROVE z[i] = v[i]
    <2>1. i = 1 \/ i = 2 \/ i = 3 \/ i = 4
      OBVIOUS
    <2> QED
      BY <1>4, <2>1, Zenon
  <1>7. x = y
    BY <1>2, <1>5, SeqEqual
  <1>8. z = v
    BY <1>2, <1>6, SeqEqual
  <1> QED
    BY <1>1, <1>7, <1>8

LEMMA PauseJoined ==
    ASSUME NEW q \in Seq(Byte)
    PROVE  ((q \o <<225, 29>>) \o <<69, 225>>) \o <<157, 197>> =
             q \o ((<<225, 29>> \o <<69, 225>>) \o <<157, 197>>)
  <1>0. <<225, 29>> \in Seq(Byte) /\ <<69, 225>> \in Seq(Byte) /\ <<157, 197>> \in Seq(Byte)
    BY DEF Byte
  <1>1. PICK x \in Seq(Byte), y \in Seq(Byte), z \in Seq(Byte) :
          x = <<225, 29>> /\ y = <<69, 225>> /\ z = <<157, 197>>
    BY <1>0, Zenon
  <1>2. PICK w \in Seq(Byte) : w = x \o y
    BY ConcatProperties
  <1>3. (q \o x) \o y = q \o w
    BY <1>2, Associates
  <1>4. (q \o w) \o z = q \o (w \o z)
    BY Associates
  <1>5. ((q \o x) \o y) \o z = q \o ((x \o y) \o z)
    BY <1>2, <1>3, <1>4
  <1> QED
    BY <1>1, <1>5, Zenon

LEMMA PauseLeads ==
    ASSUME NEW s, Steady(s), NEW m, NEW held, held \cap {KEY.LCTRL, KEY.RCTRL} = {} => 1 \notin m,
           NEW q \in Seq(Byte), NEW a, Leads(a, q, Between0(s, m))
    PROVE  Leads(a, q \o PressBytes(KEY.PAUSE, held), Between0(s, m))
  <1>0. /\ 225 \in Byte /\ 29 \in Byte /\ 69 \in Byte /\ 157 \in Byte /\ 197 \in Byte
        /\ 224 \in Byte /\ 70 \in Byte /\ 198 \in Byte
    BY DEF Byte
  <1>1. CASE held \cap {KEY.LCTRL, KEY.RCTRL} = {}
    <2>1. PressBytes(KEY.PAUSE, held) = (<<225, 29>> \o <<69, 225>>) \o <<157, 197>>
      <3>1. ~Bracketed(KEY.PAUSE, held)
        BY KeyNumbers DEF Bracketed
      <3>2. Make(KEY.PAUSE) = <<225, 29, 69, 225, 157, 197>>
        BY KeyNumbers DEF Make
      <3>3. PressBytes(KEY.PAUSE, held) = Make(KEY.PAUSE)
        BY <1>1, <3>1 DEF PressBytes
      <3> QED
        BY <3>2, <3>3, PauseBytes
    <2>2. AfterE1(s, m \cup {1}) = Eat(Eat(Between0(s, m), 225), 29)
      <3>1. Eat(Between0(s, m), 225) = AfterE1(s, m)
        BY FlagSteps
      <3>2. Eat(AfterE1(s, m), 29) = AfterE1(s, m \cup {1})
        BY CtrlInPause
      <3> QED
        BY <3>1, <3>2
    <2>3. AfterE1(s, m \cup {1}) = Eat(Eat(AfterE1(s, m \cup {1}), 69), 225)
      BY FlagSteps, PauseEnds
    <2>4. Between0(s, (m \cup {1}) \ {1}) = Eat(Eat(AfterE1(s, m \cup {1}), 157), 197)
      <3>1. Eat(AfterE1(s, m \cup {1}), 157) = AfterE1(s, (m \cup {1}) \ {1})
        BY CtrlInPause
      <3>2. \A n : Eat(AfterE1(s, n), 197) = Between0(s, n)
        BY PauseEnds
      <3> QED
        BY <3>1, <3>2
    <2>5. (m \cup {1}) \ {1} = m
      BY <1>1
    <2>6. PICK q1 \in Seq(Byte) : q1 = q \o <<225, 29>> /\ Leads(a, q1, AfterE1(s, m \cup {1}))
      <3>1. Leads(a, q \o <<225, 29>>, AfterE1(s, m \cup {1})) /\ q \o <<225, 29>> \in Seq(Byte)
        BY <1>0, <2>2, TwoMore
      <3> QED
        BY <3>1, Zenon
    <2>7. PICK q2 \in Seq(Byte) : q2 = q1 \o <<69, 225>> /\ Leads(a, q2, AfterE1(s, m \cup {1}))
      <3>1. Leads(a, q1 \o <<69, 225>>, AfterE1(s, m \cup {1})) /\ q1 \o <<69, 225>> \in Seq(Byte)
        <4>1. Leads(a, q1, AfterE1(s, m \cup {1}))
          BY <2>6
        <4> QED
          BY <1>0, <2>3, <4>1, TwoMore
      <3> QED
        BY <3>1, Zenon
    <2>8. PICK q3 \in Seq(Byte) : q3 = q2 \o <<157, 197>> /\ Leads(a, q3, Between0(s, (m \cup {1}) \ {1}))
      <3>1. Leads(a, q2 \o <<157, 197>>, Between0(s, (m \cup {1}) \ {1})) /\ q2 \o <<157, 197>> \in Seq(Byte)
        <4>1. Leads(a, q2, AfterE1(s, m \cup {1}))
          BY <2>7
        <4> QED
          BY <1>0, <2>4, <4>1, TwoMore
      <3> QED
        BY <3>1, Zenon
    <2>9. q3 = q \o ((<<225, 29>> \o <<69, 225>>) \o <<157, 197>>)
      BY <2>6, <2>7, <2>8, PauseJoined, Zenon
    <2> QED
      BY <2>1, <2>5, <2>8, <2>9
  <1>2. CASE held \cap {KEY.LCTRL, KEY.RCTRL} # {}
    <2>1. PressBytes(KEY.PAUSE, held) = <<224, 70>> \o <<224, 198>>
      <3>1. ~Bracketed(KEY.PAUSE, held)
        BY KeyNumbers DEF Bracketed
      <3>2. PressBytes(KEY.PAUSE, held) = <<224, 70, 224, 198>>
        BY <1>2, <3>1 DEF PressBytes
      <3> QED
        BY <3>2, PauseBytes
    <2>2. Between0(s, m) = Eat(Eat(Between0(s, m), 224), 70)
      BY FlagSteps, BreakEnds
    <2>3. Between0(s, m) = Eat(Eat(Between0(s, m), 224), 198)
      BY FlagSteps, BreakEnds
    <2>4. PICK q1 \in Seq(Byte) : q1 = q \o <<224, 70>> /\ Leads(a, q1, Between0(s, m))
      <3>1. Leads(a, q \o <<224, 70>>, Between0(s, m)) /\ q \o <<224, 70>> \in Seq(Byte)
        BY <1>0, <2>2, TwoMore
      <3> QED
        BY <3>1, Zenon
    <2>5. PICK q2 \in Seq(Byte) : q2 = q1 \o <<224, 198>> /\ Leads(a, q2, Between0(s, m))
      <3>1. Leads(a, q1 \o <<224, 198>>, Between0(s, m)) /\ q1 \o <<224, 198>> \in Seq(Byte)
        <4>1. Leads(a, q1, Between0(s, m))
          BY <2>4
        <4> QED
          BY <1>0, <2>3, <4>1, TwoMore
      <3> QED
        BY <3>1, Zenon
    <2>6. q2 = q \o (<<224, 70>> \o <<224, 198>>)
      <3>0. <<224, 70>> \in Seq(Byte) /\ <<224, 198>> \in Seq(Byte)
        BY <1>0
      <3>1. PICK x \in Seq(Byte), y \in Seq(Byte) : x = <<224, 70>> /\ y = <<224, 198>>
        BY <3>0, Zenon
      <3>2. (q \o x) \o y = q \o (x \o y)
        BY Associates
      <3> QED
        BY <2>4, <2>5, <3>1, <3>2
    <2> QED
      BY <2>1, <2>5, <2>6
  <1> QED
    BY <1>1, <1>2

LEMMA MeantPlain ==
    ASSUME NEW u
    PROVE  Meant(u) = Between0(Meant(u), u.held \cap ModKeys)
  <1>1. PICK s : s = Meant(u)
    OBVIOUS
  <1>2. /\ s.mods = u.held \cap ModKeys /\ s.numlk = u.num /\ s.capslk = u.caps
        /\ s.scrlk = u.scr /\ s.altchar = u.code % 256 /\ s.term = u.term /\ s.out = u.text
    BY <1>1 DEF Meant
  <1>3. With(s, FALSE, FALSE, u.held \cap ModKeys) = Meant(u)
    BY <1>2, Zenon DEF With, Meant
  <1> QED
    BY <1>1, <1>3, Zenon DEF Between0

LEMMA MeantSteady ==
    ASSUME UserRight PROVE Steady(Meant(user)) /\ Sees(Meant(user))
  <1>1. user.code % 256 \in Byte
    BY CodeByte DEF UserRight
  <1>2. PICK s : s = Meant(user)
    OBVIOUS
  <1>3. s.numlk = user.num /\ s.capslk = user.caps /\ s.scrlk = user.scr
        /\ s.altchar = user.code % 256 /\ s.out = user.text
    BY <1>2 DEF Meant
  <1>4. Steady(s) /\ Sees(s)
    BY <1>1, <1>3 DEF UserRight, Steady, Sees
  <1> QED
    BY <1>2, <1>4

LEMMA MeantSame ==
    ASSUME NEW u, NEW w, w.held \cap ModKeys = u.held \cap ModKeys, w.num = u.num, w.caps = u.caps,
           w.scr = u.scr, w.code = u.code, w.term = u.term, w.text = u.text
    PROVE  Meant(w) = Meant(u)
  BY Zenon DEF Meant

LEMMA PauseMeans ==
    ASSUME Types, UserRight, NEW w, w = Typed(KEY.PAUSE)
    PROVE  Meant(w) = Meant(user)
  <1>0. /\ DOMAIN user = UserFields /\ user.num \in BOOLEAN /\ user.caps \in BOOLEAN
        /\ user.scr \in BOOLEAN /\ user.text \in Seq(Byte)
    BY DEF Types, UserRight
  <1>1. PICK k : k = KEY.PAUSE
    OBVIOUS
  <1>2. k \in Mute /\ k # 1 /\ k # KEY.CAPSLK /\ k # KEY.NUMLK /\ k # KEY.SCRLK
    BY <1>1, KeyNumbers DEF Mute
  <1>3. ~is_numpad(k) /\ ~is_fnkey(k) /\ k \notin ModKeys /\ k \in Silent
    BY <1>2, MuteIs
  <1>4. PICK m : m = Mods(user.held)
    OBVIOUS
  <1>5. PICK counts : counts = (is_numpad(k) /\ user.num /\ "alt" \in m)
    OBVIOUS
  <1>6. ~counts /\ ~Switches(m, k)
    BY <1>3, <1>5 DEF Switches
  <1>7. w = Typed(k)
    BY <1>1
  <1>8. /\ w.held = user.held \cup {k}
        /\ w.caps = (user.caps # (k = KEY.CAPSLK /\ KEY.CAPSLK \notin user.held))
        /\ w.num = (user.num # (k = KEY.NUMLK /\ KEY.NUMLK \notin user.held))
        /\ w.scr = (user.scr # (k = KEY.SCRLK /\ KEY.SCRLK \notin user.held))
        /\ w.term = IF Switches(m, k) THEN fnkey_index(k) ELSE user.term
        /\ w.code = IF counts THEN 10 * user.code + numpad_index(k) ELSE user.code
        /\ w.text = IF Switches(m, k) \/ counts \/ KEY.SYSRQ \in user.held THEN user.text
                    ELSE user.text \o UsText(k, m, user.caps, user.num)
    BY <1>0, <1>4, <1>5, <1>7, TypedIs
  <1>9. w.caps = user.caps /\ w.num = user.num /\ w.scr = user.scr
    BY <1>0, <1>2, <1>8, NoFlip
  <1>10. w.term = user.term /\ w.code = user.code
    BY <1>6, <1>8
  <1>11. w.text = user.text
    <2>1. UsText(k, m, user.caps, user.num) = << >>
      BY <1>3, SilentText
    <2> QED
      BY <1>0, <1>8, <2>1, NothingTyped
  <1>12. w.held \cap ModKeys = user.held \cap ModKeys
    BY <1>3, <1>8
  <1> QED
    BY <1>9, <1>10, <1>11, <1>12, MeantSame

LEMMA PressLeads ==
    ASSUME Types, UserRight, PlainKeys, NEW k \in Keys, k \in Repeating \/ k \notin user.held,
           NEW w, w = Typed(k), NEW q \in Seq(Byte), NEW a, Leads(a, q, Meant(user))
    PROVE  Leads(a, q \o PressBytes(k, user.held), Meant(w))
  <1>0. k \in ModelledKeys /\ FakeShift = FALSE
    BY KeyboardAssumption DEF PlainKeys
  <1>1. PICK s : s = Meant(user)
    OBVIOUS
  <1>2. s.e0 = FALSE /\ s.e1 = FALSE /\ s.numlk \in BOOLEAN
    BY <1>1 DEF Meant, UserRight
  <1>3. CASE k # KEY.PAUSE
    <2>1. Leads(a, q \o PressBytes(k, user.held), Struck(s, k, TRUE))
      BY <1>0, <1>1, <1>2, <1>3, KeyEaten
    <2>2. Struck(s, k, TRUE) = Meant(w)
      BY <1>1, <1>3, PressMeans
    <2> QED
      BY <2>1, <2>2
  <1>4. CASE k = KEY.PAUSE
    <2>1. Meant(w) = s
      BY <1>1, <1>4, PauseMeans
    <2>2. PICK m : m = user.held \cap ModKeys
      OBVIOUS
    <2>3. s = Between0(s, m)
      BY <1>1, <2>2, MeantPlain
    <2>4. user.held \cap {KEY.LCTRL, KEY.RCTRL} = {} => 1 \notin m
      BY <2>2, KeyNumbers
    <2>5. Steady(s) /\ Leads(a, q, Between0(s, m))
      BY <1>1, <2>3, MeantSteady
    <2>6. Leads(a, q \o PressBytes(KEY.PAUSE, user.held), Between0(s, m))
      BY <2>4, <2>5, PauseLeads
    <2> QED
      BY <1>4, <2>1, <2>3, <2>6
  <1> QED
    BY <1>3, <1>4

Released(k) ==
    [user EXCEPT !.held = @ \ {k}, !.events = @ + 1,
                 !.code = IF is_alt(k) THEN 0 ELSE @,
                 !.text = IF is_alt(k) /\ user.code % 256 # 0
                          THEN Append(@, user.code % 256) ELSE @]

LEMMA ReleaseLeads ==
    ASSUME Types, UserRight, PlainKeys, NEW k \in Keys, k \in user.held, NEW h,
           NEW w, w = Released(k), NEW q \in Seq(Byte), NEW a, Leads(a, q, Meant(user))
    PROVE  Leads(a, q \o ReleaseBytes(k, h), Meant(w))
  <1>0. k \in ModelledKeys /\ FakeShift = FALSE
    BY KeyboardAssumption DEF PlainKeys
  <1>1. PICK s : s = Meant(user)
    OBVIOUS
  <1>2. s.e0 = FALSE /\ s.e1 = FALSE /\ s.numlk \in BOOLEAN
    BY <1>1 DEF Meant, UserRight
  <1>3. CASE k # KEY.PAUSE
    <2>1. Leads(a, q \o ReleaseBytes(k, h), Struck(s, k, FALSE))
      BY <1>0, <1>1, <1>2, <1>3, KeyEaten
    <2>2. Struck(s, k, FALSE) = Meant(w)
      BY <1>1, <1>3, ReleaseMeans DEF Released
    <2> QED
      BY <2>1, <2>2
  <1>4. CASE k = KEY.PAUSE
    <2>0. k = 26 /\ k \notin ModKeys /\ ~is_alt(k)
      BY <1>4, KeyNumbers, ModKeysAre DEF is_alt
    <2>1. /\ w.held = user.held \ {k} /\ w.num = user.num /\ w.caps = user.caps /\ w.scr = user.scr
          /\ w.code = user.code /\ w.term = user.term /\ w.text = user.text
      BY <2>0 DEF Released, Types, UserFields
    <2>2. w.held \cap ModKeys = user.held \cap ModKeys
      BY <2>0, <2>1
    <2>3. Meant(w) = s
      BY <1>1, <2>1, <2>2, MeantSame
    <2>4. ReleaseBytes(k, h) = << >>
      <3>1. ~Bracketed(k, h)
        BY <1>0 DEF Bracketed
      <3> QED
        BY <1>4, <3>1 DEF ReleaseBytes
    <2>5. q \o << >> = q
      BY NothingTyped
    <2> QED
      BY <1>1, <2>3, <2>4, <2>5
  <1> QED
    BY <1>3, <1>4

(* What the user does stays right. *)
LEMMA MeantRight ==
    ASSUME NEW w, w.num \in BOOLEAN, w.caps \in BOOLEAN, w.scr \in BOOLEAN, w.code \in Nat, Sees(Meant(w))
    PROVE  w.text \in Seq(Byte)
  <1>1. PICK s : s = Meant(w)
    OBVIOUS
  <1>2. s.out = w.text /\ s.out \in Seq(Byte)
    BY <1>1 DEF Meant, Sees
  <1> QED
    BY <1>2

LEMMA PressRight ==
    ASSUME Types, UserRight, PlainKeys, NEW k \in Keys, PressKey(k) PROVE UserRight'
  <1>0. /\ DOMAIN user = UserFields /\ user.num \in BOOLEAN /\ user.caps \in BOOLEAN
        /\ user.scr \in BOOLEAN /\ user.code \in Nat /\ k \in ModelledKeys
        /\ k \in Repeating \/ k \notin user.held
    BY KeyboardAssumption DEF Types, UserRight, PressKey
  <1>1. PICK w : w = Typed(k)
    OBVIOUS
  <1>2. user' = w
    BY <1>1 DEF PressKey
  <1>3. PICK m : m = Mods(user.held)
    OBVIOUS
  <1>4. PICK counts : counts = (is_numpad(k) /\ user.num /\ "alt" \in m)
    OBVIOUS
  <1>5. /\ w.caps = (user.caps # (k = KEY.CAPSLK /\ KEY.CAPSLK \notin user.held))
        /\ w.num = (user.num # (k = KEY.NUMLK /\ KEY.NUMLK \notin user.held))
        /\ w.scr = (user.scr # (k = KEY.SCRLK /\ KEY.SCRLK \notin user.held))
        /\ w.code = IF counts THEN 10 * user.code + numpad_index(k) ELSE user.code
    BY <1>0, <1>1, <1>3, <1>4, TypedIs
  <1>6. w.caps \in BOOLEAN /\ w.num \in BOOLEAN /\ w.scr \in BOOLEAN
    BY <1>5
  <1>7. w.code \in Nat
    <2>1. counts => numpad_index(k) \in Nat
      <3>1. KEY.KP0 \in Nat /\ KEY.KP9 \in Nat
        BY DEF KEY
      <3>2. counts => k \in KEY.KP0 .. KEY.KP9
        BY <1>4 DEF is_numpad
      <3> QED
        BY <3>1, <3>2 DEF numpad_index
    <2> QED
      BY <1>0, <1>5, <2>1
  <1>8. Leads(Meant(user), << >>, Meant(user)) /\ << >> \in Seq(Byte)
    BY MeantSteady, LeadsNowhere
  <1>9. PICK q \in Seq(Byte) : q = << >> \o PressBytes(k, user.held)
    BY <1>0, <1>8, KeyBytes, ConcatProperties
  <1>10. Leads(Meant(user), q, Meant(w))
    BY <1>0, <1>1, <1>8, <1>9, PressLeads
  <1>11. Sees(Meant(w))
    BY <1>10, LeadsEnds
  <1>12. w.text \in Seq(Byte)
    BY <1>6, <1>7, <1>11, MeantRight
  <1> QED
    BY <1>2, <1>6, <1>7, <1>12 DEF UserRight

LEMMA ReleaseRight ==
    ASSUME Types, UserRight, PlainKeys, NEW k \in Keys, ReleaseKey(k) PROVE UserRight'
  <1>1. user' = Released(k) /\ DOMAIN user = UserFields
    BY DEF ReleaseKey, Released, Types
  <1>2. /\ user'.num = user.num /\ user'.caps = user.caps /\ user'.scr = user.scr
        /\ user'.code = (IF is_alt(k) THEN 0 ELSE user.code)
        /\ user'.text = (IF is_alt(k) /\ user.code % 256 # 0 THEN Append(user.text, user.code % 256)
                         ELSE user.text)
    BY <1>1 DEF Released, UserFields
  <1>3. user.code % 256 \in Byte
    BY CodeByte DEF UserRight
  <1>4. Append(user.text, user.code % 256) \in Seq(Byte)
    BY <1>3, AppendProperties DEF UserRight
  <1>5. user'.code \in Nat /\ user'.text \in Seq(Byte)
    BY <1>2, <1>4 DEF UserRight
  <1> QED
    BY <1>2, <1>5 DEF UserRight

-------------------------------------------------------------------------------
(* The driver, a step at a time.                                            *)

LEMMA SeenIs ==
    ASSUME NEW k, NEW o, NEW s, s = Seen(k, o)
    PROVE  /\ s.e0 = k.e0 /\ s.e1 = k.e1 /\ s.mods = k.mods /\ s.numlk = k.numlk
           /\ s.capslk = k.capslk /\ s.scrlk = k.scrlk /\ s.altchar = k.altchar /\ s.term = k.term
           /\ s.out = o
  BY DEF Seen

LEMMA SeenSame ==
    ASSUME NEW k, NEW j, NEW o, j.e0 = k.e0, j.e1 = k.e1, j.mods = k.mods, j.numlk = k.numlk,
           j.capslk = k.capslk, j.scrlk = k.scrlk, j.altchar = k.altchar, j.term = k.term
    PROVE  Seen(j, o) = Seen(k, o)
  BY Zenon DEF Seen

LEMMA PrefixSeen ==
    ASSUME Types, Prefix(ps2.data), UNCHANGED out
    PROVE  Seen(kb', out') = Eat(Seen(kb, out), ps2.data)
  <1>0. DOMAIN kb = KbFields /\ ps2.data \in {224, 225}
    BY DEF Types, KbTypes, Prefix
  <1>1. kb' = [kb EXCEPT !.e0 = @ \/ ps2.data = 224, !.e1 = @ \/ ps2.data = 225]
    BY DEF Prefix
  <1>2. /\ kb'.e0 = (kb.e0 \/ ps2.data = 224) /\ kb'.e1 = (kb.e1 \/ ps2.data = 225)
        /\ kb'.mods = kb.mods /\ kb'.numlk = kb.numlk /\ kb'.capslk = kb.capslk /\ kb'.scrlk = kb.scrlk
        /\ kb'.altchar = kb.altchar /\ kb'.term = kb.term
    BY <1>0, <1>1 DEF KbFields
  <1>3. PICK s : s = Seen(kb, out)
    OBVIOUS
  <1>4. /\ s.e0 = kb.e0 /\ s.e1 = kb.e1 /\ s.mods = kb.mods /\ s.numlk = kb.numlk
        /\ s.capslk = kb.capslk /\ s.scrlk = kb.scrlk /\ s.altchar = kb.altchar /\ s.term = kb.term
        /\ s.out = out
    BY <1>3, SeenIs
  <1>5. Seen(kb', out') = Flagged(s, ps2.data)
    <2>1. PICK f : f = (s.e0 \/ ps2.data = 224)
      OBVIOUS
    <2>g. PICK g : g = (s.e1 \/ ps2.data = 225)
      OBVIOUS
    <2>2. kb'.e0 = f /\ kb'.e1 = g
      BY <1>2, <1>4, <2>1, <2>g
    <2>3. out' = out
      OBVIOUS
    <2>4. Flagged(s, ps2.data) =
            [e0 |-> f, e1 |-> g, mods |-> s.mods, numlk |-> s.numlk, capslk |-> s.capslk,
             scrlk |-> s.scrlk, altchar |-> s.altchar, term |-> s.term, out |-> s.out]
      BY <2>1, <2>g, Zenon DEF Flagged
    <2>5. Seen(kb', out') =
            [e0 |-> f, e1 |-> g, mods |-> s.mods, numlk |-> s.numlk, capslk |-> s.capslk,
             scrlk |-> s.scrlk, altchar |-> s.altchar, term |-> s.term, out |-> s.out]
      BY <1>2, <1>4, <2>2, <2>3, Zenon DEF Seen
    <2> QED
      BY <2>4, <2>5, Zenon
  <1> QED
    BY <1>0, <1>3, <1>5 DEF Eat

DecodedAs(k, c, s, b) ==
    /\ Seen(k, s.out) = Decoded(s, b) /\ c.key = KeyFor(s, b) /\ c.rel = (b >= 128)
    /\ c.pc \in {"key", "wr"}

LEMMA DecodeSeen ==
    ASSUME Types, Decode(ps2.data), kb.scset = 1, ~(kb.e0 /\ kb.e1), NEW s, s = Seen(kb, out)
    PROVE  DecodedAs(kb', cpu', s, ps2.data)
  <1>0. /\ DOMAIN kb = KbFields /\ CpuTypes(cpu) /\ kb.e0 \in BOOLEAN /\ kb.e1 \in BOOLEAN
        /\ kb.numlk \in BOOLEAN /\ kb.capslk \in BOOLEAN /\ kb.scrlk \in BOOLEAN /\ ps2.data \in Byte
    BY DEF Types, KbTypes, Ps2Types
  <1>s. /\ s.e0 = kb.e0 /\ s.e1 = kb.e1 /\ s.mods = kb.mods /\ s.numlk = kb.numlk
        /\ s.capslk = kb.capslk /\ s.scrlk = kb.scrlk /\ s.altchar = kb.altchar /\ s.term = kb.term
        /\ s.out = out
    BY SeenIs
  <1> DEFINE raw == KeyOf(kb.e0, ps2.data % 128)
             key == IF kb.e1 /\ raw = KEY.NUMLK THEN KEY.PAUSE
                    ELSE IF kb.numlk THEN raw ELSE Unlocked(raw)
             k1 == Prefixed(kb, ps2.data, raw)
             k2 == IF ps2.data >= 128 THEN k1 ELSE Toggled(k1, key)
             c1 == [cpu EXCEPT !.key = key, !.rel = ps2.data >= 128]
  <1>1. /\ DOMAIN k1 = KbFields /\ k1.mods = kb.mods /\ k1.numlk = kb.numlk /\ k1.capslk = kb.capslk
        /\ k1.scrlk = kb.scrlk /\ k1.altchar = kb.altchar /\ k1.term = kb.term
        /\ k1.e0 = FALSE /\ k1.e1 = (kb.e1 /\ raw # KEY.NUMLK)
    <2> HIDE DEF raw
    <2> QED
      BY <1>0 DEF Prefixed, KbFields
  <1>2. /\ k2.e0 = FALSE /\ k2.e1 = (kb.e1 /\ raw # KEY.NUMLK) /\ k2.mods = kb.mods
        /\ k2.altchar = kb.altchar /\ k2.term = kb.term
        /\ ps2.data >= 128 => k2.numlk = kb.numlk /\ k2.capslk = kb.capslk /\ k2.scrlk = kb.scrlk
        /\ ~(ps2.data >= 128) => /\ k2.numlk = (kb.numlk # (key = KEY.NUMLK))
                                 /\ k2.capslk = (kb.capslk # (key = KEY.CAPSLK))
                                 /\ k2.scrlk = (kb.scrlk # (key = KEY.SCRLK))
    <2> HIDE DEF k1, key, raw
    <2> QED
      BY <1>1 DEF Toggled, KbFields
  <1>3. CpuTypes(c1) /\ c1.key = key /\ c1.rel = (ps2.data >= 128)
    <2> HIDE DEF key
    <2> QED
      BY <1>0 DEF CpuTypes, CpuFields
  <1>4. kb' = k2 /\ cpu' = update_leds(k2, c1, "key")
    BY DEF Decode
  <1>5. cpu'.key = c1.key /\ cpu'.rel = c1.rel /\ cpu'.pc \in {"key", "wr"}
    <2> HIDE DEF k2, c1
    <2>1. CASE cpu' = Goto(c1, "key")
      BY <1>3, <2>1, GotoIs
    <2>2. CASE cpu' = [Send(c1, CMD.SETLED, "leds") EXCEPT !.ret = "key"]
      <3>1. PICK c : c = Send(c1, CMD.SETLED, "leds")
        OBVIOUS
      <3>2. CMD.SETLED \in Byte
        BY Numbers DEF Byte
      <3>3. CpuTypes(c) /\ c.pc = "wr" /\ c.key = c1.key /\ c.rel = c1.rel
        BY <1>3, <3>1, <3>2, SendIs
      <3>4. cpu' = [c EXCEPT !.ret = "key"]
        BY <2>2, <3>1
      <3> QED
        BY <3>3, <3>4 DEF CpuTypes, CpuFields
    <2> QED
      BY <1>4, <2>1, <2>2 DEF update_leds
  <1>6. key = KeyFor(s, ps2.data)
    BY <1>s DEF KeyFor
  <1> HIDE DEF key, k1, k2, c1
  <1>7. PICK mk : mk = (ps2.data < 128)
    OBVIOUS
  <1>8. /\ (s.numlk # (mk /\ key = KEY.NUMLK)) = k2.numlk
        /\ (s.capslk # (mk /\ key = KEY.CAPSLK)) = k2.capslk
        /\ (s.scrlk # (mk /\ key = KEY.SCRLK)) = k2.scrlk
    <2>0. ps2.data \in Nat
      BY <1>0 DEF Byte
    <2>1. mk \in BOOLEAN /\ (mk <=> ~(ps2.data >= 128))
      <3>1. (ps2.data < 128) <=> ~(ps2.data >= 128)
        BY <2>0
      <3>2. mk <=> ps2.data < 128
        BY <1>7
      <3>3. mk \in BOOLEAN
        BY <1>7
      <3> QED
        BY <3>1, <3>2, <3>3
    <2>2. CASE mk
      <3>1. ~(ps2.data >= 128)
        BY <2>1, <2>2
      <3> QED
        BY <1>0, <1>2, <1>s, <2>2, <3>1
    <2>3. CASE ~mk
      <3>1. ps2.data >= 128
        BY <2>1, <2>3
      <3> QED
        BY <1>0, <1>2, <1>s, <2>3, <3>1
    <2> QED
      BY <2>1, <2>2, <2>3
  <1>9. PICK f : f = (s.e1 /\ raw # KEY.NUMLK)
    OBVIOUS
  <1>10. f = k2.e1
    BY <1>2, <1>9, <1>s
  <1>11. Seen(k2, out) = Locked(s, f, key, mk)
    BY <1>2, <1>8, <1>10, <1>s, Zenon DEF Seen, Locked
  <1>12. Locked(s, f, key, mk) = Decoded(s, ps2.data)
    BY <1>6, <1>7, <1>9, <1>s, Zenon DEF Decoded
  <1> QED
    BY <1>3, <1>4, <1>5, <1>6, <1>11, <1>12, <1>s DEF DecodedAs

LEMMA CharsAlike ==
    ASSUME NEW a, NEW b, a.mods = b.mods, a.capslk = b.capslk, a.numlk = b.numlk, NEW key
    PROVE  CharsOf(a, key) = CharsOf(b, key)
  BY Zenon DEF CharsOf

LEMMA HandleSeen ==
    ASSUME Types, HandleKey, NEW s, s = Seen(kb, out)
    PROVE  Seen(kb', out') = Finish(s, cpu.key, cpu.rel)
  <1>0. DOMAIN kb = KbFields /\ cpu.rel \in BOOLEAN
    BY DEF Types, KbTypes, CpuTypes
  <1>s. /\ s.e0 = kb.e0 /\ s.e1 = kb.e1 /\ s.mods = kb.mods /\ s.numlk = kb.numlk
        /\ s.capslk = kb.capslk /\ s.scrlk = kb.scrlk /\ s.altchar = kb.altchar /\ s.term = kb.term
        /\ s.out = out
    BY SeenIs
  <1> DEFINE key == cpu.key
             k == [kb EXCEPT !.mods = handle_modifier(kb, key, cpu.rel)]
             m == Mods(k.mods)
             submit == cpu.rel /\ is_alt(key) /\ k.altchar # 0
             reset == ~cpu.rel /\ {"ctrl", "alt"} \subseteq m /\ key \in {KEY.DELETE, KEY.KPDOT}
             crash == ~cpu.rel /\ {"ctrl", "alt"} \subseteq m /\ is_fnkey(key) /\ k.crashkey = 0
             switch == ~cpu.rel /\ m \cap {"ctrl", "alt"} = {"alt"} /\ is_fnkey(key)
                       /\ fnkey_index(key) <= NR_TERMINAL
             digit == ~cpu.rel /\ "alt" \in m /\ is_numpad(key)
             chars == IF submit THEN <<k.altchar>>
                      ELSE IF cpu.rel \/ reset \/ switch \/ digit THEN << >>
                      ELSE CharsOf(k, key)
  <1>1. kb' = [k EXCEPT
                 !.altchar = IF submit THEN 0 ELSE IF digit THEN AltDigit(@, key) ELSE @,
                 !.crashkey = IF crash THEN fnkey_index(key) ELSE @,
                 !.term = IF switch THEN fnkey_index(key) ELSE @,
                 !.pollchar = IF chars = << >> THEN @ ELSE Last(chars)]
        /\ out' = out \o chars
    BY DEF HandleKey
  <1>2. PICK p : p = Pressed(s, key, cpu.rel)
    OBVIOUS
  <1>3. handle_modifier(s, key, cpu.rel) = handle_modifier(kb, key, cpu.rel)
    BY <1>s DEF handle_modifier
  <1>4. /\ p.e0 = kb.e0 /\ p.e1 = kb.e1 /\ p.mods = handle_modifier(kb, key, cpu.rel)
        /\ p.numlk = kb.numlk /\ p.capslk = kb.capslk /\ p.scrlk = kb.scrlk
        /\ p.altchar = kb.altchar /\ p.term = kb.term /\ p.out = out
    BY <1>2, <1>3, <1>s DEF Pressed
  <1>5. /\ DOMAIN k = KbFields /\ k.e0 = p.e0 /\ k.e1 = p.e1 /\ k.mods = p.mods
        /\ k.numlk = p.numlk /\ k.capslk = p.capslk /\ k.scrlk = p.scrlk
        /\ k.altchar = p.altchar /\ k.term = p.term
    <2>1. PICK h : h = handle_modifier(kb, key, cpu.rel)
      OBVIOUS
    <2>2. k = [kb EXCEPT !.mods = h]
      BY <2>1
    <2> HIDE DEF k
    <2> QED
      BY <1>0, <1>4, <2>1, <2>2 DEF KbFields
  <1>6. m = Mods(p.mods)
    BY <1>5
  <1>7. submit <=> Submits(p, key, cpu.rel)
    BY <1>5 DEF Submits
  <1>8. /\ reset <=> ~cpu.rel /\ Resets(Mods(p.mods), key)
        /\ switch <=> ~cpu.rel /\ Switches(Mods(p.mods), key)
        /\ digit <=> ~cpu.rel /\ Counts(Mods(p.mods), key)
    <2> HIDE DEF m, key
    <2> QED
      BY <1>6 DEF Resets, Switches, Counts
  <1>9. CharsOf(k, key) = CharsOf(p, key)
    <2> HIDE DEF k, key
    <2> QED
      BY <1>5, CharsAlike
  <1> HIDE DEF k, m, submit, reset, switch, digit, crash, key
  <1>10. chars = Chars(p, key, cpu.rel)
    BY <1>0, <1>5, <1>7, <1>8, <1>9 DEF Chars
  <1> HIDE DEF chars
  <1>11. PICK c, g : kb' = [k EXCEPT !.altchar = IF submit THEN 0 ELSE IF digit THEN AltDigit(@, key) ELSE @,
                               !.crashkey = c, !.term = IF switch THEN fnkey_index(key) ELSE @,
                               !.pollchar = g]
    BY <1>1, Zenon
  <1>12. /\ kb'.e0 = p.e0 /\ kb'.e1 = p.e1 /\ kb'.mods = p.mods /\ kb'.numlk = p.numlk
         /\ kb'.capslk = p.capslk /\ kb'.scrlk = p.scrlk
         /\ kb'.altchar = (IF submit THEN 0 ELSE IF digit THEN AltDigit(p.altchar, key) ELSE p.altchar)
         /\ kb'.term = IF switch THEN fnkey_index(key) ELSE p.term
    BY <1>5, <1>11 DEF KbFields
  <1>13. kb'.altchar = IF Submits(p, key, cpu.rel) THEN 0
                       ELSE IF ~cpu.rel /\ Counts(Mods(p.mods), key) THEN AltDigit(p.altchar, key)
                       ELSE p.altchar
    BY <1>7, <1>8, <1>12
  <1>14. kb'.term = IF ~cpu.rel /\ Switches(Mods(p.mods), key) THEN fnkey_index(key) ELSE p.term
    BY <1>8, <1>12
  <1>15. out' = p.out \o Chars(p, key, cpu.rel)
    BY <1>1, <1>4, <1>10
  <1>16. Seen(kb', out') = Handled(p, key, cpu.rel)
    BY <1>12, <1>13, <1>14, <1>15, Zenon DEF Seen, Handled
  <1> QED
    BY <1>2, <1>16 DEF Finish, key

LEMMA LeadsFirst ==
    ASSUME NEW a, NEW d \in Byte, NEW q \in Seq(Byte), NEW b, Leads(a, <<d>> \o q, b)
    PROVE  Leads(Eat(a, d), q, b)
  <1>1. PICK p : p = <<d>> \o q
    OBVIOUS
  <1>2. p \in Seq(Byte) /\ p # << >> /\ Head(p) = d /\ Tail(p) = q
    BY <1>1, InFront
  <1>3. Leads(a, p, b)
    BY <1>1
  <1> QED
    BY <1>2, <1>3, LeadsOn

(* The invariant: from where the driver is, the bytes on their way lead to  *)
(* where the user is.  While it handles a key it is where that ends.        *)
Working(c) == c.pc \in {"key", "wr", "rd", "leds"}

At(k, o, c) == IF Working(c) THEN Finish(Seen(k, o), c.key, c.rel) ELSE Seen(k, o)

TextInv ==
    /\ UserRight
    /\ ~kb.ready => Seen(kb, out) = Meant(user)
    /\ kb.ready /\ ~Stopped => Leads(At(kb, out, cpu), Pending, Meant(user))

LEMMA TextKept ==
    ASSUME TextInv, kb.ready, Seen(kb', out') = Seen(kb, out), user' = user, Pending' = Pending, kb'.ready,
           Working(cpu') <=> Working(cpu), Stopped => Stopped',
           Working(cpu) => cpu'.key = cpu.key /\ cpu'.rel = cpu.rel
    PROVE  TextInv'
  <1>1. At(kb', out', cpu') = At(kb, out, cpu)
    BY DEF At
  <1>2. UserRight'
    BY DEF TextInv, UserRight
  <1>3. ~Stopped' => Leads(At(kb', out', cpu'), Pending', Meant(user'))
    BY <1>1 DEF TextInv
  <1> QED
    BY <1>2, <1>3 DEF TextInv

LEMMA TextTyped ==
    ASSUME Types, TextInv, PlainKeys, kb.ready, NEW k \in Keys, PressKey(k) \/ ReleaseKey(k)
    PROVE  TextInv'
  <1>0. /\ kb' = kb /\ cpu' = cpu /\ ps2' = ps2 /\ out' = out /\ k \in ModelledKeys /\ UserRight
    BY KeyboardAssumption DEF PressKey, ReleaseKey, TextInv
  <1>1. UserRight'
    BY <1>0, PressRight, ReleaseRight
  <1>2. ASSUME ~Stopped PROVE Leads(At(kb, out, cpu), Pending', Meant(user'))
    <2>1. Leads(At(kb, out, cpu), Pending, Meant(user))
      BY <1>2 DEF TextInv
    <2>2. CASE PressKey(k)
      <3>1. /\ user' = Typed(k)
            /\ k \in Repeating \/ k \notin user.held
            /\ dev' = [dev EXCEPT !.q = @ \o PressBytes(k, user.held)]
        BY <2>2 DEF PressKey
      <3>2. Pending' = Pending \o PressBytes(k, user.held) /\ Pending \in Seq(Byte)
        BY <1>0, <3>1, KeyBytes, PendingMore
      <3>3. Leads(At(kb, out, cpu), Pending \o PressBytes(k, user.held), Meant(user'))
        BY <1>0, <2>1, <3>1, <3>2, PressLeads
      <3> QED
        BY <3>2, <3>3
    <2>3. CASE ReleaseKey(k)
      <3>1. /\ user' = Released(k) /\ k \in user.held
            /\ dev' = [dev EXCEPT !.q = @ \o ReleaseBytes(k, user.held \ {k})]
        BY <2>3 DEF ReleaseKey, Released
      <3>2. Pending' = Pending \o ReleaseBytes(k, user.held \ {k}) /\ Pending \in Seq(Byte)
        BY <1>0, <3>1, KeyBytes, PendingMore
      <3>3. Leads(At(kb, out, cpu), Pending \o ReleaseBytes(k, user.held \ {k}), Meant(user'))
        BY <1>0, <2>1, <3>1, <3>2, ReleaseLeads
      <3> QED
        BY <3>2, <3>3
    <2> QED
      BY <2>2, <2>3
  <1>3. kb'.ready /\ (Stopped' <=> Stopped) /\ At(kb', out', cpu') = At(kb, out, cpu)
    BY <1>0 DEF Stopped
  <1>4. ~Stopped' => Leads(At(kb', out', cpu'), Pending', Meant(user'))
    BY <1>2, <1>3
  <1> QED
    BY <1>1, <1>3, <1>4 DEF TextInv

LEMMA TextInterrupt ==
    ASSUME Types, RunInv, LedsInv, CodesInv, TextInv, OnlyLate, kb.ready, kb'.ready, kb_interrupt
    PROVE  TextInv'
  <1>0. /\ cpu.pc = "idle" /\ user' = user /\ out' = out /\ ps2.data \in Byte /\ dev.q \in Seq(Byte)
        /\ kb.scset = 1 /\ ~(kb.e0 /\ kb.e1) /\ kb.e0 \in BOOLEAN /\ kb.e1 \in BOOLEAN
    BY DEF kb_interrupt, Types, Ps2Types, DevTypes, KbTypes, LedsInv, RunLeds, CodesInv, Follows
  <1>1. ~Stopped /\ At(kb, out, cpu) = Seen(kb, out)
    BY <1>0 DEF Stopped, At, Working
  <1>2. Leads(Seen(kb, out), Pending, Meant(user))
    BY <1>1 DEF TextInv
  <1>3. /\ Pending' = dev.q
        /\ Pending = IF ps2.data \in StrayBytes THEN dev.q ELSE <<ps2.data>> \o dev.q
    BY PendingTaken
  <1>4. UserRight'
    BY <1>0 DEF TextInv, UserRight
  <1>5. CASE Stray(ps2.data)
    <2>1. kb' = kb /\ cpu' = cpu /\ ps2.data \in StrayBytes
      BY <1>5, Numbers DEF Stray, StrayBytes
    <2>2. Pending' = Pending /\ Seen(kb', out') = Seen(kb, out) /\ (Stopped => Stopped')
      BY <1>0, <1>3, <2>1 DEF Stopped
    <2> QED
      BY <1>0, <2>1, <2>2, TextKept
  <1>6. ASSUME ps2.data \notin StrayBytes
        PROVE  Leads(Eat(Seen(kb, out), ps2.data), Pending', Meant(user'))
    <2>1. Leads(Seen(kb, out), <<ps2.data>> \o dev.q, Meant(user))
      <3>1. Pending = <<ps2.data>> \o dev.q
        BY <1>3, <1>6
      <3> QED
        BY <1>2, <3>1, Zenon
    <2>2. Leads(Eat(Seen(kb, out), ps2.data), dev.q, Meant(user))
      BY <1>0, <2>1, LeadsFirst
    <2> QED
      BY <1>0, <1>3, <2>2
  <1>7. CASE Prefix(ps2.data)
    <2>1. cpu' = cpu /\ ps2.data \notin StrayBytes
      BY <1>7 DEF Prefix, StrayBytes
    <2>2. Seen(kb', out') = Eat(Seen(kb, out), ps2.data)
      BY <1>0, <1>7, PrefixSeen
    <2>3. At(kb', out', cpu') = Seen(kb', out')
      BY <1>0, <2>1 DEF At, Working
    <2>4. Leads(At(kb', out', cpu'), Pending', Meant(user'))
      BY <1>6, <2>1, <2>2, <2>3
    <2> QED
      BY <1>4, <2>4 DEF TextInv
  <1>8. CASE Decode(ps2.data)
    <2>1. ps2.data \notin StrayBytes /\ ps2.data \notin {224, 225}
      BY <1>8, Numbers DEF Decode, StrayBytes
    <2>2. PICK s : s = Seen(kb, out)
      OBVIOUS
    <2>3. DecodedAs(kb', cpu', s, ps2.data) /\ s.out = out
      BY <1>0, <1>8, <2>2, DecodeSeen, SeenIs
    <2>4. Working(cpu')
      BY <2>3 DEF DecodedAs, Working
    <2>5. At(kb', out', cpu') = Finish(Decoded(s, ps2.data), KeyFor(s, ps2.data), cpu'.rel)
      <3>1. Seen(kb', out') = Decoded(s, ps2.data)
        BY <1>0, <2>3 DEF DecodedAs
      <3>2. cpu'.key = KeyFor(s, ps2.data)
        BY <2>3 DEF DecodedAs
      <3>3. At(kb', out', cpu') = Finish(Seen(kb', out'), cpu'.key, cpu'.rel)
        BY <2>4 DEF At
      <3> QED
        BY <3>1, <3>2, <3>3, Zenon
    <2>6. cpu'.rel = (ps2.data >= 128)
      BY <2>3 DEF DecodedAs
    <2>7. Eat(s, ps2.data) = Finish(Decoded(s, ps2.data), KeyFor(s, ps2.data), cpu'.rel)
      BY <2>1, <2>6, Zenon DEF Eat
    <2>8. Leads(At(kb', out', cpu'), Pending', Meant(user'))
      BY <1>6, <2>1, <2>2, <2>5, <2>7
    <2> QED
      BY <1>4, <2>8 DEF TextInv
  <1> QED
    BY <1>5, <1>7, <1>8 DEF kb_interrupt

LEMMA TextRun ==
    ASSUME Types, RunInv, LedsInv, CodesInv, TextInv, OnlyLate, PlainKeys, kb.ready, Next
    PROVE  TextInv'
  <1>0. /\ DOMAIN kb = KbFields /\ CpuTypes(cpu) /\ kb'.ready
    BY RunStep DEF Types, KbTypes
  <1>2. cpu.pc \in {"wr", "rd", "idle", "leds", "key", "reset", "crash"}
    BY DEF RunInv, Heading, CodesInv
  <1>3. CASE Deliver
    <2>1. kb' = kb /\ cpu' = cpu /\ user' = user /\ out' = out
      BY <1>3 DEF Deliver
    <2>2. Pending' = Pending
      BY <1>3, PendingKept
    <2>3. Seen(kb', out') = Seen(kb, out) /\ (Stopped => Stopped')
      BY <2>1 DEF Stopped
    <2> QED
      BY <1>0, <2>1, <2>2, <2>3, TextKept
  <1>4. ASSUME NEW k \in Keys, PressKey(k) \/ ReleaseKey(k) PROVE TextInv'
    BY <1>4, TextTyped
  <1>5. CASE kb_getc
    <2>1. cpu' = cpu /\ user' = user /\ out' = out /\ (kb' = kb \/ kb' = [kb EXCEPT !.pollchar = 0])
      BY <1>5 DEF kb_getc
    <2>2. /\ kb'.e0 = kb.e0 /\ kb'.e1 = kb.e1 /\ kb'.mods = kb.mods /\ kb'.numlk = kb.numlk
          /\ kb'.capslk = kb.capslk /\ kb'.scrlk = kb.scrlk /\ kb'.altchar = kb.altchar
          /\ kb'.term = kb.term
      BY <1>0, <2>1 DEF KbFields
    <2>3. Seen(kb', out') = Seen(kb, out)
      BY <2>1, <2>2, SeenSame
    <2>4. Pending' = Pending /\ (Stopped => Stopped')
      BY <1>5, <2>1, PendingKept DEF Stopped
    <2> QED
      BY <1>0, <2>1, <2>3, <2>4, TextKept
  <1>6. CASE kb_wrport
    <2>1. kb' = kb /\ user' = user /\ out' = out /\ cpu' = Goto(cpu, "rd") /\ cpu.pc = "wr"
      BY <1>6 DEF kb_wrport, Goto
    <2>2. cpu'.pc = "rd" /\ cpu'.key = cpu.key /\ cpu'.rel = cpu.rel
      BY <1>0, <2>1, GotoIs
    <2>3. Working(cpu) /\ Working(cpu') /\ ~Stopped /\ Seen(kb', out') = Seen(kb, out)
      BY <2>1, <2>2 DEF Working, Stopped
    <2>4. Pending' = Pending
      BY <1>6, PendingKept
    <2> QED
      BY <1>0, <2>1, <2>2, <2>3, <2>4, TextKept
  <1>7. CASE kb_rdport
    <2>1. kb' = kb /\ user' = user /\ out' = out /\ cpu.pc = "rd"
      BY <1>7 DEF kb_rdport
    <2>2. PICK r \in Byte : cpu' = Answered(cpu, r)
      <3>1. 0 \in Byte /\ ps2.data \in Byte
        BY DEF Byte, Types, Ps2Types
      <3> QED
        BY <1>7, <3>1 DEF kb_rdport
    <2>3. cpu.then \in {"leds", "key"}
      BY <2>1 DEF LedsInv, RunLeds
    <2>4. AnsweredAs(cpu', cpu, r)
      BY <1>0, <2>2, AnsweredIs
    <2>5. cpu'.pc \in {"wr", cpu.then} /\ cpu'.key = cpu.key /\ cpu'.rel = cpu.rel
      <3>1. r = ACK \/ (r # ACK /\ r # 0 /\ cpu.left > 1) \/ (r # ACK /\ (r = 0 \/ cpu.left <= 1))
        BY <1>0, KeyboardAssumption DEF CpuTypes
      <3> QED
        BY <1>0, <2>4, <3>1 DEF AnsweredAs, CpuTypes
    <2>6. Working(cpu) /\ Working(cpu') /\ ~Stopped /\ Seen(kb', out') = Seen(kb, out)
      BY <2>1, <2>3, <2>5 DEF Working, Stopped
    <2>7. Pending' = Pending
      BY <1>7, PendingKept
    <2> QED
      BY <1>0, <2>1, <2>5, <2>6, <2>7, TextKept
  <1>8. CASE kb_setleds
    <2>1. user' = user /\ out' = out /\ cpu.pc = "leds" /\ cpu.ret = "key"
      BY <1>8 DEF kb_setleds, RunInv, Heading
    <2>2. /\ kb'.e0 = kb.e0 /\ kb'.e1 = kb.e1 /\ kb'.mods = kb.mods /\ kb'.numlk = kb.numlk
          /\ kb'.capslk = kb.capslk /\ kb'.scrlk = kb.scrlk /\ kb'.altchar = kb.altchar
          /\ kb'.term = kb.term
      BY <1>0, <1>8 DEF kb_setleds, KbFields
    <2>3. cpu'.pc \in {"key", "wr"} /\ cpu'.key = cpu.key /\ cpu'.rel = cpu.rel
      <3>1. CASE cpu' = Goto(cpu, cpu.ret)
        BY <1>0, <2>1, <3>1, GotoIs
      <3>2. CASE cpu' = Write(cpu, LedsOf(kb), cpu.ret)
        BY <1>0, <3>2, LedsOfRange, WriteIs
      <3> QED
        BY <1>8, <3>1, <3>2 DEF kb_setleds
    <2>4. Seen(kb', out') = Seen(kb, out)
      BY <2>1, <2>2, SeenSame
    <2>5. Working(cpu) /\ Working(cpu') /\ ~Stopped
      BY <2>1, <2>3 DEF Working, Stopped
    <2>6. Pending' = Pending
      BY <1>8, PendingKept
    <2> QED
      BY <1>0, <2>1, <2>3, <2>4, <2>5, <2>6, TextKept
  <1>9. CASE HandleKey
    <2>1. cpu.pc = "key" /\ user' = user
      BY <1>9 DEF HandleKey
    <2>2. PICK p \in {"idle", "crash", "reset"} : cpu' = [Idle EXCEPT !.pc = p]
      BY <1>9, Zenon DEF HandleKey, sysrq
    <2>3. cpu'.pc = p
      BY <2>2, IdleIs
    <2>4. Seen(kb', out') = Finish(Seen(kb, out), cpu.key, cpu.rel)
      BY <1>9, HandleSeen
    <2>5. ~Stopped /\ At(kb, out, cpu) = Finish(Seen(kb, out), cpu.key, cpu.rel)
      BY <2>1 DEF Stopped, At, Working
    <2>6. At(kb', out', cpu') = Seen(kb', out')
      BY <2>2, <2>3 DEF At, Working
    <2>7. Leads(At(kb, out, cpu), Pending, Meant(user)) /\ UserRight
      BY <2>5 DEF TextInv
    <2>8. Pending' = Pending
      BY <1>9, PendingKept
    <2>9. Leads(At(kb', out', cpu'), Pending', Meant(user'))
      BY <2>1, <2>4, <2>5, <2>6, <2>7, <2>8
    <2>10. UserRight'
      BY <2>1, <2>7 DEF UserRight
    <2> QED
      BY <1>0, <2>9, <2>10 DEF TextInv
  <1>10. CASE kb_interrupt
    BY <1>0, <1>10, TextInterrupt
  <1>11. ~init_ps2 /\ ~RewriteConfig /\ ~ConfigureKeyboard /\ ~EnableKeyboard /\ ~FinishInit
    <2>1. ~ConfigureKeyboard
      BY <1>2, ConfigureIs
    <2> QED
      BY <1>2, <2>1 DEF init_ps2, RewriteConfig, EnableKeyboard, FinishInit
  <1> QED
    BY <1>3, <1>4, <1>5, <1>6, <1>7, <1>8, <1>9, <1>10, <1>11 DEF Next, Driver

(* Until the driver is ready nobody types and nothing is decoded. *)
LEMMA TextBoot ==
    ASSUME Types, BootInv, TextInv, ~kb.ready, [Next]_vars
    PROVE  UserRight' /\ Seen(kb', out') = Meant(user')
  <1>0. DOMAIN kb = KbFields /\ UserRight /\ Seen(kb, out) = Meant(user)
    BY DEF Types, KbTypes, TextInv
  <1>1. cpu.pc \notin {"idle", "key"}
    BY DEF BootInv, Heading, BootLabels, CommandLabels, WriteLabels, ReadLabels
  <1>2. ~kb_interrupt /\ ~HandleKey /\ ~kb_getc
    BY <1>1 DEF kb_interrupt, HandleKey, kb_getc
  <1>3. \A k \in Keys : ~PressKey(k) /\ ~ReleaseKey(k)
    BY DEF PressKey, ReleaseKey, BootInv
  <1>4. /\ user' = user /\ out' = out
        /\ \/ kb' = kb
           \/ kb' = [kb EXCEPT !.scset = 1]
           \/ kb' = [kb EXCEPT !.leds = LedsOf(kb)]
           \/ kb' = [kb EXCEPT !.ready = TRUE]
    BY <1>2, <1>3 DEF Next, Driver, Deliver, kb_wrport, kb_rdport, init_ps2, RewriteConfig,
         ConfigureKeyboard, EnableKeyboard, kb_setleds, FinishInit, vars
  <1>5. /\ kb'.e0 = kb.e0 /\ kb'.e1 = kb.e1 /\ kb'.mods = kb.mods /\ kb'.numlk = kb.numlk
        /\ kb'.capslk = kb.capslk /\ kb'.scrlk = kb.scrlk /\ kb'.altchar = kb.altchar
        /\ kb'.term = kb.term
    BY <1>0, <1>4 DEF KbFields
  <1>6. Seen(kb', out') = Seen(kb, out)
    BY <1>4, <1>5, SeenSame
  <1> QED
    BY <1>0, <1>4, <1>6 DEF UserRight

LEMMA TextStep ==
    ASSUME OnlyLate, PlainKeys, Types, SetInv, LedsInv, CodesInv, TextInv, [Next]_vars PROVE TextInv'
  <1>1. CASE UNCHANGED vars
    BY <1>1 DEF vars, TextInv, UserRight, Stopped, Pending
  <1>2. CASE kb.ready /\ Next
    BY <1>2, TextRun DEF SetInv
  <1>3. CASE ~kb.ready
    <2>1. UserRight' /\ Seen(kb', out') = Meant(user')
      BY <1>3, TextBoot DEF SetInv
    <2>2. CASE kb'.ready
      <3>1. FinishInit /\ cpu.pc = "register"
        BY <1>3, <2>2, ReadyAt
      <3>2. None /\ dev.q = << >>
        BY <1>3, <3>1 DEF SetInv, BootInv, Between
      <3>3. cpu'.pc = "idle" /\ UNCHANGED <<ps2, dev>>
        BY <3>1, IdleIs DEF FinishInit
      <3>4. Pending' = << >>
        BY <3>2, <3>3 DEF Pending, None
      <3>5. Sees(Meant(user'))
        <4>1. PICK u : u = user'
          OBVIOUS
        <4>2. u.code \in Nat /\ u.text \in Seq(Byte)
          BY <2>1, <4>1 DEF UserRight
        <4>3. u.code % 256 \in Byte
          BY <4>2, CodeByte
        <4> QED
          BY <4>1, <4>2, <4>3 DEF Sees, Meant
      <3>6. Leads(Meant(user'), << >>, Meant(user'))
        BY <3>5, LeadsNowhere
      <3>7. At(kb', out', cpu') = Meant(user')
        BY <2>1, <3>3 DEF At, Working
      <3>8. Leads(At(kb', out', cpu'), Pending', Meant(user'))
        BY <3>4, <3>6, <3>7
      <3> QED
        BY <2>1, <2>2, <3>8 DEF TextInv
    <2>3. CASE ~kb'.ready
      BY <2>1, <2>3 DEF TextInv
    <2> QED
      BY <2>2, <2>3
  <1> QED
    BY <1>1, <1>2, <1>3

LEMMA TextInit == Init => TextInv
  <1> SUFFICES ASSUME Init PROVE TextInv
    OBVIOUS
  <1>1. /\ user.num = TRUE /\ user.caps = FALSE /\ user.scr = FALSE /\ user.code = 0 /\ user.term = 1
        /\ user.text = << >> /\ user.held = {}
    BY DEF Init
  <1>2. /\ kb.e0 = FALSE /\ kb.e1 = FALSE /\ kb.mods = {} /\ kb.numlk = TRUE /\ kb.capslk = FALSE
        /\ kb.scrlk = FALSE /\ kb.altchar = 0 /\ kb.term = 1 /\ ~kb.ready /\ out = << >>
    BY DEF Init
  <1>3. user.held \cap ModKeys = {} /\ user.code % 256 = 0
    BY <1>1
  <1>4. Seen(kb, out) = Meant(user)
    BY <1>1, <1>2, <1>3, Zenon DEF Seen, Meant
  <1>5. UserRight
    <2>1. user.num \in BOOLEAN /\ user.caps \in BOOLEAN /\ user.scr \in BOOLEAN
      BY <1>1
    <2>2. << >> \in Seq(Byte) /\ 0 \in Nat
      OBVIOUS
    <2> QED
      BY <1>1, <2>1, <2>2, Zenon DEF UserRight
  <1> QED
    BY <1>2, <1>4, <1>5 DEF TextInv

LEMMA TextSuffices ==
    ASSUME Types, TextInv PROVE KeystrokesMeanText
  <1>0. cpu.rel \in BOOLEAN /\ out \in Seq(Byte) /\ kb.altchar \in Byte
    BY DEF Types, CpuTypes, KbTypes
  <1>1. PICK s : s = Seen(kb, out)
    OBVIOUS
  <1>2. s.out = out /\ s.altchar = kb.altchar
    BY <1>1, SeenIs
  <1>3. Sees(s)
    BY <1>0, <1>2 DEF Sees
  <1>4. PICK t : t = At(kb, out, cpu)
    OBVIOUS
  <1>5. Sees(t) /\ Begins(out, t.out)
    <2>1. CASE Working(cpu)
      <3>1. t = Finish(s, cpu.key, cpu.rel)
        BY <1>1, <1>4, <2>1 DEF At
      <3> QED
        BY <1>0, <1>2, <1>3, <3>1, FinishGrows
    <2>2. CASE ~Working(cpu)
      BY <1>0, <1>1, <1>2, <1>3, <1>4, <2>2, BeginsSelf DEF At
    <2> QED
      BY <2>1, <2>2
  <1>6. PICK u : u = Meant(user)
    OBVIOUS
  <1>7. /\ u.mods = user.held \cap ModKeys /\ u.numlk = user.num /\ u.capslk = user.caps
        /\ u.scrlk = user.scr /\ u.term = user.term /\ u.out = user.text
    BY <1>6 DEF Meant
  <1>8. user.text \in Seq(Byte)
    BY DEF TextInv, UserRight
  <1>9. ASSUME ~Stopped PROVE IsPrefix(out, user.text)
    <2>1. CASE kb.ready
      <3>1. Leads(t, Pending, u)
        BY <1>4, <1>6, <1>9, <2>1 DEF TextInv
      <3>2. Pending \in Seq(Byte)
        BY InFront DEF Pending, Types, Ps2Types, DevTypes
      <3>3. Begins(t.out, u.out)
        BY <3>1, <3>2, LeadsEnds
      <3>4. Begins(out, user.text)
        BY <1>0, <1>5, <1>7, <1>8, <3>3, BeginsMore DEF Sees
      <3> QED
        BY <1>0, <1>8, <3>4, BeginsPrefix
    <2>2. CASE ~kb.ready
      <3>1. s = u
        BY <1>1, <1>6, <2>2 DEF TextInv
      <3>2. out = user.text
        BY <1>2, <1>7, <3>1
      <3> QED
        BY <1>8, <3>2, BeginsSelf, BeginsPrefix
    <2> QED
      BY <2>1, <2>2
  <1>10. ASSUME Quiet
         PROVE  /\ out = user.text /\ kb.mods = user.held \cap ModKeys /\ kb.term = user.term
                /\ <<kb.capslk, kb.numlk, kb.scrlk>> = <<user.caps, user.num, user.scr>>
    <2>1. kb.ready /\ cpu.pc = "idle" /\ ~ps2.full /\ dev.q = << >>
      BY <1>10 DEF Quiet
    <2>2. Pending = << >> /\ ~Stopped /\ t = s
      BY <1>1, <1>4, <2>1 DEF Pending, Stopped, At, Working
    <2>3. Leads(s, << >>, u)
      BY <1>4, <1>6, <2>1, <2>2 DEF TextInv
    <2>4. s = u
      BY <2>3, LeadsEmpty
    <2>5. /\ kb.mods = u.mods /\ kb.numlk = u.numlk /\ kb.capslk = u.capslk /\ kb.scrlk = u.scrlk
          /\ kb.term = u.term /\ out = u.out
      <3>1. /\ s.mods = kb.mods /\ s.numlk = kb.numlk /\ s.capslk = kb.capslk /\ s.scrlk = kb.scrlk
            /\ s.term = kb.term /\ s.out = out
        BY <1>1, SeenIs
      <3> QED
        BY <2>4, <3>1, Zenon
    <2> QED
      BY <1>7, <2>5
  <1> QED
    BY <1>9, <1>10 DEF KeystrokesMeanText

(* What is typed arrives: the output is at every moment what the user meant *)
(* so far or its beginning, and once nothing is on its way kb_interrupt has *)
(* the user's modifiers, locks and terminal.  E0 and E1, both keys of each  *)
(* modifier, the keypad with and without NUMLK, ALT codes past 255, PAUSE   *)
(* and BREAK are in it, for any sequence of presses, repetitions and        *)
(* releases.  The driver falls short of it on keyboards with false shifts,  *)
(* when a lock key is held until it repeats, and when a key with a sequence *)
(* is pressed beside SYSRQ (PlainKeys).                                     *)
THEOREM TextIsMeant == OnlyRefuses /\ OnlyLate /\ PlainKeys => (Spec => []KeystrokesMeanText)
  <1> SUFFICES ASSUME OnlyRefuses, OnlyLate, PlainKeys PROVE Spec => []KeystrokesMeanText
    OBVIOUS
  <1>0. OnlyDelays
    BY DEF OnlyLate, OnlyDelays
  <1>1. Types /\ TextInv => KeystrokesMeanText
    BY TextSuffices
  <1>2. Types /\ SetInv /\ [Next]_vars => SetInv'
    BY SetStep
  <1>3. Types /\ SetInv /\ LedsInv /\ [Next]_vars => LedsInv'
    BY <1>0, LedsStep
  <1>4. Types /\ SetInv /\ SetInv' /\ LedsInv /\ CodesInv /\ [Next]_vars => CodesInv'
    BY CodesStep
  <1>5. Types /\ SetInv /\ LedsInv /\ CodesInv /\ TextInv /\ [Next]_vars => TextInv'
    BY TextStep
  <1> QED
    BY <1>1, <1>2, <1>3, <1>4, <1>5, SetInit, LedsInit, CodesInit, TextInit, TypesHold, PTL DEF Spec
===============================================================================
