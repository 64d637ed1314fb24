------------------------------- MODULE Keyboard -------------------------------
(***************************************************************************)
(* The PS/2 keyboard: the driver (ps2kb.c), its initialisation, its        *)
(* interrupt handler and the command exchange with the keyboard; the 8042  *)
(* controller as the driver uses it (ps2.c); the keyboard and the user.    *)
(*                                                                         *)
(* Driver code runs with interrupts off, but the keyboard does not stop:   *)
(* between a byte written and the answer read it goes on sending.  So a    *)
(* call is cut where it polls the controller: pc "wr" is kb_wrport, pc     *)
(* "rd" kb_rdport, and `then' the place after the call.                    *)
(***************************************************************************)
EXTENDS KeyMap, SequencesExt

CONSTANTS Keys,        \* the keys the user touches
          Repeating,   \* keys held long enough for the keyboard to repeat them
          Models,      \* "full"; "noread": sets cannot be read; "fixed": no set command
          FaultKinds,  \* among "nak", "nakdata", "late", "lost", "early"
          BootFaults,  \* those that may happen before the driver is ready
          FakeShift,   \* the keyboard brackets cursor keys with a false shift
          Typeahead,   \* bytes the keyboard may hold when another key moves
          MaxEvents,   \* keys pressed, repeated and released in a behaviour
          MaxFaults,   \* faults in a behaviour
          NR_TERMINAL, RETRY_COUNT

(* The keys whose scancodes the model has (Make). *)
ModelledKeys ==
    {KEY.LCTRL, KEY.RCTRL, KEY.LSHIFT, KEY.RSHIFT, KEY.LALT, KEY.RALT, KEY.CAPSLK, KEY.NUMLK,
     KEY.SCRLK, KEY.UP, KEY.DELETE, KEY.SYSRQ, KEY.F1, KEY.F1 + 8, KEY.PAUSE,
     47, 50, 65, 67, 71, 82, 108, 109}

ASSUME KeyboardAssumption ==
    /\ Keys \subseteq ModelledKeys
    /\ MaxEvents \in Nat /\ MaxFaults \in Nat
    /\ NR_TERMINAL \in 1 .. 12 /\ RETRY_COUNT \in Nat \ {0}
    /\ Models \subseteq {"full", "noread", "fixed"} /\ Typeahead \in Nat

VARIABLES kb,     \* struct kb, with the two e flags
          cpu,    \* the driver: where it is and its locals
          ps2,    \* the controller
          dev,    \* the keyboard
          user,   \* the keys down, and what was meant by them
          out,    \* characters given to the line discipline
          task,   \* the caller of kb_getc: "run" or "poll"
          faults

vars == <<kb, cpu, ps2, dev, user, out, task, faults>>

ACK == 250
RESEND == 254
CMD == [SETLED |-> 237, SCANCODE |-> 240, IDENT |-> 242, TYPEMATIC |-> 243,
        SCANON |-> 244, SCANOFF |-> 245]
TYPEMATIC_BYTE == 34

Fault(kind) ==
    /\ kind \in (IF kb.ready THEN FaultKinds ELSE BootFaults)
    /\ faults < MaxFaults /\ faults' = faults + 1

-------------------------------------------------------------------------------
(* The keyboard and its controller, as the driver sees them: external.      *)

(* Scancode set 1 for the keys the model has.  PAUSE has no break code. *)
Make(k) ==
    CASE k = KEY.LCTRL -> <<29>>       [] k = KEY.RCTRL -> <<224, 29>>
      [] k = KEY.LSHIFT -> <<42>>      [] k = KEY.RSHIFT -> <<54>>
      [] k = KEY.LALT -> <<56>>        [] k = KEY.RALT -> <<224, 56>>
      [] k = KEY.CAPSLK -> <<58>>      [] k = KEY.NUMLK -> <<69>>
      [] k = KEY.SCRLK -> <<70>>       [] k = KEY.UP -> <<224, 72>>
      [] k = KEY.DELETE -> <<224, 83>> [] k = KEY.SYSRQ -> <<84>>
      [] k = 65 -> <<30>>              [] k = 67 -> <<46>>
      [] k = 71 -> <<34>>              [] k = 82 -> <<19>>
      [] k = 50 -> <<3>>               [] k = 47 -> <<53>>
      [] k = 109 -> <<73>>             [] k = 108 -> <<72>>
      [] k = KEY.F1 -> <<59>>          [] k = KEY.F1 + 8 -> <<67>>
      [] k = KEY.PAUSE -> <<225, 29, 69, 225, 157, 197>>

BreakOf(k) == [i \in DOMAIN Make(k) |-> IF Make(k)[i] = 224 THEN 224 ELSE Make(k)[i] + 128]

Bracketed(k, held) ==
    FakeShift /\ k \in {KEY.UP, KEY.DELETE} /\ held \cap {KEY.LSHIFT, KEY.RSHIFT} = {}

(* CTRL+PAUSE is BREAK, which has no E1. *)
PressBytes(k, held) ==
    CASE k = KEY.PAUSE /\ held \cap {KEY.LCTRL, KEY.RCTRL} # {} -> <<224, 70, 224, 198>>
      [] Bracketed(k, held) -> <<224, 42>> \o Make(k)
      [] OTHER -> Make(k)

ReleaseBytes(k, held) ==
    CASE k = KEY.PAUSE -> << >>
      [] Bracketed(k, held) -> BreakOf(k) \o <<224, 170>>
      [] OTHER -> BreakOf(k)

(* The keyboard takes a byte the driver wrote. *)
Takes(d, b) ==
    LET answers(a) == d.rep \o a
    IN  IF b = CMD.SCANCODE /\ d.model = "fixed" THEN d
        ELSE IF b \in {CMD.SETLED, CMD.SCANCODE, CMD.TYPEMATIC}
        THEN [d EXCEPT !.await = b, !.rep = answers(<<ACK>>)]
        ELSE IF b = CMD.IDENT THEN [d EXCEPT !.await = 0, !.rep = answers(<<ACK, 171, 131>>)]
        ELSE IF b = CMD.SCANON
        THEN [d EXCEPT !.await = 0, !.rep = answers(<<ACK>>), !.scan = TRUE]
        ELSE IF b = CMD.SCANOFF
        THEN [d EXCEPT !.await = 0, !.rep = answers(<<ACK>>), !.scan = FALSE, !.q = << >>]
        ELSE IF d.await = CMD.SCANCODE /\ b = 0 /\ d.model # "noread"
        THEN [d EXCEPT !.await = 0, !.rep = answers(<<ACK, d.set>>)]
        ELSE [d EXCEPT !.await = 0, !.rep = answers(<<ACK>>),
                       !.leds = IF d.await = CMD.SETLED THEN b ELSE @,
                       !.set = IF d.await = CMD.SCANCODE /\ b # 0 THEN b ELSE @]

(* A byte moves into the controller and raises IRQ1.  An answer goes before *)
(* the scancodes that wait, and a keyboard that was promised a data byte    *)
(* holds them until it comes or the driver has given up; one that does not  *)
(* is "early".                                                              *)
Deliver ==
    /\ ps2.on /\ ~ps2.full
    /\ \/ /\ dev.rep # << >>
          /\ ps2' = [ps2 EXCEPT !.full = TRUE, !.data = Head(dev.rep), !.irq = ps2.int]
          /\ dev' = [dev EXCEPT !.rep = Tail(@)]
          /\ UNCHANGED faults
       \/ /\ dev.q # << >>
          /\ \/ dev.rep = << >> /\ (dev.await = 0 \/ cpu.pc = "idle") /\ UNCHANGED faults
             \/ (dev.rep # << >> \/ dev.await # 0) /\ Fault("early")
          /\ ps2' = [ps2 EXCEPT !.full = TRUE, !.data = Head(dev.q), !.irq = ps2.int]
          /\ dev' = [dev EXCEPT !.q = Tail(@)]
    /\ UNCHANGED <<kb, cpu, user, out, task>>

(* The user: keys go down, repeat and come up; `text' is what they mean. *)
Mods(held) ==
    (IF held \cap {KEY.LCTRL, KEY.RCTRL} # {} THEN {"ctrl"} ELSE {})
    \cup (IF held \cap {KEY.LALT, KEY.RALT} # {} THEN {"alt"} ELSE {})
    \cup (IF held \cap {KEY.LSHIFT, KEY.RSHIFT} # {} THEN {"shift"} ELSE {})

Typed(k) ==
    LET m == Mods(user.held)
        lock(l) == k = l /\ l \notin user.held
        terminal == is_fnkey(k) /\ m \cap {"ctrl", "alt"} = {"alt"} /\ fnkey_index(k) <= NR_TERMINAL
        code == is_numpad(k) /\ user.num /\ "alt" \in m
    IN  [user EXCEPT !.held = @ \cup {k}, !.events = @ + 1,
            !.caps = (@ # lock(KEY.CAPSLK)), !.num = (@ # lock(KEY.NUMLK)),
            !.scr = (@ # lock(KEY.SCRLK)),
            !.term = IF terminal THEN fnkey_index(k) ELSE @,
            !.code = IF code THEN 10 * @ + numpad_index(k) ELSE @,
            !.text = IF terminal \/ code \/ KEY.SYSRQ \in user.held THEN @
                     ELSE @ \o UsText(k, m, user.caps, user.num)]

PressKey(k) ==
    /\ kb.ready /\ dev.scan /\ user.events < MaxEvents /\ Len(dev.q) <= Typeahead
    /\ k \in Repeating \/ k \notin user.held
    /\ user' = Typed(k)
    /\ dev' = [dev EXCEPT !.q = @ \o PressBytes(k, user.held)]
    /\ UNCHANGED <<kb, cpu, ps2, out, task, faults>>

ReleaseKey(k) ==
    /\ k \in user.held /\ user.events < MaxEvents /\ Len(dev.q) <= Typeahead
    /\ user' = [user EXCEPT !.held = @ \ {k}, !.events = @ + 1,
                    !.code = IF is_alt(k) THEN 0 ELSE @,
                    !.text = IF is_alt(k) /\ user.code % 256 # 0
                             THEN Append(@, user.code % 256) ELSE @]
    /\ dev' = [dev EXCEPT !.q = @ \o ReleaseBytes(k, user.held \ {k})]
    /\ UNCHANGED <<kb, cpu, ps2, out, task, faults>>

-------------------------------------------------------------------------------
(* ps2.c and the port access of ps2kb.c.                                    *)

(* Not in the driver: its locals are gone. *)
Idle == [pc |-> "idle", kind |-> "cmd", byte |-> 0, left |-> 0, then |-> "", ret |-> "",
         ok |-> FALSE, resp |-> 0, old |-> 0, key |-> 0, rel |-> FALSE]

Goto(c, label) == [c EXCEPT !.pc = label]

(* kb_sendcmd(b), kb_wrport(b) with the kb_rdport after it, kb_rdport(). *)
Send(c, b, then) == [c EXCEPT !.pc = "wr", !.kind = "cmd", !.byte = b, !.left = RETRY_COUNT, !.then = then]
Write(c, b, then) == [c EXCEPT !.pc = "wr", !.kind = "data", !.byte = b, !.then = then]
Read(c, then) == [c EXCEPT !.pc = "rd", !.kind = "data", !.then = then]

(* A byte written for the keyboard turns the port on again (8042). *)
kb_wrport ==
    /\ cpu.pc = "wr"
    /\ cpu' = [cpu EXCEPT !.pc = "rd"]
    /\ ps2' = [ps2 EXCEPT !.on = TRUE]
    /\ \/ dev' = Takes(dev, cpu.byte) /\ UNCHANGED faults
       \/ Fault("lost") /\ UNCHANGED dev
       \/ Fault(IF cpu.kind = "cmd" THEN "nak" ELSE "nakdata")
          /\ dev' = [dev EXCEPT !.rep = Append(@, RESEND)]
    /\ UNCHANGED <<kb, user, out, task>>

(* What kb_sendcmd does with an answer; 0 is a timeout. *)
Answered(c, resp) ==
    IF c.kind = "data" THEN [c EXCEPT !.pc = c.then, !.resp = resp]
    ELSE IF resp = ACK THEN [c EXCEPT !.pc = c.then, !.ok = TRUE]
    ELSE IF resp # 0 /\ c.left > 1 THEN [c EXCEPT !.pc = "wr", !.left = @ - 1]
    ELSE [c EXCEPT !.pc = c.then, !.ok = FALSE]

(* It gives up when nothing comes, or just before it comes. *)
kb_rdport ==
    /\ cpu.pc = "rd"
    /\ \/ /\ ps2.full
          /\ ps2' = [ps2 EXCEPT !.full = FALSE]
          /\ cpu' = Answered(cpu, ps2.data)
          /\ UNCHANGED faults
       \/ /\ ~ps2.full
          /\ \/ dev.rep = << >> /\ (dev.q = << >> \/ dev.await # 0) /\ UNCHANGED faults
             \/ Fault("late")
          /\ cpu' = Answered(cpu, 0)
          /\ UNCHANGED ps2
    /\ UNCHANGED <<kb, dev, user, out, task>>

-------------------------------------------------------------------------------
(* init_kb, with interrupts off.                                            *)

(* init_ps2: the ports off and on again, the self tests, interrupts on. *)
init_ps2 ==
    /\ cpu.pc = "boot"
    /\ \/ cpu' = Send(cpu, CMD.SCANOFF, "off")
          /\ ps2' = [ps2 EXCEPT !.on = FALSE, !.full = FALSE, !.int = TRUE]
       \/ cpu' = Goto(cpu, "halt") /\ UNCHANGED ps2          \* a self test failed
    /\ UNCHANGED <<kb, dev, user, out, task, faults>>

(* Read the configuration, turn translation off, write it.  A byte of the   *)
(* keyboard that is in the way is taken for the configuration.              *)
RewriteConfig ==
    /\ cpu.pc \in {"off", "cfg"}
    /\ \/ cpu.pc = "off" /\ cpu' = Goto(cpu, "cfg") /\ ps2' = [ps2 EXCEPT !.full = FALSE]
       \/ /\ cpu.pc = "cfg"
          /\ ps2' = [ps2 EXCEPT !.full = FALSE, !.translate = FALSE,
                        !.int = IF ps2.full THEN ps2.data % 2 = 1 ELSE @]
          /\ cpu' = Send(cpu, CMD.IDENT, "ident")
    /\ UNCHANGED <<kb, dev, user, out, task, faults>>

(* kb_ident and kb_typematic: each gives up if its command is refused. *)
kb_ident(c) ==
    CASE c.pc = "ident" -> IF c.ok THEN Read(c, "ident2") ELSE Send(c, CMD.TYPEMATIC, "typ")
      [] c.pc = "ident2" -> Read(c, "ident3")
      [] c.pc = "ident3" -> Send(c, CMD.TYPEMATIC, "typ")

kb_typematic(c) ==
    CASE c.pc = "typ" -> IF c.ok THEN Write(c, TYPEMATIC_BYTE, "typ2") ELSE Send(c, CMD.SCANCODE, "set1")
      [] c.pc = "typ2" -> Send(c, CMD.SCANCODE, "set1")

(* kb_scset(1): the old set is read, set 1 chosen and read back. *)
kb_scset(c) ==
    CASE c.pc = "set1" -> IF c.ok THEN Write(c, 0, "set2") ELSE Goto(c, "failed")
      [] c.pc = "set2" -> Read(c, "set3")
      [] c.pc = "set3" -> IF c.resp = 0 THEN Send(c, CMD.SCANCODE, "set4")
                          ELSE Send([c EXCEPT !.old = c.resp], CMD.SCANCODE, "set5")
      [] c.pc = "set4" -> Write(c, 1, "chosen")
      [] c.pc = "set5" -> Write(c, 1, "set6")
      [] c.pc = "set6" -> Send(c, CMD.SCANCODE, "set7")
      [] c.pc = "set7" -> Write(c, 0, "set8")
      [] c.pc = "set8" -> Read(c, "set9")
      [] c.pc = "set9" -> IF c.resp = 1 THEN Goto(c, "chosen") ELSE Send(c, CMD.SCANCODE, "set10")
      [] c.pc = "set10" -> Write(c, c.old, "failed")

ConfigureKeyboard ==
    /\ \/ cpu.pc \in {"ident", "ident2", "ident3"} /\ cpu' = kb_ident(cpu)
       \/ cpu.pc \in {"typ", "typ2"} /\ cpu' = kb_typematic(cpu)
       \/ cpu.pc \in {"set1", "set2", "set3", "set4", "set5", "set6", "set7", "set8", "set9", "set10"}
          /\ cpu' = kb_scset(cpu)
    /\ UNCHANGED <<kb, ps2, dev, user, out, task, faults>>

(* Mutant: translation stays off when set 1 is refused. *)
EnableKeyboard_untranslated ==
    /\ cpu.pc \in {"chosen", "failed"}
    /\ kb' = [kb EXCEPT !.scset = 1]
    /\ ps2' = [ps2 EXCEPT !.on = TRUE]
    /\ cpu' = Send(cpu, CMD.SCANON, "flush")
    /\ UNCHANGED <<dev, user, out, task, faults>>

(* Set 1 was chosen, or the controller must translate to it; scanning on. *)
EnableKeyboard ==
    /\ cpu.pc \in {"chosen", "failed"}
    /\ kb' = [kb EXCEPT !.scset = 1]
    /\ ps2' = [ps2 EXCEPT !.translate = cpu.pc = "failed", !.on = TRUE]
    /\ cpu' = Send(cpu, CMD.SCANON, "flush")
    /\ UNCHANGED <<dev, user, out, task, faults>>

LedsOf(k) == (IF k.capslk THEN 4 ELSE 0) + (IF k.numlk THEN 2 ELSE 0) + (IF k.scrlk THEN 1 ELSE 0)

(* kb_setleds only if the lights are not what they should be. *)
update_leds(k, c, ret) ==
    IF k.leds = LedsOf(k) THEN Goto(c, ret)
    ELSE [Send(c, CMD.SETLED, "leds") EXCEPT !.ret = ret]

(* Mutant: the answer to the command is not looked at. *)
kb_setleds_unchecked ==
    /\ cpu.pc = "leds"
    /\ kb' = [kb EXCEPT !.leds = LedsOf(kb)]
    /\ cpu' = Write(cpu, LedsOf(kb), cpu.ret)
    /\ UNCHANGED <<ps2, dev, user, out, task, faults>>

kb_setleds ==
    /\ cpu.pc = "leds"
    /\ \/ ~cpu.ok /\ cpu' = Goto(cpu, cpu.ret) /\ UNCHANGED kb
       \/ /\ cpu.ok
          /\ kb' = [kb EXCEPT !.leds = LedsOf(kb)]
          /\ cpu' = Write(cpu, LedsOf(kb), cpu.ret)
    /\ UNCHANGED <<ps2, dev, user, out, task, faults>>

FinishInit ==
    /\ \/ /\ cpu.pc = "flush"
          /\ ps2' = [ps2 EXCEPT !.full = FALSE]
          /\ cpu' = update_leds(kb, cpu, "register")
          /\ UNCHANGED kb
       \/ /\ cpu.pc = "register"
          /\ kb' = [kb EXCEPT !.ready = TRUE]
          /\ cpu' = Idle
          /\ UNCHANGED ps2
    /\ UNCHANGED <<dev, user, out, task, faults>>

-------------------------------------------------------------------------------
(* kb_interrupt.                                                            *)

(* Mutant: break codes leave the E0 flag set. *)
Prefixed_break(k, sc, key) == [k EXCEPT !.e0 = @ /\ sc >= 128, !.e1 = @ /\ key # KEY.NUMLK]

(* The prefixes a byte ends: E0 at any byte, E1 at the code of NUMLK only. *)
Prefixed(k, sc, key) == [k EXCEPT !.e0 = FALSE, !.e1 = @ /\ key # KEY.NUMLK]

Toggled(k, key) ==
    [k EXCEPT !.capslk = (@ # (key = KEY.CAPSLK)), !.numlk = (@ # (key = KEY.NUMLK)),
              !.scrlk = (@ # (key = KEY.SCRLK))]

(* Mutant: the early return for a stray byte leaves the port disabled. *)
Stray_disabled(sc) ==
    /\ sc \in {ACK, RESEND, 252, 253, 255, 0}
    /\ ps2' = [ps2 EXCEPT !.irq = FALSE, !.full = FALSE, !.on = FALSE]
    /\ UNCHANGED <<kb, cpu>>

(* Bytes that are no scancodes are dropped; the counts only feed warnings. *)
Stray(sc) ==
    /\ sc \in {ACK, RESEND, 252, 253, 255, 0}
    /\ ps2' = [ps2 EXCEPT !.irq = FALSE, !.full = FALSE, !.on = TRUE]
    /\ UNCHANGED <<kb, cpu>>

(* Mutant: the test for E0 does not return. *)
Prefix_both(sc) ==
    /\ sc \in {224, 225} /\ kb.scset = 1
    /\ kb' = [kb EXCEPT !.e0 = @ \/ sc = 224, !.e1 = TRUE]
    /\ ps2' = [ps2 EXCEPT !.irq = FALSE, !.full = FALSE, !.on = TRUE]
    /\ UNCHANGED cpu

Prefix(sc) ==
    /\ sc \in {224, 225} /\ kb.scset = 1
    /\ kb' = [kb EXCEPT !.e0 = @ \/ sc = 224, !.e1 = @ \/ sc = 225]
    /\ ps2' = [ps2 EXCEPT !.irq = FALSE, !.full = FALSE, !.on = TRUE]
    /\ UNCHANGED cpu

(* The scancode to a key, the locks, and the lights if they changed. *)
Decode(sc) ==
    LET code == sc % 128
        raw == KeyOf(kb.e0, code)
        pause == kb.e1 /\ raw = KEY.NUMLK
        k1 == Prefixed(kb, sc, raw)
        key == IF pause THEN KEY.PAUSE ELSE IF kb.numlk THEN raw ELSE Unlocked(raw)
        k2 == IF sc >= 128 THEN k1 ELSE Toggled(k1, key)
    IN  /\ sc \notin {ACK, RESEND, 252, 253, 255, 0, 224, 225}
        /\ kb' = k2
        /\ cpu' = IF kb.scset # 1 \/ (kb.e0 /\ kb.e1) THEN Goto(cpu, "panic")
                  ELSE update_leds(k2, [cpu EXCEPT !.key = key, !.rel = sc >= 128], "key")
        /\ ps2' = [ps2 EXCEPT !.irq = FALSE, !.full = FALSE, !.on = FALSE]

(* The port is disabled, the byte read; a late edge finds the old byte. *)
kb_interrupt ==
    /\ cpu.pc = "idle" /\ ps2.irq
    /\ Stray(ps2.data) \/ Prefix(ps2.data) \/ Decode(ps2.data)
    /\ UNCHANGED <<dev, user, out, task, faults>>

ModKeys == {KEY.LCTRL, KEY.RCTRL, KEY.LSHIFT, KEY.RSHIFT, KEY.LALT, KEY.RALT,
            KEY.LWIN, KEY.RWIN, KEY.SYSRQ}

(* SYSRQ's second key is 0 in the code: a scancode that maps to no key would
   set a second SYSRQ bit, which no key of the tables sends. *)
handle_modifier(k, key, rel) ==
    IF key \notin ModKeys THEN k.mods
    ELSE IF rel THEN k.mods \ {key} ELSE k.mods \cup {key}

(* The characters of a key that is neither special nor swallowed. *)
CharsOf(k, key) ==
    LET m == Mods(k.mods)
        c0 == IF "shift" \in m /\ key \in 32 .. 96 THEN keymap_shift(key) ELSE keymap(key)
        c1 == IF "ctrl" \in m THEN CtrlChar(key, c0) ELSE c0
        c2 == IF k.capslk /\ "alt" \notin m THEN CapsChar(c1) ELSE c1
    IN  IF c0 = 0 THEN << >>
        ELSE IF c0 = Special \/ (key = KEY.KP5 /\ ~k.numlk) THEN Sequence(key)
        ELSE IF KEY.SYSRQ \in k.mods THEN << >>
        ELSE IF "alt" \in m THEN <<ESC, c2>> ELSE <<c2>>

(* sysrq(c): where the machine goes; 'g' stops in the debugger and returns. *)
sysrq(k, key) ==
    LET c == IF "ctrl" \in Mods(k.mods) THEN CtrlChar(key, keymap(key)) ELSE
             IF "shift" \in Mods(k.mods) /\ key \in 32 .. 96 THEN keymap_shift(key) ELSE keymap(key)
    IN  IF KEY.SYSRQ \in k.mods /\ c = 99 THEN "crash"
        ELSE IF KEY.SYSRQ \in k.mods /\ c = 114 THEN "reset"
        ELSE "idle"

(* The rest of the handler, in its order; the port is enabled at the end. *)
HandleKey ==
    LET key == cpu.key
        k == [kb EXCEPT !.mods = handle_modifier(kb, key, cpu.rel)]
        m == Mods(k.mods)
        submit == cpu.rel /\ is_alt(key) /\ k.altchar # 0
        reset == ~cpu.rel /\ {"ctrl", "alt"} \subseteq m /\ key \in {KEY.DELETE, KEY.KPDOT}
        crash == ~cpu.rel /\ {"ctrl", "alt"} \subseteq m /\ is_fnkey(key) /\ k.crashkey = 0
        switch == ~cpu.rel /\ m \cap {"ctrl", "alt"} = {"alt"} /\ is_fnkey(key)
                  /\ fnkey_index(key) <= NR_TERMINAL
        digit == ~cpu.rel /\ "alt" \in m /\ is_numpad(key)
        chars == IF submit THEN <<k.altchar>>
                 ELSE IF cpu.rel \/ reset \/ switch \/ digit THEN << >>
                 ELSE CharsOf(k, key)
    IN  /\ cpu.pc = "key"
        /\ kb' = [k EXCEPT
                    !.altchar = IF submit THEN 0
                                ELSE IF digit THEN AltDigit(@, key) ELSE @,
                    !.crashkey = IF crash THEN fnkey_index(key) ELSE @,
                    !.term = IF switch THEN fnkey_index(key) ELSE @,
                    !.pollchar = IF chars = << >> THEN @ ELSE Last(chars)]
        /\ out' = out \o chars
        /\ cpu' = [Idle EXCEPT
                     !.pc = IF reset THEN "reset" ELSE IF cpu.rel \/ switch \/ digit THEN "idle"
                            ELSE sysrq(k, key)]
        /\ ps2' = [ps2 EXCEPT !.on = ~reset]
        /\ UNCHANGED <<dev, user, task, faults>>

-------------------------------------------------------------------------------
(* kb_getc polls pollchar with interrupts on. *)
kb_getc ==
    /\ kb.ready /\ cpu.pc = "idle"
    /\ \/ task = "run" /\ task' = "poll" /\ kb' = [kb EXCEPT !.pollchar = 0]
       \/ task = "poll" /\ kb.pollchar # 0 /\ task' = "run" /\ UNCHANGED kb
    /\ UNCHANGED <<cpu, ps2, dev, user, out, faults>>

Init ==
    /\ kb = [leds |-> 0, scset |-> 0, e0 |-> FALSE, e1 |-> FALSE, mods |-> {},
             numlk |-> TRUE, capslk |-> FALSE, scrlk |-> FALSE, altchar |-> 0, pollchar |-> 0,
             crashkey |-> 0, term |-> 1, ready |-> FALSE]
    /\ cpu = [Idle EXCEPT !.pc = "boot"]
    /\ ps2 = [on |-> TRUE, full |-> FALSE, data |-> 0, irq |-> FALSE, int |-> FALSE, translate |-> TRUE]
    /\ \E model \in Models :
         dev = [model |-> model, q |-> << >>, rep |-> << >>, leds |-> 0, set |-> 2, scan |-> TRUE,
                await |-> 0]
    /\ user = [held |-> {}, caps |-> FALSE, num |-> TRUE, scr |-> FALSE, code |-> 0, term |-> 1,
               text |-> << >>, events |-> 0]
    /\ out = << >> /\ task = "run" /\ faults = 0

Driver ==
    \/ kb_wrport \/ kb_rdport \/ init_ps2 \/ RewriteConfig \/ ConfigureKeyboard
    \/ EnableKeyboard \/ kb_setleds \/ FinishInit \/ kb_interrupt \/ HandleKey

Next ==
    \/ Driver
    \/ Deliver
    \/ \E k \in Keys : PressKey(k) \/ ReleaseKey(k)
    \/ kb_getc

(* The processor runs the handler and the keyboard sends what it has. *)
Spec == Init /\ [][Next]_vars /\ WF_vars(Driver) /\ WF_vars(Deliver)

-------------------------------------------------------------------------------
Stopped == cpu.pc \in {"halt", "reset", "crash"}

(* Nothing on its way from the keyboard, and no handler running. *)
Quiet ==
    kb.ready /\ cpu.pc = "idle" /\ ~ps2.irq /\ ~ps2.full /\ dev.q = << >> /\ dev.rep = << >>

(* Types. *)
TypeOK ==
    /\ kb.leds \in 0 .. 7 /\ kb.scset \in 0 .. 3 /\ kb.mods \subseteq ModKeys
    /\ kb.altchar \in 0 .. 255 /\ kb.term \in 1 .. NR_TERMINAL
    /\ cpu.left \in 0 .. RETRY_COUNT /\ cpu.byte \in 0 .. 255
    /\ out \in Seq(0 .. 255) /\ faults \in 0 .. MaxFaults

(* The line discipline gets the text the user means, and nothing else: the  *)
(* escape prefixes, both keys of each modifier, the locks, the keypad, ALT  *)
(* codes and terminal switches, whatever order the keys go down and come up *)
(* in; and once the keyboard is quiet the driver knows which modifiers are  *)
(* down and which locks are on.                                             *)
KeystrokesMeanText ==
    /\ ~Stopped => IsPrefix(out, user.text)
    /\ Quiet => /\ out = user.text
                /\ kb.mods = user.held \cap ModKeys
                /\ kb.term = user.term
                /\ <<kb.capslk, kb.numlk, kb.scrlk>> = <<user.caps, user.num, user.scr>>

(* The asserts of kb_interrupt: never both prefixes, never another set. *)
AssertsHold == cpu.pc # "panic"

(* What the driver believes of the lights is so, though commands are        *)
(* refused, retried and answered late: update_leds compares with that       *)
(* belief, so a false one is never repaired.  Without a fault the lights    *)
(* are the locks.                                                           *)
LedsBelieved ==
    Quiet => /\ kb.leds = dev.leds
             /\ faults = 0 => dev.leds = LedsOf(kb)

(* Initialisation ends with the keyboard sending set 1, or set 2 through    *)
(* the controller's translation, whatever commands the keyboard refuses; a  *)
(* keyboard whose set cannot be read must not refuse one as often as it is  *)
(* tried, for its choice of set 1 is not verified.                          *)
ScancodesAreSet1 ==
    kb.ready /\ (dev.model = "noread" => faults < RETRY_COUNT)
        => <<dev.set, ps2.translate>> \in {<<1, FALSE>>, <<2, TRUE>>}

(* Bytes never get stuck: the handler always returns with the port on, and  *)
(* no byte is left in the controller without an interrupt.                  *)
InputDrains == []<>(Quiet \/ Stopped)
===============================================================================
