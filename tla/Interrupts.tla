------------------------------ MODULE Interrupts ------------------------------
(***************************************************************************)
(* Interrupts, exceptions and what must still work after a crash: the      *)
(* entry code (entry.S, cpu.c), the dispatcher (irq.c), the 8259 pair      *)
(* (pic.c), the timer and the speaker (timer.c), the crash screen and the  *)
(* crash keys (crash.c) and panic (console.c), from boot to user mode.     *)
(*                                                                         *)
(* stack holds the interrupted contexts, the running one first.  An        *)
(* interrupt handler runs with interrupts off, so it is one step, unless   *)
(* it crashes: then a context that never returns comes on top of it.       *)
(***************************************************************************)
EXTENDS Integers, Sequences, FiniteSetsExt

CONSTANTS MaxKeys, MaxFaults, MaxSpurious, MaxBells,   \* events in a behaviour
          CrashKeys,    \* CTRL+ALT+Fn, by what crash_key_irq does
          KbModels      \* TRUE: the PS/2 controller works; FALSE: it does not answer

ASSUME InterruptsAssumption ==
    /\ {MaxKeys, MaxFaults, MaxSpurious, MaxBells} \subseteq Nat
    /\ CrashKeys \subseteq {"exception", "double", "panic", "unexpected", "spurious", "triple"}
    /\ KbModels \subseteq BOOLEAN

VARIABLES pic,       \* the two 8259s: imr, irr and isr
          isr_map,   \* _isr_map: the handlers of a line
          pit,       \* g_pit->pcspk_ticks, and the speaker
          kb,        \* the keyboard: what it holds, its port, and the driver's pollchar
          printing,  \* term->printing of the current terminal
          crash,     \* g_test_crashkey, crashing, g_test_soft_double_fault
          stack,
          used       \* events so far

vars == <<pic, isr_map, pit, kb, printing, crash, stack, used>>

Irqs == 0 .. 15
IRQ_TIMER == 0
IRQ_KEYBOARD == 1
IRQ_SLAVE == 2
IRQ_COM2 == 3
IRQ_COM1 == 4
IRQ_RTC == 8
IRQ_MASKALL == Irqs

QUANTUM_MS == 20
ALERT_TIME == 100
BELL_TIME == 50

-------------------------------------------------------------------------------
(* The interrupt controllers.  A request waits in irr, masked or not; an    *)
(* interrupt acknowledged by the processor stays in isr until its EOI and   *)
(* keeps back its own line and the lower ones.  The slave's lines come in   *)
(* by line 2, which init_pic leaves masked.                                 *)

init_pic == [imr |-> IRQ_MASKALL, irr |-> {}, isr |-> {}]

pic_eoi(p, irq) ==
    [p EXCEPT !.isr = @ \ (IF irq >= 8 THEN {irq, IRQ_SLAVE} ELSE {irq})]

pic_unmask(p, irq) == [p EXCEPT !.imr = @ \ {irq}]

pic_setmask(p, mask) == [p EXCEPT !.imr = mask]

(* The lines the controller would interrupt for: external. *)
Requests ==
    {irq \in pic.irr \ pic.imr :
        /\ irq >= 8 => IRQ_SLAVE \notin pic.imr
        /\ \A s \in pic.isr : irq < s}

_IRQ_ENABLED(mask, irq) == mask \ {irq} # {}

irq_register(m, irq, func) == [m EXCEPT ![irq] = Append(@, func)]

-------------------------------------------------------------------------------
(* The timer and the speaker.                                               *)

div_round(n, d) == (n + (d \div 2)) \div d

beep(ms) == [ticks |-> div_round(ms, QUANTUM_MS), on |-> TRUE]

alert == beep(ALERT_TIME)

timer_interrupt(p) ==
    IF p.ticks = 0 THEN p
    ELSE [ticks |-> p.ticks - 1, on |-> p.on /\ p.ticks > 1]

-------------------------------------------------------------------------------
(* Contexts.  intf is the interrupt flag of the context while it runs.      *)

Frame(at, intf) == [at |-> at, intf |-> intf, mask |-> {}]
Top == Head(stack)
At(place) == Top.at = place
Goto(at, intf) == stack' = <<[Top EXCEPT !.at = at, !.intf = intf]>> \o Tail(stack)

(* Exceptions come through a trap gate: the flag stays as it was up to the
   cli of recv_interrupt. *)
Exception(intf) == Frame("enter", intf)

(* panic: everything masked but the timer and a keyboard that was set up. *)
panic(p, s) ==
    /\ pic' = LET q == pic_unmask(pic_setmask(p, IRQ_MASKALL), IRQ_TIMER)
              IN IF kb.ready THEN pic_unmask(q, IRQ_KEYBOARD) ELSE q
    /\ stack' = <<Frame("halt", TRUE)>> \o s

-------------------------------------------------------------------------------
(* crash_key_irq, the second handler of the timer: key is -1 while a crash  *)
(* key is being obeyed, and for ever if it was obeyed to the end.           *)

(* A software interrupt through the vector of a masked line. *)
Unexpected(p, irq) == IF irq = 7 THEN p ELSE pic_eoi(p, irq)

crash_key_irq(p, t) ==
    LET key == crash.key IN
    CASE key \in {"none", "busy"} ->
            pic' = p /\ pit' = t /\ UNCHANGED <<crash, stack>>
      [] key \in {"exception", "double"} ->
            /\ crash' = [crash EXCEPT !.key = "busy", !.soft = @ \/ key = "double"]
            /\ stack' = <<Exception(FALSE)>> \o stack
            /\ pic' = p /\ pit' = t
      [] key = "panic" ->
            /\ crash' = [crash EXCEPT !.key = "busy"]
            /\ panic(p, stack) /\ pit' = t
      [] key = "triple" ->
            /\ crash' = [crash EXCEPT !.key = "none"]
            /\ stack' = <<Frame("reset", FALSE)>> \o stack
            /\ pic' = p /\ pit' = t
      [] key \in {"unexpected", "spurious"} ->
            /\ crash' = [crash EXCEPT !.key = "none"]
            /\ pic' = Unexpected(p, IF key = "spurious" THEN 7 ELSE 13)
            /\ pit' = alert
            /\ UNCHANGED stack

(* ECHO is on unless a wait_for_keypress that has not returned cleared it. *)
Echoes == \A i \in DOMAIN stack : stack[i].at \notin {"armed", "poll"}

(* kb_putq, with the port disabled by the handler that calls it.  It panics
   while no tty is attached; an echo never ends while the interrupted code is
   inside terminal_putchar, which then returns 0 to terminal_write's loop
   (echo is FALSE where a program turned ECHO off); else the character is
   left for kb_getc, and the handler enables the port again. *)
kb_putq(p) ==
    LET took == [kb EXCEPT !.holds = "nothing"]
    IN IF ~kb.tty
       THEN kb' = [took EXCEPT !.on = FALSE] /\ panic(p, stack)
       ELSE \E echo \in BOOLEAN :
                IF echo /\ Echoes /\ printing
                THEN /\ kb' = [took EXCEPT !.on = FALSE]
                     /\ stack' = <<Frame("hung", FALSE)>> \o stack /\ pic' = p
                ELSE kb' = [took EXCEPT !.pollchar = TRUE] /\ pic' = p /\ UNCHANGED stack

(* kb_interrupt, as far as the crash screen needs it: a crash key is kept for
   the timer, and every key, a crash key included, sends characters. *)
kb_interrupt(p) ==
    /\ crash' = IF kb.holds \in CrashKeys /\ crash.key = "none"
                THEN [crash EXCEPT !.key = kb.holds] ELSE crash
    /\ IF kb.holds = "nothing" THEN pic' = p /\ UNCHANGED <<kb, stack>> ELSE kb_putq(p)

Handlers(irq, p) ==
    CASE irq = IRQ_TIMER ->
            /\ IF Len(isr_map[irq]) = 2 THEN crash_key_irq(p, timer_interrupt(pit))
               ELSE pic' = p /\ pit' = timer_interrupt(pit) /\ UNCHANGED <<crash, stack>>
            /\ UNCHANGED kb
      [] irq = IRQ_KEYBOARD ->
            kb_interrupt(p) /\ UNCHANGED pit
      [] OTHER -> pic' = p /\ UNCHANGED <<pit, kb, crash, stack>>

-------------------------------------------------------------------------------
(* handle_irq, on the line the controller named.                            *)

Acknowledged_last(irq, p) ==
    IF irq = IRQ_TIMER /\ crash.key \in {"exception", "double", "panic"} THEN p ELSE pic_eoi(p, irq)

(* The controllers as the handlers find them: the EOI is sent before. *)
Acknowledged(irq, p) == pic_eoi(p, irq)

handle_irq(irq, p) ==
    IF irq \in {7, 15} /\ irq \in p.imr
    THEN pic' = p /\ pit' = alert /\ UNCHANGED <<kb, crash, stack>>
    ELSE IF isr_map[irq] # <<>> /\ irq \notin p.imr
    THEN Handlers(irq, Acknowledged(irq, p))
    ELSE pic' = Acknowledged(irq, p) /\ pit' = alert /\ UNCHANGED <<kb, crash, stack>>

(* The processor acknowledges the highest request. *)
Interrupt(irq) ==
    /\ Top.intf /\ irq \in Requests /\ irq = Min(Requests)
    /\ handle_irq(irq, [pic EXCEPT !.irr = @ \ {irq}, !.isr = @ \cup {irq}])
    /\ UNCHANGED <<isr_map, printing, used>>

(* A request goes away before the processor acknowledges it: the controller
   names line 7, with nothing in service. *)
Spurious ==
    /\ Top.intf /\ used.spurious < MaxSpurious
    /\ used' = [used EXCEPT !.spurious = @ + 1]
    /\ handle_irq(7, pic)
    /\ UNCHANGED <<isr_map, printing>>

-------------------------------------------------------------------------------
(* Devices.                                                                 *)

Raise(irq) == pic' = [pic EXCEPT !.irr = @ \cup {irq}]

(* A tick is 20 ms: a key that the processor could take has been taken. *)
Tick ==
    /\ Top.at # "reset" /\ (Top.intf => IRQ_KEYBOARD \notin Requests)
    /\ IRQ_TIMER \notin pic.irr /\ Raise(IRQ_TIMER)
    /\ UNCHANGED <<isr_map, pit, kb, printing, crash, stack, used>>

(* A disabled port keeps the key and asks for no interrupt. *)
KeyPress ==
    /\ kb.holds = "nothing" /\ used.keys < MaxKeys /\ Top.at # "reset"
    /\ used' = [used EXCEPT !.keys = @ + 1]
    /\ \E key \in CrashKeys \cup {"character"} : kb' = [kb EXCEPT !.holds = key]
    /\ IF kb.on THEN Raise(IRQ_KEYBOARD) ELSE UNCHANGED pic
    /\ UNCHANGED <<isr_map, pit, printing, crash, stack>>

SerialRequest ==
    /\ Top.at # "reset" /\ IRQ_COM1 \notin pic.irr /\ Raise(IRQ_COM1)
    /\ UNCHANGED <<isr_map, pit, kb, printing, crash, stack, used>>

-------------------------------------------------------------------------------
(* Boot, with interrupts off; a step of it is not inside a kprint.          *)

init_timer ==
    /\ At("setup") /\ Goto("boot", FALSE)
    /\ isr_map' = irq_register(irq_register(isr_map, IRQ_TIMER, "timer_interrupt"),
                               IRQ_RTC, "rtc_interrupt")
    /\ pic' = pic_unmask(pic_unmask(pic, IRQ_TIMER), IRQ_RTC)
    /\ UNCHANGED <<pit, kb, printing, crash, used>>

(* init_kb empties the controller; one that does not answer is a panic in
   init_ps2 or in one of its waits. *)
init_kb ==
    /\ At("boot") /\ ~printing
    /\ \E answers \in KbModels :
        IF answers
        THEN /\ isr_map' = irq_register(isr_map, IRQ_KEYBOARD, "kb_interrupt")
             /\ pic' = pic_unmask(pic, IRQ_KEYBOARD)
             /\ kb' = [kb EXCEPT !.ready = TRUE, !.holds = "nothing"]
             /\ Goto("serial", FALSE)
        ELSE panic(pic, stack) /\ UNCHANGED <<isr_map, kb>>
    /\ UNCHANGED <<pit, printing, crash, used>>

init_serial ==
    /\ At("serial") /\ ~printing /\ Goto("ring3", FALSE)
    /\ isr_map' = irq_register(irq_register(isr_map, IRQ_COM1, "com1_irq"), IRQ_COM2, "com2_irq")
    /\ pic' = pic_unmask(pic_unmask(pic, IRQ_COM1), IRQ_COM2)
    /\ UNCHANGED <<pit, kb, printing, crash, used>>

(* The end of kmain: the crash keys, and user mode with interrupts on. *)
go_to_ring3 ==
    /\ At("ring3") /\ ~printing /\ Goto("task", TRUE)
    /\ isr_map' = irq_register(isr_map, IRQ_TIMER, "crash_key_irq")
    /\ UNCHANGED <<pic, pit, kb, printing, crash, used>>

-------------------------------------------------------------------------------
(* The task.                                                                *)

(* open("/dev/tty1") in init: from here kb_putq has somewhere to put keys. *)
OpenTty ==
    /\ At("task") /\ ~printing /\ ~kb.tty
    /\ kb' = [kb EXCEPT !.tty = TRUE]
    /\ UNCHANGED <<pic, isr_map, pit, printing, crash, stack, used>>

Kernel == {"boot", "serial", "ring3", "task"}   \* what an exception interrupts

(* terminal_putchar, of a kprint or of a write: it sets the bit, with the
   interrupts as they are, and clears it at its end. *)
terminal_putchar ==
    /\ Top.at \in Kernel /\ ~printing /\ printing' = TRUE
    /\ UNCHANGED <<pic, isr_map, pit, kb, crash, stack, used>>

(* The BEL of a task, under the bit. *)
Bell ==
    /\ At("task") /\ printing /\ used.bells < MaxBells
    /\ used' = [used EXCEPT !.bells = @ + 1]
    /\ pit' = beep(BELL_TIME)
    /\ UNCHANGED <<pic, isr_map, kb, printing, crash, stack>>

terminal_putchar_done ==
    /\ Top.at \in Kernel /\ printing /\ printing' = FALSE
    /\ UNCHANGED <<pic, isr_map, pit, kb, crash, stack, used>>

(* A fault anywhere after the timer was set up, the crash screen included. *)
Fault ==
    /\ Top.at \in Kernel \cup {"show", "draw", "wait", "armed"}
    /\ used.faults < MaxFaults /\ used' = [used EXCEPT !.faults = @ + 1]
    /\ stack' = <<Exception(Top.intf)>> \o stack
    /\ UNCHANGED <<pic, isr_map, pit, kb, printing, crash>>

(* A failed assertion. *)
Assertion ==
    /\ Top.at \in Kernel
    /\ used.faults < MaxFaults /\ used' = [used EXCEPT !.faults = @ + 1]
    /\ panic(pic, stack)
    /\ UNCHANGED <<isr_map, pit, kb, printing, crash>>

-------------------------------------------------------------------------------
(* The crash screen.                                                        *)

(* cli in recv_interrupt, and handle_exception: a second exception goes to
   handle_soft_double_fault, and the test of it raises that itself. *)
handle_exception ==
    /\ At("enter")
    /\ crash' = [crash EXCEPT !.crashing = TRUE]
    /\ IF ~crash.crashing /\ crash.soft
       THEN stack' = <<Exception(FALSE), [Top EXCEPT !.at = "show", !.intf = FALSE]>> \o Tail(stack)
       ELSE Goto("show", FALSE)
    /\ UNCHANGED <<pic, isr_map, pit, kb, printing, used>>

(* fbwrite of show_crash_screen: it is drawn under the printing bit, and its
   loop never ends if the code that crashed holds the bit. *)
show_crash_screen ==
    /\ At("show")
    /\ IF printing THEN Goto("hung", FALSE) ELSE Goto("draw", FALSE)
    /\ printing' = TRUE
    /\ UNCHANGED <<pic, isr_map, pit, kb, crash, used>>

show_crash_screen_done ==
    /\ At("draw") /\ Goto("wait", FALSE) /\ printing' = FALSE
    /\ UNCHANGED <<pic, isr_map, pit, kb, crash, used>>

CrashMask_quiet(p) == pic_unmask(pic_setmask(p, IRQ_MASKALL), IRQ_KEYBOARD)

(* Both lines are tested with IRQ_TIMER. *)
CrashMask(p) ==
    LET q == pic_setmask(p, IRQ_MASKALL)
    IN IF _IRQ_ENABLED(p.imr, IRQ_TIMER)
       THEN pic_unmask(pic_unmask(q, IRQ_TIMER), IRQ_KEYBOARD) ELSE q

(* wait_for_keypress up to kb_getc; then kb_getc up to its loop. *)
wait_for_keypress ==
    /\ At("wait")
    /\ pic' = CrashMask(pic)
    /\ stack' = <<[at |-> "armed", intf |-> TRUE, mask |-> pic.imr]>> \o Tail(stack)
    /\ UNCHANGED <<isr_map, pit, kb, printing, crash, used>>

KeyWaited ==
    /\ pic' = pic_setmask(pic, Top.mask)
    /\ stack' = <<Frame("wait", FALSE)>> \o Tail(stack)

(* A request that waited for the sti is taken before kb_getc goes on. *)
kb_getc ==
    /\ At("armed") /\ Requests = {}
    /\ IF kb.ready
       THEN kb' = [kb EXCEPT !.pollchar = FALSE] /\ Goto("poll", TRUE) /\ UNCHANGED pic
       ELSE KeyWaited /\ UNCHANGED kb
    /\ UNCHANGED <<isr_map, pit, printing, crash, used>>

kb_getc_return ==
    /\ At("poll") /\ kb.pollchar
    /\ KeyWaited
    /\ UNCHANGED <<isr_map, pit, kb, printing, crash, used>>

-------------------------------------------------------------------------------

Init ==
    /\ pic = init_pic
    /\ isr_map = [irq \in Irqs |-> <<>>]
    /\ pit = [ticks |-> 0, on |-> FALSE]
    /\ kb = [ready |-> FALSE, on |-> TRUE, holds |-> "nothing", pollchar |-> FALSE, tty |-> FALSE]
    /\ printing = FALSE
    /\ crash = [key |-> "none", crashing |-> FALSE, soft |-> FALSE]
    /\ stack = <<Frame("setup", FALSE)>>
    /\ used = [keys |-> 0, faults |-> 0, spurious |-> 0, bells |-> 0]

Boot == init_timer \/ init_kb \/ init_serial \/ go_to_ring3

CrashScreen ==
    \/ handle_exception \/ show_crash_screen \/ show_crash_screen_done
    \/ wait_for_keypress \/ kb_getc \/ kb_getc_return

Next ==
    \/ \E irq \in Irqs : Interrupt(irq)
    \/ Spurious \/ Tick \/ KeyPress \/ SerialRequest
    \/ init_timer \/ init_kb \/ init_serial \/ go_to_ring3
    \/ OpenTty \/ terminal_putchar \/ Bell \/ terminal_putchar_done \/ Fault \/ Assertion
    \/ handle_exception \/ show_crash_screen \/ show_crash_screen_done
    \/ wait_for_keypress \/ kb_getc \/ kb_getc_return

(* The processor runs and takes the interrupts it can, and the timer ticks.
   Boot prints between its steps, a finite number of characters. *)
Fairness ==
    /\ WF_vars(Tick) /\ WF_vars(\E irq \in Irqs : Interrupt(irq))
    /\ SF_vars(Boot) /\ WF_vars(terminal_putchar_done) /\ WF_vars(CrashScreen)

Spec == Init /\ [][Next]_vars /\ Fairness

-------------------------------------------------------------------------------

(* Code that loops for ever on term->printing, with interrupts off. *)
Hung == Top.at = "hung"

(* With a working keyboard every key pressed is taken, also on the crash
   screen, after a panic, and when either began in the handler of the timer,
   whose line is above the keyboard's.  Two failures of the code are left
   out: a port that the panic of kb_putq left disabled, and the endless loop
   on the printing bit. *)
KeysTaken ==
    (kb.ready /\ kb.on /\ kb.holds # "nothing")
        ~> (kb.holds = "nothing" \/ Top.at = "reset" \/ Hung)

(* The speaker is turned off again, whatever crashed meanwhile, the keyboard's
   own panic included; only the loop on the printing bit is excused. *)
SpeakerStops == pit.on ~> (~pit.on \/ Top.at = "reset" \/ Hung)

===============================================================================
