-------------------------- MODULE VirtualTerminals --------------------------
(***************************************************************************)
(* The virtual terminals of kernel/char/terminal.c together: the task that *)
(* writes to them, the keyboard's interrupt handler that echoes what is    *)
(* typed on the current one and switches between them, kernel messages,    *)
(* the VGA registers, and the page mapping that makes the current          *)
(* terminal's frame buffer the visible one.                                *)
(*                                                                         *)
(* terminal_putchar runs in the task with interrupts on: its lock, its     *)
(* work on the terminal, its test whether the terminal is shown, its       *)
(* writes to the VGA and its unlock are steps between which the handler    *)
(* may run.  The handler works on a terminal only when it can take the     *)
(* lock, so that the work under the lock is one step.                      *)
(***************************************************************************)
EXTENDS Terminal

CONSTANTS NR_TERMINAL,   \* terminals (7)
          Text,          \* characters written at any time
          EscCodes,      \* characters written after ESC
          CsiCodes,      \* characters written after ESC [
          Keys,          \* characters typed and echoed
          Messages,      \* characters of kernel messages printed by handlers
          MaxParam,      \* bound: no digit is added to a parameter above it
          TopReverse     \* TRUE: ESC M is also written on the top line

Terminals == 1 .. NR_TERMINAL
VGA == 0        \* the frame that is shown; frame n is the back buffer of terminal n
Frames == {VGA} \cup Terminals

ASSUME VirtualTerminalsAssumption ==
    /\ NR_TERMINAL \in Nat \ {0}
    /\ MaxParam \in Nat
    /\ TopReverse \in BOOLEAN

VARIABLES term,     \* g_terminals; the text is in mem
          current,  \* g_currterm
          mem,      \* the frames
          pte,      \* the frame each terminal's frame buffer is mapped to
          vga,      \* VGA registers: cursor position, cursor hidden, blink
          task,     \* terminal_putchar in the task: pc, terminal, character, registers
          isr       \* "idle", or "spin": the handler is in a loop it cannot leave

vars == <<term, current, mem, pte, vga, task, isr>>

BlankFrame == [p \in Cells |-> BLANK]

(* A terminal after initialize_terminal. *)
Fresh ==
    terminal_defaults([state |-> "NORM", x |-> 0, y |-> 0, hidden |-> FALSE,
        need_wrap |-> FALSE, tabs |-> {}, param |-> NoParams, idx |-> 0,
        attr |-> DefaultAttr, blink_on |-> FALSE, saved |-> <<>>, printing |-> FALSE,
        fb |-> <<>>])

Idle == [pc |-> "user", n |-> 1, c |-> "NUL", regs |-> {}]

(* After init_terminal has switched to terminal 1. *)
Init ==
    /\ term = [n \in Terminals |-> Fresh]
    /\ current = 1
    /\ mem = [f \in Frames |-> BlankFrame]
    /\ pte = [n \in Terminals |-> IF n = 1 THEN VGA ELSE n]
    /\ vga = [pos |-> 0, hidden |-> FALSE, blink |-> FALSE]
    /\ task = Idle
    /\ isr = "idle"

-----------------------------------------------------------------------------
(* Terminal n with its text. *)
Loaded(n) == [term[n] EXCEPT !.fb = mem[pte[n]]]

(* Put the result of some work on terminal n back. *)
Store(n, t) ==
    /\ term' = [term EXCEPT ![n] = [t EXCEPT !.fb = <<>>]]
    /\ mem' = [mem EXCEPT ![pte[n]] = t.fb]

(* Write the registers in regs from terminal t. *)
WriteVga(t, regs) ==
    [pos    |-> IF "pos" \in regs THEN xy2pos(t.x, t.y) ELSE vga.pos,
     hidden |-> IF "hidden" \in regs THEN t.hidden ELSE vga.hidden,
     blink  |-> IF "blink" \in regs THEN t.blink_on ELSE vga.blink]

(* What may be written next, given where the control sequence stands. *)
MaySend(t, c) ==
    \/ c \in Text
    \/ t.state = "ESC" /\ c \in EscCodes /\ (c = "M" => TopReverse \/ t.y > 0)
    \/ t.state = "CSI" /\ c \in CsiCodes /\ (isdigit(c) => t.param[t.idx] <= MaxParam)

Task(pc) == isr = "idle" /\ task.pc = pc

(* test_and_set_bit: terminal_write calls again as long as it finds the bit set. *)
PutcharLock ==
    /\ Task("user")
    /\ \E n \in Terminals, c \in Text \cup EscCodes \cup CsiCodes :
          /\ MaySend(term[n], c)
          /\ ~term[n].printing
          /\ term' = [term EXCEPT ![n].printing = TRUE]
          /\ task' = [pc |-> "body", n |-> n, c |-> c, regs |-> {}]
    /\ UNCHANGED <<current, mem, pte, vga, isr>>

PutcharBody ==
    /\ Task("body")
    /\ LET t == Loaded(task.n)
       IN  /\ Store(task.n, body(t, task.c))
           /\ task' = [pc |-> "shown", n |-> task.n, c |-> "NUL", regs |-> refresh(t, task.c)]
    /\ UNCHANGED <<current, pte, vga, isr>>

(* is_current *)
PutcharShown ==
    /\ Task("shown")
    /\ task' = IF task.n = current /\ task.regs # {} THEN [task EXCEPT !.pc = "vga"]
               ELSE [task EXCEPT !.pc = "unlock", !.regs = {}]
    /\ UNCHANGED <<term, current, mem, pte, vga, isr>>

PutcharVga ==
    /\ Task("vga")
    /\ vga' = WriteVga(term[task.n], task.regs)
    /\ task' = [task EXCEPT !.pc = "unlock", !.regs = {}]
    /\ UNCHANGED <<term, current, mem, pte, isr>>

PutcharUnlock ==
    /\ Task("unlock")
    /\ term' = [term EXCEPT ![task.n].printing = FALSE]
    /\ task' = Idle
    /\ UNCHANGED <<current, mem, pte, vga, isr>>

-----------------------------------------------------------------------------
(* Mutant: the terminal that is left keeps the visible frame. *)
remap_both(num) == [pte EXCEPT ![num] = VGA]

(* The page mapping: the frame buffer of the terminal that is left goes to its *)
(* back buffer, that of the new one to the visible frame.                      *)
remap(num) == [n \in Terminals |-> IF n = num THEN VGA ELSE IF n = current THEN n ELSE pte[n]]

(* Mutant: the text of the terminal that is left is not saved. *)
swap_lost(num) == [mem EXCEPT ![VGA] = mem[num]]

(* Swap buffers: save what is shown, show the new terminal's text. *)
swap(num) ==
    [mem EXCEPT ![current] = mem[VGA], ![VGA] = IF num = current THEN mem[VGA] ELSE mem[num]]

(* ALT+Fn, in the keyboard's interrupt handler. *)
switch_terminal(num) ==
    /\ isr = "idle"
    /\ mem' = swap(num)
    /\ pte' = remap(num)
    /\ vga' = WriteVga(term[num], {"pos", "hidden", "blink"})
    /\ current' = num
    /\ UNCHANGED <<term, task, isr>>

(* terminal_putchar by a handler, on the current terminal and with interrupts off. *)
HandlerPrints(c) ==
    LET t == Loaded(current)
    IN  /\ Store(current, body(t, c))
        /\ vga' = WriteVga(body(t, c), refresh(t, c))
        /\ UNCHANGED <<current, pte, task, isr>>

(* A key is echoed through terminal_write, which repeats terminal_putchar until it *)
(* takes the character: while the task holds the lock, for ever.                   *)
IsrEcho ==
    /\ isr = "idle"
    /\ \E c \in Keys :
          IF term[current].printing
          THEN isr' = "spin" /\ UNCHANGED <<term, current, mem, pte, vga, task>>
          ELSE HandlerPrints(c)

(* A kernel message goes through vt_console_write, which drops what is refused. *)
IsrMessage ==
    /\ isr = "idle"
    /\ \E c \in Messages :
          IF term[current].printing THEN UNCHANGED vars ELSE HandlerPrints(c)

-----------------------------------------------------------------------------
Next ==
    \/ PutcharLock \/ PutcharBody \/ PutcharShown \/ PutcharVga \/ PutcharUnlock
    \/ IsrEcho \/ IsrMessage
    \/ \E num \in Terminals : switch_terminal(num)

Spec == Init /\ [][Next]_vars

-----------------------------------------------------------------------------
(* Properties. *)

Visible == (Text \cup Keys \cup Messages) \ Cntrl   \* the letters that are written

(* Every terminal's cursor is on the screen, its parameters and tab stops inside *)
(* their arrays: no control sequence makes terminal.c index out of bounds.       *)
TypeOK ==
    /\ current \in Terminals
    /\ isr \in {"idle", "spin"}
    /\ \A n \in Terminals :
          /\ term[n].x \in 0 .. COLS - 1 /\ term[n].y \in 0 .. ROWS - 1
          /\ term[n].saved.x \in 0 .. COLS - 1 /\ term[n].saved.y \in 0 .. ROWS - 1
          /\ term[n].state \in {"NORM", "ESC", "CSI"}
          /\ term[n].state = "CSI" => term[n].idx \in Params
          /\ term[n].tabs \subseteq 0 .. COLS - 1
    /\ \A f \in Frames : DOMAIN mem[f] = Cells

(* A deferred wrap is pending only at the edge: no cursor motion, erase or restore *)
(* leaves it behind to move a later character to another line.                     *)
WrapAtEdge == \A n \in Terminals : term[n].need_wrap => term[n].x = COLS - 1

(* Between characters the VGA shows the cursor of the current terminal where the *)
(* next character goes, and its blink and cursor settings.                       *)
VgaAgrees ==
    ~term[current].printing =>
        vga = [pos |-> xy2pos(term[current].x, term[current].y),
               hidden |-> term[current].hidden, blink |-> term[current].blink_on]

(* The visible frame belongs to the current terminal and to no other, whenever the *)
(* switch comes.                                                                   *)
ShownIsCurrent ==
    /\ pte[current] = VGA
    /\ \A n \in Terminals : n # current => pte[n] = n

(* Plain text appears on every terminal as on a sheet of paper: whatever the *)
(* interleaving of writes, echo, messages and switches, a character that is   *)
(* printed lands once and at its place, one that finds the terminal busy and  *)
(* is dropped changes nothing, and a switch changes no terminal's text.       *)
Paper == INSTANCE Teletype WITH
    Sheets <- Terminals,
    Letters <- Visible,
    line <- [n \in Terminals |->
               [i \in 0 .. ROWS - 1 |-> [j \in 0 .. COLS - 1 |-> mem[pte[n]][i * COLS + j]]]],
    row <- [n \in Terminals |-> term[n].y],
    col <- [n \in Terminals |-> IF term[n].need_wrap THEN COLS ELSE term[n].x]

ImplementsTeletype == Paper!Spec

(* The handler never waits for the task it has interrupted. *)
HandlerReturns == isr # "spin"
=============================================================================
