------------------------------- MODULE Console -------------------------------
(***************************************************************************)
(* The kernel log and the consoles it goes to (console.c).  The log is a   *)
(* ring of LogSize characters that a console registered late is given      *)
(* first.  A write is interrupted by a handler that prints only when       *)
(* MaxNested is not zero: the kernel boots with interrupts off.            *)
(***************************************************************************)
EXTENDS Integers, SequencesExt

CONSTANTS Consoles,   \* the consoles there are
          VtConsole,  \* the one register_default_console registers
          Newline,    \* the character that ends a line
          Messages,   \* what may be printed
          LogSize,    \* KERNEL_LOG_SIZE
          PrintMax,   \* KPRINT_MAX
          MaxPrints, MaxNested

ASSUME ConsoleAssumption ==
    /\ LogSize \in Nat \ {0} /\ PrintMax \in Nat
    /\ VtConsole \in Consoles /\ Messages \subseteq Seq(Nat)

VARIABLES consoles,   \* g_consoles, the linked list as a sequence
          log,        \* _kernel_log
          log_start,  \* _log_start
          log_size,   \* _log_size
          writes,     \* the calls of console_write under way, the inner one last
          out,        \* what each console was given
          printed,    \* every character printed, in the order it was logged
          since,      \* length of printed when the console was registered
          prints

console_vars == <<consoles, log, log_start, log_size, writes, out, printed, since, prints>>

ConsoleInit ==
    /\ consoles = <<>>
    /\ log = [i \in 0 .. LogSize - 1 |-> 0]
    /\ log_start = 0 /\ log_size = 0
    /\ writes = <<>>
    /\ out = [c \in Consoles |-> <<>>]
    /\ printed = <<>>
    /\ since = [c \in Consoles |-> 0]
    /\ prints = 0

(* The bytes of the log from index a, n of them. *)
Piece(a, n) == [i \in 1 .. n |-> log[a + i - 1]]

(* What a new console is given: one piece, or two when the log is full. *)
Replay ==
    IF log_size < LogSize THEN Piece(log_start, log_size)
    ELSE Piece(log_start, LogSize - log_start) \o Piece(0, log_start)

(* The list is walked to its end; a console found in it is left alone. *)
RegisterConsole(c) ==
    IF c \in Range(consoles) THEN UNCHANGED <<consoles, out, since>>
    ELSE /\ consoles' = Append(consoles, c)
         /\ out' = [out EXCEPT ![c] = Replay]
         /\ since' = [since EXCEPT ![c] = Len(printed)]

(* Boot code: the serial port and the terminals register theirs. *)
register_console ==
    /\ writes = <<>>
    /\ \E c \in Consoles : RegisterConsole(c)
    /\ UNCHANGED <<log, log_start, log_size, writes, printed, prints>>

(* Nobody calls it; with no console at all it would follow a null pointer. *)
unregister_console ==
    /\ writes = <<>> /\ consoles # <<>>
    /\ \E c \in Consoles :
        consoles' = IF c \in Range(consoles)
                    THEN RemoveAt(consoles, CHOOSE i \in DOMAIN consoles : consoles[i] = c)
                    ELSE consoles
    /\ UNCHANGED <<log, log_start, log_size, writes, out, printed, since, prints>>

(* console_write up to its loop.  Only the first count characters are
   printed, and only KPRINT_MAX of them. *)
console_write ==
    /\ prints < MaxPrints /\ Len(writes) <= MaxNested
    /\ prints' = prints + 1
    /\ \E m \in Messages :
        writes' = Append(writes, [pc |-> "store", line |-> <<>>,
                                  left |-> SubSeq(m, 1, IF Len(m) > PrintMax THEN PrintMax ELSE Len(m))])
    /\ IF consoles = <<>> THEN RegisterConsole(VtConsole)
       ELSE UNCHANGED <<consoles, out, since>>
    /\ UNCHANGED <<log, log_start, log_size, printed>>

Inner == Last(writes)
SetInner(w) == writes' = [writes EXCEPT ![Len(writes)] = w]

(* The character goes into the log ... *)
LogStore ==
    /\ writes # <<>> /\ Inner.pc = "store" /\ Inner.left # <<>>
    /\ log' = [log EXCEPT ![(log_start + log_size) % LogSize] = Head(Inner.left)]
    /\ printed' = Append(printed, Head(Inner.left))
    /\ SetInner([Inner EXCEPT !.pc = "count", !.left = Tail(@), !.line = Append(@, Head(Inner.left))])
    /\ UNCHANGED <<consoles, log_start, log_size, out, since, prints>>

LogCount_stuck ==
    /\ writes # <<>> /\ Inner.pc = "count"
    /\ log_size' = IF log_size < LogSize THEN log_size + 1 ELSE log_size
    /\ log_start' = log_start
    /\ SetInner([Inner EXCEPT !.pc = IF Last(Inner.line) = Newline \/ Inner.left = <<>>
                                     THEN "line" ELSE "store"])
    /\ UNCHANGED <<consoles, log, out, printed, since, prints>>

(* ... and is counted.  A linefeed or the last character ends the line. *)
LogCount ==
    /\ writes # <<>> /\ Inner.pc = "count"
    /\ log_size' = IF log_size < LogSize THEN log_size + 1 ELSE log_size
    /\ log_start' = IF log_size < LogSize THEN log_start ELSE (log_start + 1) % LogSize
    /\ SetInner([Inner EXCEPT !.pc = IF Last(Inner.line) = Newline \/ Inner.left = <<>>
                                     THEN "line" ELSE "store"])
    /\ UNCHANGED <<consoles, log, out, printed, since, prints>>

(* The line goes to every console of the list. *)
WriteLine ==
    /\ writes # <<>> /\ Inner.pc = "line"
    /\ out' = [c \in Consoles |-> IF c \in Range(consoles) THEN out[c] \o Inner.line ELSE out[c]]
    /\ SetInner([Inner EXCEPT !.pc = "store", !.line = <<>>])
    /\ UNCHANGED <<consoles, log, log_start, log_size, printed, since, prints>>

WriteReturns ==
    /\ writes # <<>> /\ Inner.pc = "store" /\ Inner.left = <<>>
    /\ writes' = Front(writes)
    /\ UNCHANGED <<consoles, log, log_start, log_size, out, printed, since, prints>>

ConsoleNext ==
    \/ register_console \/ unregister_console
    \/ console_write \/ LogStore \/ LogCount \/ WriteLine \/ WriteReturns

-------------------------------------------------------------------------------
LastOf(n, s) == SubSeq(s, IF Len(s) > n THEN Len(s) - n + 1 ELSE 1, Len(s))

(* Between messages every registered console has been given, once and in
   order, what the log still held when it was registered and everything
   printed since, whether the log was empty, partly filled or had wrapped
   round; and the log itself ends with what was printed last, for the console
   that will be registered next. *)
NothingUnprinted ==
    writes = <<>> =>
        /\ Replay = LastOf(LogSize, printed)
        /\ \A c \in Range(consoles) :
            out[c] = LastOf(LogSize, SubSeq(printed, 1, since[c]))
                        \o SubSeq(printed, since[c] + 1, Len(printed))
===============================================================================
