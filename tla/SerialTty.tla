------------------------------ MODULE SerialTty ------------------------------
(***************************************************************************)
(* A serial TTY end to end: the system calls of the one task (tty.c over   *)
(* tty_ldisc.c over serial.c), the UART interrupt handler that preempts    *)
(* them, the UART and its peer.                                            *)
(*                                                                         *)
(* Interleaving.  The machine has one CPU.  The handler runs with          *)
(* interrupts off, so a step of the task happens only while isr.pc is      *)
(* "idle"; the task runs with interrupts on (entry.S executes sti before   *)
(* the handler of a system call) except between cli_save and               *)
(* restore_flags, which is one step here.  The UART and the peer move at   *)
(* any time, also between two steps of the handler.                        *)
(***************************************************************************)
EXTENDS NTty

CONSTANTS RECV_MAX,       \* characters received per interrupt (128)
          INTR_MAX,       \* passes per interrupt (16)
          DefaultTermios, \* flags of default_termios
          TermiosChoices, \* flag sets the task may install with TCSETS
          Opened,         \* TRUE: start with the port opened on a quiet line
          Calls,          \* system calls the task makes
          Bufs,           \* buffers the task writes
          ReadCounts,     \* counts the task reads with
          Input,          \* characters the peer may send, in any order
          MaxIn,          \* bound on the characters the peer sends
          MaxCalls,       \* bound on the system calls other than read
          MaxCts          \* bound on the changes of CTS

ASSUME SerialTtyAssumption ==
    /\ RECV_MAX \in Nat \ {0}
    /\ INTR_MAX \in Nat \ {0}
    /\ Opened \in BOOLEAN
    /\ Bufs \subseteq Seq(Nat) /\ Input \subseteq Nat
    /\ MaxIn \in Nat /\ MaxCalls \in Nat /\ MaxCts \in Nat

VARIABLES k,    \* the machine state: struct tty, struct com, rx_ring, the UART
          task, \* the task: pc and the locals of the system call it is in
          isr,  \* com_interrupt: pc and its locals
          hist  \* history: what was sent, read and lost, and the bounds spent

vars == <<k, task, isr, hist>>

-----------------------------------------------------------------------------
(* Boot: tty->open and com->open clear, the UART silent. *)
Boot ==
    [open |-> FALSE, throttled |-> FALSE, stopped |-> FALSE, hw_stopped |-> FALSE,
     termios |-> {}, rx |-> <<>>,
     com_open |-> FALSE, com_tty |-> FALSE, tx |-> <<>>, xchar |-> NUL, acc |-> <<>>,
     ier |-> {}, fifo |-> <<>>, tmo |-> FALSE, oe |-> FALSE, rts |-> FALSE,
     thr |-> 0, thri |-> FALSE, over |-> FALSE, wire |-> <<>>, told |-> NUL,
     cts |-> TRUE, dcts |-> FALSE, irr |-> FALSE]

(* tty_open_internal on a port that is not open.  sys_open keeps interrupts off *)
(* around all of it.                                                            *)
tty_open_internal(m) ==
    [serial_open(n_tty_open([m EXCEPT !.termios = DefaultTermios])) EXCEPT
        !.open = TRUE, !.throttled = FALSE, !.stopped = FALSE, !.hw_stopped = FALSE]

(* The same when the UART does not read back and serial_open returns -EIO. *)
tty_open_eio(m) == serial_open_eio(n_tty_open([m EXCEPT !.termios = DefaultTermios]))

Init ==
    /\ k = IF Opened THEN tty_open_internal(Boot) ELSE Boot
    /\ task = [pc |-> "user", fd |-> Opened, n |-> 0, buf |-> <<>>, out |-> <<>>,
               nonblock |-> FALSE]
    /\ isr = [pc |-> "idle", id |-> "NONE", thre |-> FALSE,
              count |-> 0, npass |-> 0]
    /\ hist = [arrived |-> <<>>, lost |-> {}, got |-> <<>>, calls |-> 0, cts |-> 0,
               said |-> <<>>, flow |-> NUL]

(* A step of the task: not while the handler runs. *)
Task(from) == isr.pc = "idle" /\ task.pc = from

Goto(to) == task' = [task EXCEPT !.pc = to]

Call(name) ==
    /\ Task("user")
    /\ name \in Calls
    /\ hist.calls < MaxCalls
    /\ hist' = [hist EXCEPT !.calls = @ + 1]

-----------------------------------------------------------------------------
(* open(): tty_open, tty_open_internal. *)
SysOpenAgain ==
    /\ Call("open") /\ ~task.fd /\ k.open
    /\ task' = [task EXCEPT !.fd = TRUE]
    /\ UNCHANGED <<k, isr>>

SysOpen ==
    /\ Call("open") /\ ~task.fd /\ ~k.open
    /\ k' = tty_open_internal(k)
    /\ task' = [task EXCEPT !.fd = TRUE]
    /\ UNCHANGED isr

SysOpenFails ==
    /\ Call("open") /\ ~task.fd /\ ~k.open
    /\ k' = tty_open_eio(k)
    /\ UNCHANGED <<task, isr>>

(* close(): tty_close, serial_close.  com->tty and com->open are cleared by *)
(* two stores with interrupts on; tty->open is not cleared.                 *)
SysClose ==
    /\ Call("close") /\ task.fd
    /\ k' = serial_flush(k)
    /\ Goto("close_tty")
    /\ UNCHANGED isr

CloseTty ==
    /\ Task("close_tty")
    /\ k' = [k EXCEPT !.com_tty = FALSE]
    /\ Goto("close_open")
    /\ UNCHANGED <<isr, hist>>

CloseOpen ==
    /\ Task("close_open")
    /\ k' = [k EXCEPT !.com_open = FALSE]
    /\ task' = [task EXCEPT !.pc = "user", !.fd = FALSE]
    /\ UNCHANGED <<isr, hist>>

-----------------------------------------------------------------------------
(* read(): n_tty_read. *)
SysRead ==
    /\ Task("user") /\ task.fd /\ "read" \in Calls
    /\ \E n \in ReadCounts, nb \in BOOLEAN :
          task' = [task EXCEPT !.pc = "read", !.n = n, !.nonblock = nb]
    /\ UNCHANGED <<k, isr, hist>>

(* Where the loop continues after a character. *)
ReadLoop(n) == IF n = 0 THEN "user" ELSE "read"

(* ring_count and, with interrupts off, ring_get.  The handler only adds to rx, *)
(* so that the count read before cli_save still holds after it.                 *)
ReadGet ==
    /\ Task("read") /\ k.rx # <<>>
    /\ k' = [k EXCEPT !.rx = Tail(@)]
    /\ hist' = [hist EXCEPT !.got = Append(@, Head(k.rx))]
    /\ task' = [task EXCEPT !.pc = "read_room", !.n = @ - 1]
    /\ UNCHANGED isr

(* O_NONBLOCK: return what there is, or -EAGAIN.  A blocking read spins. *)
ReadWouldBlock ==
    /\ Task("read") /\ k.rx = <<>> /\ task.nonblock
    /\ Goto("user")
    /\ UNCHANGED <<k, isr, hist>>

(* Mutant: the room test inverted. *)
HasRoom_inv(m) == n_tty_recv_room(m) < TTY_THROTTLE_THRESH

HasRoom(m) == n_tty_recv_room(m) >= TTY_THROTTLE_THRESH

ReadRoom ==
    /\ Task("read_room")
    /\ Goto(IF HasRoom(k) THEN "read_unthrottle" ELSE ReadLoop(task.n))
    /\ UNCHANGED <<k, isr, hist>>

(* unthrottle_tty: test and clear the flag ... *)
ReadUnthrottle ==
    /\ Task("read_unthrottle")
    /\ k' = [k EXCEPT !.throttled = FALSE]
    /\ Goto(IF k.throttled THEN "read_unthrottle_driver" ELSE ReadLoop(task.n))
    /\ UNCHANGED <<isr, hist>>

(* ... then tell the driver. *)
ReadUnthrottleDriver ==
    /\ Task("read_unthrottle_driver")
    /\ k' = serial_unthrottle(k)
    /\ Goto(ReadLoop(task.n))
    /\ UNCHANGED <<isr, hist>>

-----------------------------------------------------------------------------
(* write(): n_tty_write. *)
SysWrite ==
    /\ Call("write") /\ task.fd
    /\ \E b \in Bufs : task' = [task EXCEPT !.pc = "write", !.buf = b]
    /\ UNCHANGED <<k, isr>>

(* OPOST: opost tests the room; a character that does not fit ends the write. *)
WriteOpost ==
    /\ Task("write") /\ task.buf # <<>> /\ "OPOST" \in k.termios
    /\ task' = IF opost_fits(k, Head(task.buf))
               THEN [task EXCEPT !.pc = "write_char", !.out = opost_chars(k, Head(task.buf))]
               ELSE [task EXCEPT !.pc = "write_flush"]
    /\ UNCHANGED <<k, isr, hist>>

(* write_char ignores what the driver returns. *)
WriteChar ==
    /\ Task("write_char")
    /\ k' = write_char(k, Head(task.out))
    /\ hist' = [hist EXCEPT !.said = Append(@, Head(task.out))]
    /\ task' = IF Len(task.out) > 1
               THEN [task EXCEPT !.out = Tail(@)]
               ELSE [task EXCEPT !.out = <<>>, !.buf = Tail(@), !.pc = "write"]
    /\ UNCHANGED isr

(* No OPOST: as much as the driver takes, again until nothing is left. *)
WriteRaw ==
    /\ Task("write") /\ task.buf # <<>> /\ "OPOST" \notin k.termios
    /\ LET n == serial_write_count(k, task.buf)
       IN  /\ task' = [task EXCEPT !.buf = SubSeq(@, n + 1, Len(@))]
           /\ hist' = [hist EXCEPT !.said = @ \o SubSeq(task.buf, 1, n)]
    /\ k' = serial_write(k, task.buf)
    /\ UNCHANGED isr

WriteDone ==
    /\ Task("write") /\ task.buf = <<>>
    /\ Goto("write_flush")
    /\ UNCHANGED <<k, isr, hist>>

WriteFlush ==
    /\ Task("write_flush")
    /\ k' = serial_flush(k)
    /\ task' = [task EXCEPT !.pc = "user", !.buf = <<>>]
    /\ UNCHANGED <<isr, hist>>

-----------------------------------------------------------------------------
(* ioctl(TCSETS): set_termios copies the flags and nothing else. *)
SysTcsets ==
    /\ Call("tcsets") /\ task.fd
    /\ \E t \in TermiosChoices : k' = [k EXCEPT !.termios = t]
    /\ UNCHANGED <<task, isr>>

(* ioctl(TIOCMGET): get_modem_info runs check_modem_status from the task.  It *)
(* reads com->tty->termios: with com->tty NULL the kernel faults.             *)
SysTiocmget ==
    /\ Call("tiocmget") /\ task.fd
    /\ IF k.com_tty THEN k' = check_modem_status(k) /\ isr' = isr
                    ELSE k' = k /\ isr' = [isr EXCEPT !.pc = "null"]
    /\ UNCHANGED task

-----------------------------------------------------------------------------
(* The interrupt handler: com1_irq, com_interrupt and what it calls. *)
Isr(from) == isr.pc = from

(* The CPU takes the interrupt; handle_irq has sent the EOI.  A port that is *)
(* not open is not looked at.                                                *)
IrqEnter ==
    /\ Isr("idle") /\ k.irr
    /\ k' = [k EXCEPT !.irr = FALSE]
    /\ isr' = [isr EXCEPT !.pc = IF k.com_open THEN "iir" ELSE "idle", !.npass = 0]
    /\ UNCHANGED <<task, hist>>

IsrIir ==
    /\ Isr("iir")
    /\ k' = read_IIR(k)
    /\ isr' = [isr EXCEPT !.id = IIR(k), !.pc = IF IIR(k) = "NONE" THEN "idle" ELSE "lsr"]
    /\ UNCHANGED <<task, hist>>

(* check_line_status, and the test whether there is anything to receive. *)
IsrLsr ==
    /\ Isr("lsr")
    /\ k' = read_LSR(k)
    /\ isr' = [isr EXCEPT !.thre = k.thr = 0, !.count = RECV_MAX,
                          !.pc = IF isr.id \in {"RDA", "TIMEOUT"} \/ k.fifo # <<>>
                                 THEN "rx" ELSE "msr"]
    /\ UNCHANGED <<task, hist>>

(* recv_chars: read one character, hand it to the line discipline. *)
IsrRx ==
    /\ Isr("rx")
    /\ LET c == Head(k.fifo)
           r == read_RX(k)
           m == n_tty_recv(r, c)
       IN  CASE ~k.com_tty -> k' = r /\ isr' = [isr EXCEPT !.pc = "null"] /\ hist' = hist
             [] k.com_tty /\ recv_never_returns(k, c) ->
                   k' = r /\ isr' = [isr EXCEPT !.pc = "spin"] /\ hist' = hist
             [] OTHER ->
                   /\ k' = m
                   /\ isr' = [isr EXCEPT !.pc = "rx_lsr", !.count = @ - 1]
                   /\ hist' = IF "IXON" \in k.termios /\ c \in {START_CHAR, STOP_CHAR}
                              THEN [hist EXCEPT !.flow = c]
                              ELSE [hist EXCEPT !.lost = IF m.rx = k.rx THEN @ \cup {c} ELSE @]
    /\ UNCHANGED task

(* Mutant: the data ready test is missing. *)
IsrRxLsr_nodr ==
    /\ Isr("rx_lsr")
    /\ k' = read_LSR(k)
    /\ isr' = [isr EXCEPT !.thre = k.thr = 0, !.pc = IF isr.count > 0 THEN "rx" ELSE "msr"]
    /\ UNCHANGED <<task, hist>>

(* ... and go on while there is data and the limit is not reached. *)
IsrRxLsr ==
    /\ Isr("rx_lsr")
    /\ k' = read_LSR(k)
    /\ isr' = [isr EXCEPT !.thre = k.thr = 0,
                          !.pc = IF k.fifo # <<>> /\ isr.count > 0 THEN "rx" ELSE "msr"]
    /\ UNCHANGED <<task, hist>>

(* Mutant: the wrong interrupt source starts the transmitter. *)
IsrMsr_rda ==
    /\ Isr("msr")
    /\ IF k.com_tty
       THEN /\ k' = check_modem_status(k)
            /\ isr' = [isr EXCEPT !.pc = IF isr.id = "RDA" THEN "tx" ELSE "pass"]
       ELSE k' = k /\ isr' = [isr EXCEPT !.pc = "null"]
    /\ UNCHANGED <<task, hist>>

(* check_modem_status, and the test whether the transmitter is ready. *)
IsrMsr ==
    /\ Isr("msr")
    /\ IF k.com_tty
       THEN /\ k' = check_modem_status(k)
            /\ isr' = [isr EXCEPT !.pc = IF isr.id = "THRE" \/ isr.thre THEN "tx" ELSE "pass"]
       ELSE k' = k /\ isr' = [isr EXCEPT !.pc = "null"]
    /\ UNCHANGED <<task, hist>>

IsrTx ==
    /\ Isr("tx")
    /\ k' = send_chars(k)
    /\ isr' = [isr EXCEPT !.pc = "pass"]
    /\ UNCHANGED <<task, hist>>

(* The test that leaves the loop of com_interrupt after its first pass. *)
leave_loop(npass) == npass + 1 <= INTR_MAX

IsrPass ==
    /\ Isr("pass")
    /\ IF leave_loop(isr.npass)
       THEN k' = k /\ isr' = [isr EXCEPT !.pc = "idle"]
       ELSE /\ k' = read_IIR(k)
            /\ isr' = [isr EXCEPT !.npass = @ + 1, !.id = IIR(k),
                                  !.pc = IF IIR(k) = "NONE" THEN "idle" ELSE "lsr"]
    /\ UNCHANGED <<task, hist>>

-----------------------------------------------------------------------------
(* The UART and the peer.  A peer that honours flow control sends no data after *)
(* it was told to stop; it may always send XON and XOFF.                        *)
PeerMaySend(c) ==
    \/ c \in {START_CHAR, STOP_CHAR}
    \/ /\ "IXOFF" \in k.termios => k.told # STOP_CHAR
       /\ "CRTSCTS" \in k.termios => k.rts

HwReceive ==
    /\ Len(hist.arrived) < MaxIn
    /\ \E c \in Input :
          /\ PeerMaySend(c)
          /\ \A i \in 1 .. Len(hist.arrived) :
                 hist.arrived[i] # c \/ c \in {START_CHAR, STOP_CHAR}
          /\ k' = Receive(k, c)
          /\ hist' = [hist EXCEPT !.arrived = Append(@, c),
                                  !.lost = IF Len(k.fifo) < FIFO_DEPTH THEN @ ELSE @ \cup {c}]
    /\ UNCHANGED <<task, isr>>

HwTimeout ==
    /\ k.fifo # <<>> /\ ~k.tmo
    /\ k' = ReceiveTimeout(k)
    /\ UNCHANGED <<task, isr, hist>>

HwTransmit ==
    /\ k.thr > 0
    /\ k' = Transmit(k)
    /\ UNCHANGED <<task, isr, hist>>

HwCts ==
    /\ hist.cts < MaxCts
    /\ k' = ToggleCts(k)
    /\ hist' = [hist EXCEPT !.cts = @ + 1]
    /\ UNCHANGED <<task, isr>>

-----------------------------------------------------------------------------
TaskNext ==
    \/ SysOpenAgain \/ SysOpen \/ SysOpenFails
    \/ SysClose \/ CloseTty \/ CloseOpen
    \/ SysRead \/ ReadGet \/ ReadWouldBlock \/ ReadRoom
    \/ ReadUnthrottle \/ ReadUnthrottleDriver
    \/ SysWrite \/ WriteOpost \/ WriteChar \/ WriteRaw \/ WriteDone \/ WriteFlush
    \/ SysTcsets \/ SysTiocmget

IsrNext ==
    \/ IrqEnter \/ IsrIir \/ IsrLsr \/ IsrRx \/ IsrRxLsr \/ IsrMsr \/ IsrTx \/ IsrPass

HwNext == HwReceive \/ HwTimeout \/ HwTransmit \/ HwCts

Next == TaskNext \/ IsrNext \/ HwNext

Spec == Init /\ [][Next]_vars

(* The handler and the UART run whenever they can, and a system call that was *)
(* begun goes on.  Nothing makes the peer send, CTS change or the task call.   *)
Fairness ==
    /\ WF_vars(IsrNext)
    /\ WF_vars(HwTimeout)
    /\ WF_vars(HwTransmit)
    /\ WF_vars(TaskNext /\ task.pc # "user")

FairSpec == Spec /\ Fairness

-----------------------------------------------------------------------------
(* Properties. *)

IsData(c) == c \notin {START_CHAR, STOP_CHAR}

TaskPc ==
    {"user", "close_tty", "close_open", "read", "read_room", "read_unthrottle",
     "read_unthrottle_driver", "write", "write_char", "write_flush"}

IsrPc == {"idle", "iir", "lsr", "rx", "rx_lsr", "msr", "tx", "pass", "null", "spin"}

(* The buffers stay within the sizes tty_ldisc.c and serial.c give them, the *)
(* UART within its FIFO depth, and recv_chars never reads an empty receiver. *)
TypeOK ==
    /\ task.pc \in TaskPc
    /\ isr.pc \in IsrPc
    /\ k.ier \subseteq Source
    /\ Len(k.rx) \in 0 .. TTY_BUFFER_SIZE
    /\ Len(k.tx) \in 0 .. TX_SIZE
    /\ Len(k.fifo) \in 0 .. FIFO_DEPTH
    /\ k.thr \in 0 .. FIFO_DEPTH
    /\ k.xchar \in {NUL, START_CHAR, STOP_CHAR}
    /\ isr.pc = "rx" => k.fifo # <<>>

(* The data characters of a sequence. *)
Data(s) == {s[i] : i \in DOMAIN s} \ {START_CHAR, STOP_CHAR}

(* One comes before the other in s. *)
Before(s, a, b) == \E i, j \in DOMAIN s : i < j /\ s[i] = a /\ s[j] = b

(* The data of t are in the order they have in s. *)
InOrder(t, s) ==
    \A i, j \in DOMAIN t :
        i < j /\ IsData(t[i]) /\ IsData(t[j]) => Before(s, t[i], t[j])

(* What the task reads is what arrived, in order and without duplicates (the     *)
(* data the peer sends are distinct): the characters read, buffered and still in *)
(* the UART are exactly those received minus those dropped by a full FIFO or a   *)
(* full input buffer, and XON and XOFF are not among those given to the reader.  *)
InputIntact ==
    LET input == hist.got \o k.rx
        held  == input \o k.fifo
    IN  /\ Data(held) = Data(hist.arrived) \ hist.lost
        /\ InOrder(held, hist.arrived)
        /\ \A i \in DOMAIN input : IsData(input[i])

(* The characters tx_ring took leave the driver in the order they went in,   *)
(* none skipped, sent twice or made up, whoever (write or echo) put it there. *)
(* Not about what a full ring refused, nor about what a full transmit FIFO    *)
(* loses after the driver has written it.                                     *)
OutputIntact == k.wire \o k.tx = k.acc

(* No stalled output: whenever the open port has something to send and neither *)
(* XOFF nor CTS holds it back, the transmitter interrupt is enabled.           *)
TxArmed ==
    k.com_open /\ k.tx # <<>> /\ ~k.stopped /\ ~k.hw_stopped => "THRE" \in k.ier

(* After the peer's XOFF was taken from the receiver no data goes out until its *)
(* XON was taken.                                                               *)
XoffObeyed == [][Len(k.wire') > Len(k.wire) => hist.flow # STOP_CHAR]_vars

(* What the peer knows or is about to be told. *)
FlowWord == IF k.xchar # NUL THEN k.xchar ELSE k.told

(* A peer told to stop is not forgotten: tty->throttled is set, or the reader is *)
(* just about to send XON.  Otherwise no later read would ever release it.       *)
PeerNotForgotten ==
    FlowWord = STOP_CHAR => k.throttled \/ task.pc = "read_unthrottle_driver"

(* The task and the peer never wait for each other: a read that spins on an *)
(* empty buffer is not waiting for a peer that was told to stop.            *)
NoMutualWait ==
    task.pc = "read" /\ k.rx = <<>> => FlowWord # STOP_CHAR /\ k.rts

(* The UART holds its interrupt line high but the edge was already consumed: *)
(* no interrupt of this port will ever be taken again.                       *)
Wedged == isr.pc = "idle" /\ IntLine(k) /\ ~k.irr

(* Output drains unless the peer stops it (or the interrupt line is wedged). *)
OutputDrains == k.tx # <<>> ~> (k.tx = <<>> \/ k.stopped \/ Wedged)

(* Received characters leave the UART (unless the interrupt line is wedged). *)
InputServed == k.fifo # <<>> ~> (k.fifo = <<>> \/ Wedged)

(* serial_open asserts that an open port has its tty: the handler must never *)
(* run on a port whose com->tty is NULL.                                     *)
OpenPortHasTty == isr.pc # "null"

(* A file descriptor the task holds refers to a port that is open. *)
DescriptorIsOpen == task.fd /\ task.pc = "user" => k.com_open

(* A pending high-priority XON/XOFF will be transmitted. *)
XcharArmed == k.xchar # NUL => "THRE" \in k.ier

(* While the receiver is throttled the peer was, or is about to be, told to stop. *)
ThrottledMeansStop ==
    k.throttled /\ "IXOFF" \in k.termios => FlowWord = STOP_CHAR

(* com_interrupt returns with nothing pending, or an edge to bring it back, *)
(* unless it has made more than INTR_MAX passes.                            *)
NoLostInterrupt == k.com_open /\ isr.npass <= INTR_MAX => ~Wedged

(* Every character write() counts as written was put into the output queue. *)
WriteIsTruthful ==
    LET mine(c) == c \in UNION {{b[i] : i \in DOMAIN b} : b \in Bufs}
    IN  SelectSeq(k.acc, mine) = hist.said

(* send_chars never writes more to the UART than its FIFO holds. *)
NoXmitOverrun == ~k.over

(* The interrupt handler returns. *)
HandlerReturns == isr.pc # "idle" ~> isr.pc = "idle"
=============================================================================
