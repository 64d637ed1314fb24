------------------------------- MODULE Serial -------------------------------
(***************************************************************************)
(* kernel/char/serial.c: the serial TTY driver.  Every function of the     *)
(* driver is an operator from the machine state k to the state it leaves;  *)
(* each runs with interrupts off (cli_save, or inside the interrupt        *)
(* handler), so SerialTty.tla takes it as one step.  Fields of k:          *)
(*   com_open, com_tty   com->open, com->tty # NULL                        *)
(*   tx                  com->tx_ring (a sequence: see Deque.tla)          *)
(*   xchar               com->xchar                                        *)
(*   throttled, stopped, hw_stopped   the flags of struct tty              *)
(*   termios             the termios flags that are set                    *)
(*   acc                 characters put into tx_ring (history)             *)
(***************************************************************************)
EXTENDS Uart

CONSTANTS TX_SIZE,      \* sizeof(com->_txbuf)
          XMIT_MAX      \* characters sent per interrupt (FIFO_DEPTH in serial.c)

ASSUME SerialAssumption == TX_SIZE \in Nat \ {0} /\ XMIT_MAX \in Nat \ {0}

-----------------------------------------------------------------------------
tx_enable(k) == IF "THRE" \in k.ier THEN k ELSE write_IER(k, k.ier \cup {"THRE"})

tx_disable(k) == IF "THRE" \in k.ier THEN write_IER(k, k.ier \ {"THRE"}) ELSE k

(* Mutant: the transmitter interrupt is not re-enabled. *)
serial_flush_noarm(k) == k

serial_flush(k) ==
    IF k.tx # <<>> /\ ~k.stopped /\ ~k.hw_stopped THEN tx_enable(k) ELSE k

serial_write_room(k) == TX_SIZE - Len(k.tx)

(* The number of characters serial_write takes, its return value. *)
serial_write_count(k, buf) == Least(Len(buf), serial_write_room(k))

(* Mutant: ring_insert for ring_put. *)
serial_write_head(k, buf) ==
    LET s == SubSeq(buf, 1, serial_write_count(k, buf))
    IN  serial_flush([k EXCEPT !.tx = s \o @, !.acc = @ \o s])

serial_write(k, buf) ==
    LET s == SubSeq(buf, 1, serial_write_count(k, buf))
    IN  serial_flush([k EXCEPT !.tx = @ \o s, !.acc = @ \o s])

serial_unthrottle(k) ==
    LET x == IF "IXOFF" \in k.termios THEN tx_enable([k EXCEPT !.xchar = START_CHAR])
                                      ELSE k
    IN  IF "CRTSCTS" \in k.termios THEN [x EXCEPT !.rts = TRUE] ELSE x

serial_throttle(k) ==
    LET x == IF "IXOFF" \in k.termios THEN tx_enable([k EXCEPT !.xchar = STOP_CHAR])
                                      ELSE k
    IN  IF "CRTSCTS" \in k.termios THEN [x EXCEPT !.rts = FALSE] ELSE x

(* Mutant: an XON does not restart the transmitter. *)
serial_start_idle(k) == k

serial_start(k) == IF k.tx # <<>> THEN tx_enable(k) ELSE k

serial_stop(k) == tx_disable(k)

-----------------------------------------------------------------------------
(* Mutant: the receive interrupt is left off. *)
serial_open_norda(k) ==
    [k EXCEPT !.tx = <<>>, !.xchar = NUL, !.acc = <<>>, !.wire = <<>>,
              !.ier = {"RLS", "MS"}, !.fifo = <<>>, !.tmo = FALSE, !.oe = FALSE,
              !.thr = 0, !.thri = FALSE, !.rts = TRUE, !.dcts = FALSE,
              !.com_tty = TRUE, !.com_open = TRUE]

(* serial_open past its checks: reset the rings, program the UART, enable the *)
(* receive, line status and modem status interrupts.  set_fifo resets both    *)
(* FIFOs; the reads of RX, LSR, MSR and IIR leave nothing pending.            *)
serial_open(k) ==
    [k EXCEPT !.tx = <<>>, !.xchar = NUL, !.acc = <<>>, !.wire = <<>>,
              !.ier = {"RDA", "RLS", "MS"}, !.fifo = <<>>, !.tmo = FALSE, !.oe = FALSE,
              !.thr = 0, !.thri = FALSE, !.rts = TRUE, !.dcts = FALSE,
              !.com_tty = TRUE, !.com_open = TRUE]

(* serial_open when a register does not read back: interrupts off, not open. *)
(* A failure found only by the last check, of IER and MCR, is taken for an   *)
(* early one: a chip that answers nothing interrupts for nothing.            *)
serial_open_eio(k) ==
    [k EXCEPT !.tx = <<>>, !.xchar = NUL, !.acc = <<>>, !.wire = <<>>, !.ier = {}]

(* CTS/RTS flow control, and the reads that acknowledge a modem interrupt.  A   *)
(* rising CTS calls tx_disable and a falling CTS calls tx_enable, as in the code. *)
check_modem_status(k) ==
    LET m == read_MSR(k)
    IN  CASE "CRTSCTS" \notin k.termios -> m
          [] "CRTSCTS" \in k.termios /\ k.hw_stopped /\ k.cts ->
                tx_disable([m EXCEPT !.hw_stopped = FALSE])
          [] "CRTSCTS" \in k.termios /\ ~k.hw_stopped /\ ~k.cts ->
                tx_enable([m EXCEPT !.hw_stopped = TRUE])
          [] OTHER -> m

(* The high-priority XON/XOFF character goes out even when output is stopped. *)
send_xchar(k) ==
    IF k.xchar = NUL THEN k
    ELSE write_TX([k EXCEPT !.told = k.xchar, !.xchar = NUL], <<k.xchar>>)

(* Mutant: the stopped test is missing. *)
send_chars_blind(k) ==
    LET x == send_xchar(k)
        n == Least(XMIT_MAX, Len(x.tx))
        s == SubSeq(x.tx, 1, n)
        y == write_TX([x EXCEPT !.tx = SubSeq(@, n + 1, Len(@)), !.wire = @ \o s], s)
    IN  IF x.tx = <<>> THEN tx_disable(x)
        ELSE IF y.tx = <<>> THEN tx_disable(y) ELSE y

send_chars(k) ==
    LET x == send_xchar(k)
        n == Least(XMIT_MAX, Len(x.tx))
        s == SubSeq(x.tx, 1, n)
        y == write_TX([x EXCEPT !.tx = SubSeq(@, n + 1, Len(@)), !.wire = @ \o s], s)
    IN  IF x.tx = <<>> \/ x.stopped \/ x.hw_stopped THEN tx_disable(x)
        ELSE IF y.tx = <<>> THEN tx_disable(y) ELSE y
=============================================================================
