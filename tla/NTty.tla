-------------------------------- MODULE NTty --------------------------------
(***************************************************************************)
(* kernel/char/tty_ldisc.c: the N_TTY line discipline over the serial      *)
(* driver.  The operators below are the parts of it that run without being *)
(* interrupted: all of n_tty_recv when the interrupt handler calls it, and *)
(* the single calls that n_tty_read and n_tty_write make one at a time     *)
(* with interrupts on (their loops are actions of SerialTty.tla).  Fields  *)
(* of the machine state k added here: rx, the input buffer.                *)
(***************************************************************************)
EXTENDS Serial

CONSTANTS TTY_BUFFER_SIZE,      \* capacity of rx_ring (1024)
          TTY_THROTTLE_THRESH   \* room below which the peer is throttled (128)

ASSUME NTtyAssumption ==
    /\ TTY_BUFFER_SIZE \in Nat
    /\ TTY_THROTTLE_THRESH \in 1 .. TTY_BUFFER_SIZE

BEL == 7
TAB == 9
NL == 10
CR == 13
CARET == 94         \* '^'

iscntrl(c) == c < 32 \/ c = 127

-----------------------------------------------------------------------------
n_tty_open(k) == [k EXCEPT !.rx = <<>>]

n_tty_recv_room(k) == TTY_BUFFER_SIZE - Len(k.rx)

write_char(k, c) == serial_write(k, <<c>>)

(* What output processing makes of a character. *)
opost_chars(k, c) ==
    CASE c = CR /\ {"OPOST", "OCRNL"} \subseteq k.termios -> <<NL>>
      [] c = NL /\ {"OPOST", "ONLCR"} \subseteq k.termios -> <<CR, NL>>
      [] OTHER                                            -> <<c>>

(* The room test of opost: -1 when the driver cannot take all of it. *)
opost_fits(k, c) == serial_write_room(k) >= Len(opost_chars(k, c))

opost(k, c) == IF opost_fits(k, c) THEN serial_write(k, opost_chars(k, c)) ELSE k

(* c ^ 0x40 of a control character *)
CaretForm(c) == IF c = 127 THEN 63 ELSE c + 64

echo(k, c) ==
    IF "ECHOCTL" \in k.termios /\ iscntrl(c) /\ c # TAB /\ c # NL
    THEN IF serial_write_room(k) < 2 THEN k
         ELSE serial_write(k, <<CARET, CaretForm(c)>>)
    ELSE opost(k, c)

-----------------------------------------------------------------------------
(* Mutant: the flag is not set. *)
throttle_tty_noflag(k) == serial_throttle(k)

(* unthrottle_tty is two steps of the reader: see SerialTty!ReadUnthrottle. *)
throttle_tty(k) ==
    IF k.throttled THEN k ELSE serial_throttle([k EXCEPT !.throttled = TRUE])

start_tty(k) == IF k.stopped THEN serial_start([k EXCEPT !.stopped = FALSE]) ELSE k

stop_tty(k) == IF k.stopped THEN k ELSE serial_stop([k EXCEPT !.stopped = TRUE])

(* CR and NL translation of input. *)
icrnl(k, c) ==
    CASE c = CR /\ "ICRNL" \in k.termios -> NL
      [] c = NL /\ "INLCR" \in k.termios -> CR
      [] OTHER                           -> c

(* With IGNCR set, "continue" skips the increment that ends the loop: the call *)
(* for a carriage return never returns.                                        *)
recv_never_returns(k, c) ==
    /\ c = CR
    /\ "IGNCR" \in k.termios

(* Mutant: ring_insert for ring_put. *)
recv_store_front(k, c) ==
    LET put == [k EXCEPT !.rx = IF Len(@) < TTY_BUFFER_SIZE THEN <<c>> \o @ ELSE @]
        fl  == serial_flush(put)
    IN  IF n_tty_recv_room(fl) < TTY_THROTTLE_THRESH THEN throttle_tty(fl) ELSE fl

(* Store one character, flush the echo, throttle the peer when room runs out. *)
recv_store(k, c) ==
    LET put == [k EXCEPT !.rx = IF Len(@) < TTY_BUFFER_SIZE THEN Append(@, c) ELSE @]
        fl  == serial_flush(put)
    IN  IF n_tty_recv_room(fl) < TTY_THROTTLE_THRESH THEN throttle_tty(fl) ELSE fl

(* n_tty_recv for one character, called from the interrupt handler. *)
n_tty_recv(k, c0) ==
    LET c == icrnl(k, c0)
    IN  CASE "IXON" \in k.termios /\ c0 = START_CHAR -> start_tty(k)
          [] "IXON" \in k.termios /\ c0 = STOP_CHAR  -> stop_tty(k)
          [] OTHER ->
                IF "ECHO" \notin k.termios THEN recv_store(k, c)
                ELSE IF n_tty_recv_room(k) <= 1 THEN write_char(k, BEL)
                ELSE recv_store(echo(k, c), c)
=============================================================================
