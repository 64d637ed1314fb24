-------------------------------- MODULE Uart --------------------------------
(***************************************************************************)
(* The 16550 UART and the 8259 interrupt controller, as kernel/char/serial.c *)
(* and i386/kernel/pic.c program them (external hardware).                 *)
(*                                                                         *)
(* The machine state k is one record; these fields belong to the hardware: *)
(*   ier   enabled interrupt sources, a subset of Source                   *)
(*   fifo  receive FIFO            tmo   receive timeout pending           *)
(*   oe    overrun error pending   rts   MCR bit                           *)
(*   thr   characters in the transmit FIFO; thri: THRE interrupt pending   *)
(*   over  a character was written to a full transmit FIFO                 *)
(*   wire  data characters accepted by the transmit FIFO (history)         *)
(*   told  the last XON/XOFF character sent to the peer (history)          *)
(*   cts   clear to send           dcts  CTS changed since MSR was read    *)
(*   irr   the PIC latched a rising edge of the interrupt line             *)
(***************************************************************************)
EXTENDS Naturals, Sequences

CONSTANTS FIFO_DEPTH,   \* depth of both FIFOs (16 in serial.c)
          RCVR_TRIG     \* receive trigger level (RCVR_TRIG_14 in serial.c)

ASSUME UartAssumption ==
    /\ FIFO_DEPTH \in Nat \ {0}
    /\ RCVR_TRIG \in 1 .. FIFO_DEPTH

NUL == 0
START_CHAR == 17    \* 0x11
STOP_CHAR == 19     \* 0x13

Source == {"RLS", "RDA", "THRE", "MS"}

Least(a, b) == IF a < b THEN a ELSE b

(* The source the IIR reports, in the UART's order of priority. *)
IIR(k) ==
    CASE "RLS" \in k.ier /\ k.oe                      -> "RLS"
      [] "RDA" \in k.ier /\ Len(k.fifo) >= RCVR_TRIG  -> "RDA"
      [] "RDA" \in k.ier /\ k.tmo                     -> "TIMEOUT"
      [] "THRE" \in k.ier /\ k.thri                   -> "THRE"
      [] "MS" \in k.ier /\ k.dcts                     -> "MS"
      [] OTHER                                        -> "NONE"

(* The interrupt line is high while any enabled source is pending. *)
IntLine(k) ==
    \/ "RLS" \in k.ier /\ k.oe
    \/ "RDA" \in k.ier /\ (Len(k.fifo) >= RCVR_TRIG \/ k.tmo)
    \/ "THRE" \in k.ier /\ k.thri
    \/ "MS" \in k.ier /\ k.dcts

(* The PIC is programmed edge triggered: it sees only a rising line. *)
Latch(k, n) == [n EXCEPT !.irr = @ \/ (IntLine(n) /\ ~IntLine(k))]

-----------------------------------------------------------------------------
(* Register accesses. *)
read_IIR(k) == IF IIR(k) = "THRE" THEN Latch(k, [k EXCEPT !.thri = FALSE]) ELSE k

read_LSR(k) == Latch(k, [k EXCEPT !.oe = FALSE])

read_MSR(k) == Latch(k, [k EXCEPT !.dcts = FALSE])

read_RX(k) == Latch(k, [k EXCEPT !.fifo = Tail(@), !.tmo = FALSE])

write_IER(k, ier) ==
    Latch(k, [k EXCEPT !.ier = ier,
                       !.thri = @ \/ ("THRE" \in ier \ k.ier /\ k.thr = 0)])

(* Write the characters s to the transmit FIFO; those that do not fit are lost. *)
write_TX(k, s) ==
    Latch(k, [k EXCEPT !.thr = Least(FIFO_DEPTH, @ + Len(s)),
                       !.over = @ \/ k.thr + Len(s) > FIFO_DEPTH,
                       !.thri = FALSE])

-----------------------------------------------------------------------------
(* What the hardware does by itself. *)
Receive(k, c) ==
    Latch(k, IF Len(k.fifo) < FIFO_DEPTH THEN [k EXCEPT !.fifo = Append(@, c)]
                                         ELSE [k EXCEPT !.oe = TRUE])

ReceiveTimeout(k) == Latch(k, [k EXCEPT !.tmo = TRUE])

Transmit(k) == Latch(k, [k EXCEPT !.thr = @ - 1, !.thri = @ \/ k.thr = 1])

ToggleCts(k) == Latch(k, [k EXCEPT !.cts = ~@, !.dcts = TRUE])
=============================================================================
