--------------------------------- MODULE Gdb ---------------------------------
(***************************************************************************)
(* The serial debugger stub (gdbstub.c), the kernel it stops, and the GDB  *)
(* host at the other end of a line that loses and garbles.                 *)
(*                                                                         *)
(* A character on the line is a record with the fields op, w and tf; a     *)
(* packet to the stub is the characters "$", the command, "#" and the      *)
(* checksum, a packet to the host is one record.  stub.pc is the call of   *)
(* gdb_getc the stub is waiting in; stub.then is where gdb_recv_ack        *)
(* returns to.  The kernel is one register (w), the trap flag and one word *)
(* of memory.                                                              *)
(***************************************************************************)
EXTENDS Naturals, Sequences

CONSTANTS Words,          \* values of the register and of the memory word
          MaxNoise,       \* characters and packets lost or garbled
          RaceCtrlC,      \* a breakpoint may be hit while a ^C is under way
          BadRequests,    \* the host sends malformed and oversized packets
          NoisyCommands   \* commands may be garbled

ASSUME GdbAssumption ==
    /\ Words \subseteq 0 .. 255 /\ Words # {} /\ MaxNoise \in Nat
    /\ {RaceCtrlC, BadRequests, NoisyCommands} \subseteq BOOLEAN

VARIABLES stub,     \* struct gdb_state and the locals of the calls
          ier,      \* the debug port interrupts on received data
          target,   \* the interrupted kernel: its registers and memory
          toStub, toHost,
          host, noise

vars == <<stub, ier, target, toStub, toHost, host, noise>>

Chr(op) == [op |-> op, w |-> <<>>, tf |-> FALSE]
NoChr == Chr("none")
CtrlC == Chr("^C")

(* A byte travels as two hexadecimal digits. *)
encode_hex(b) == <<b \div 16, b % 16>>

decode_hex(d) == 16 * d[1] + d[2]

Reads == {Chr(op) : op \in {"?", "g", "m", "m!", "unknown"}}
Resumes == {Chr(op) : op \in {"c", "s", "D"}}
Malformed == {Chr(op) : op \in {"malformed", "oversized"}}

(* The kernel may stop in the stub only when it is not in it already: the
   flag debugging of gdb_main. *)
Running == stub.pc = "run"

-------------------------------------------------------------------------------
(* The host, as the stub sees GDB: external.  It takes one command at a     *)
(* time, acknowledges every packet, asks again for one that came garbled,   *)
(* and sends a command again when no acknowledgement comes.                 *)

Packet(cmd) == <<Chr("$"), cmd, Chr("#"), Chr("sum")>>

(* What arrives of a command: itself or, on a noisy line, another one with
   the checksum of the first. *)
Arrivals(cmd) ==
    {Packet(cmd)} \cup
    (IF NoisyCommands /\ noise < MaxNoise
     THEN {<<Chr("$"), c, Chr("#"), Chr("badsum")>> : c \in (Reads \cup Resumes) \ {cmd}}
     ELSE {})

Transmit(before, cmd) ==
    \E p \in Arrivals(cmd) :
        /\ toStub' = toStub \o before \o p
        /\ noise' = IF p = Packet(cmd) THEN noise ELSE noise + 1

Commands ==
    Reads \cup Resumes \cup (IF BadRequests THEN Malformed ELSE {})
    \cup {[op |-> op, w |-> encode_hex(w), tf |-> FALSE] : op \in {"M", "M!"}, w \in Words}
    \cup {[op |-> "G", w |-> encode_hex(w), tf |-> r.tf] : w \in Words, r \in host.regs}

HostCommand ==
    /\ host.pc = "idle"
    /\ \E cmd \in Commands :
        /\ host' = [host EXCEPT !.pc = "sent", !.cmd = cmd]
        /\ Transmit(<<>>, cmd)
    /\ UNCHANGED <<stub, ier, target, toHost>>

(* "target remote", typed when an earlier detach is over: GDB starts with an
   acknowledgement nobody asked for. *)
HostAttach ==
    /\ host.pc = "detached"
    /\ toStub = <<>> /\ (stub.pc = "ack" => stub.then # "resume")
    /\ host' = [pc |-> "sent", cmd |-> Chr("?"), regs |-> {}, mem |-> {}]
    /\ Transmit(<<Chr("+")>>, Chr("?"))
    /\ UNCHANGED <<stub, ier, target, toHost>>

HostInterrupt ==
    /\ host.pc = "running" /\ host.cmd.op = "c"
    /\ RaceCtrlC \/ Running
    /\ host' = [host EXCEPT !.pc = "breaking"]
    /\ toStub' = Append(toStub, CtrlC)
    /\ UNCHANGED <<stub, ier, target, toHost, noise>>

(* What the host knows once the reply r to its command is there. *)
Learned(r) ==
    CASE r.op = "S" /\ host.cmd.op # "?" -> [host EXCEPT !.pc = "idle", !.regs = {}, !.mem = {}]
      [] r.op = "regs" -> [host EXCEPT !.pc = "idle", !.regs = {[w |-> decode_hex(r.w), tf |-> r.tf]}]
      [] r.op = "mem" -> [host EXCEPT !.pc = "idle", !.mem = {decode_hex(r.w)}]
      [] r.op = "OK" /\ host.cmd.op = "G" ->
            [host EXCEPT !.pc = "idle",
                         !.regs = {[w |-> decode_hex(host.cmd.w), tf |-> host.cmd.tf]}]
      [] r.op = "OK" /\ host.cmd.op = "M" ->
            [host EXCEPT !.pc = "idle", !.mem = {decode_hex(host.cmd.w)}]
      [] r.op = "OK" /\ host.cmd.op = "D" -> [host EXCEPT !.pc = "detached"]
      [] OTHER -> [host EXCEPT !.pc = "idle"]

HostAcked ==
    IF host.cmd.op \in {"c", "s"} THEN "running" ELSE "await"

HostReceive ==
    /\ toHost # <<>> /\ toHost' = Tail(toHost)
    /\ LET r == Head(toHost) IN
       CASE r.op = "+" ->
                /\ host' = IF host.pc = "sent" THEN [host EXCEPT !.pc = HostAcked] ELSE host
                /\ UNCHANGED <<toStub, noise>>
         [] r.op = "-" ->
                /\ IF host.pc = "sent" THEN Transmit(<<>>, host.cmd) ELSE UNCHANGED <<toStub, noise>>
                /\ UNCHANGED host
         [] host.pc = "sent" /\ r.op \notin {"+", "-"} ->    \* not what it waits for
                /\ toStub' = Append(toStub, Chr("+"))
                /\ UNCHANGED <<host, noise>>
         [] host.pc \in {"await", "running", "breaking"} /\ r.op = "garbled" ->
                /\ toStub' = Append(toStub, Chr("-"))
                /\ UNCHANGED <<host, noise>>
         [] host.pc \in {"await", "running", "breaking"} /\ r.op \notin {"+", "-", "garbled"} ->
                /\ toStub' = Append(toStub, Chr("+"))
                /\ host' = Learned(r)
                /\ UNCHANGED noise
         [] OTHER -> FALSE
    /\ UNCHANGED <<stub, ier, target>>

(* GDB's timeouts are longer than the stub's: they run out only when nothing
   is under way.  It waits for ever for a stop reply. *)
HostTimeout ==
    /\ toStub = <<>> /\ toHost = <<>> /\ stub.pending = NoChr
    /\ stub.pc \in {"run", "start", "ack"}
    /\ \/ host.pc = "sent" /\ Transmit(<<>>, host.cmd) /\ UNCHANGED host
       \/ /\ host.pc = "await" /\ host.cmd.op # "D"
          /\ toStub' = <<Chr("-")>> /\ UNCHANGED <<host, noise>>
       \/ /\ host.pc = "await" /\ host.cmd.op = "D"
          /\ host' = [host EXCEPT !.pc = "detached"] /\ UNCHANGED <<toStub, noise>>
    /\ UNCHANGED <<stub, ier, target, toHost>>

(* The line garbles a packet of the stub, or loses one that the host would
   wait for with a timeout, or the request to send it again, an acknowledgement
   of the stub or of the host, or a whole command.  The stub's acknowledgement of
   a command that resumes is not lost: GDB would send it a second time. *)
Noise ==
    /\ noise < MaxNoise /\ noise' = noise + 1
    /\ \/ /\ toHost # <<>> /\ Head(toHost).op \notin {"+", "-", "garbled"}
          /\ toHost' = <<Chr("garbled")>> \o Tail(toHost) /\ UNCHANGED toStub
       \/ /\ toHost # <<>> /\ Head(toHost).op # "S" /\ host.cmd \notin Resumes
          /\ toHost' = Tail(toHost) /\ UNCHANGED toStub
       \/ /\ toStub # <<>>
          /\ \/ Head(toStub).op = "+"
             \/ Head(toStub).op = "-" /\ host.pc = "await" /\ host.cmd \notin Resumes
          /\ toStub' = Tail(toStub) /\ UNCHANGED toHost
       \/ /\ toStub # <<>> /\ Head(toStub).op = "$" /\ Len(toStub) = 4
          /\ toStub' = <<>> /\ UNCHANGED toHost
    /\ UNCHANGED <<stub, ier, target, host>>

-------------------------------------------------------------------------------
(* Packets.                                                                 *)

(* gdb_init and gdb_capture. *)
gdb_init(pending, regs) ==
    [pc |-> "start", then |-> "loop", pending |-> pending, cmd |-> NoChr,
     regs |-> regs, tx |-> Chr("empty")]

(* gdb_getc: the character put back, or the next one on the line. *)
gdb_getc(c) ==
    \/ stub.pending # NoChr /\ c = stub.pending /\ UNCHANGED toStub
    \/ /\ stub.pending = NoChr /\ toStub # <<>>
       /\ c = Head(toStub) /\ toStub' = Tail(toStub)

Taken == [stub EXCEPT !.pending = NoChr]

gdb_putc(c) == toHost' = Append(toHost, c)

SendPacket_unsaved(s, r, then) == [s EXCEPT !.pc = "ack", !.then = then]

(* gdb_send_packet keeps the packet for a retransmission and goes to
   gdb_recv_ack; then is what its caller does next. *)
SendPacket(s, r, then) == [s EXCEPT !.tx = r, !.pc = "ack", !.then = then]

gdb_send_packet(s, r, then) == gdb_putc(r) /\ stub' = SendPacket(s, r, then)

gdb_handle_nack(s, then) == gdb_send_packet(s, s.tx, then)

-------------------------------------------------------------------------------
(* Resuming.  gdb_apply gives the shadow registers back to the kernel.      *)

gdb_apply_none(regs) == UNCHANGED target

gdb_apply(regs) == target' = [target EXCEPT !.regs = regs]

(* gdb_done. *)
Leave(s, regs) == stub' = [s EXCEPT !.pc = "run", !.regs = regs] /\ gdb_apply(regs)

gdb_step(s) ==
    /\ Leave(s, [s.regs EXCEPT !.tf = TRUE])
    /\ UNCHANGED ier

gdb_continue_deaf(s) ==
    /\ Leave(s, [s.regs EXCEPT !.tf = FALSE])
    /\ UNCHANGED ier

gdb_continue(s) ==
    /\ Leave(s, [s.regs EXCEPT !.tf = FALSE])
    /\ ier' = TRUE

(* What follows gdb_recv_ack: the loop of gdb_main, the wait for a packet
   start when the NACK was a stray one, gdb_continue for gdb_detach, or the
   end of gdb_main, after a ^C or an error, with the interrupts still off. *)
Return(s) ==
    CASE s.then = "resume" -> gdb_continue(s)
      [] s.then = "leave" -> Leave(s, s.regs) /\ UNCHANGED ier
      [] OTHER -> stub' = [s EXCEPT !.pc = "start"] /\ UNCHANGED <<ier, target>>

(* gdb_recv_ack: anything but an acknowledgement is put back. *)
gdb_recv_ack ==
    /\ stub.pc = "ack"
    /\ \E c \in {Chr(op) : op \in {"+", "-", "$", "^C"}} :
        /\ gdb_getc(c)
        /\ CASE c.op = "+" -> Return(Taken) /\ UNCHANGED toHost
             [] c.op = "-" -> gdb_handle_nack(Taken, stub.then) /\ UNCHANGED <<ier, target>>
             [] OTHER -> Return([stub EXCEPT !.pending = c]) /\ UNCHANGED toHost
    /\ UNCHANGED <<host, noise>>

(* The loop of gdb_getc runs out: a zero, and gdb_recv_ack returns it. *)
gdb_recv_ack_timeout ==
    /\ stub.pc = "ack" /\ stub.pending = NoChr /\ toStub = <<>>
    /\ Return(stub)
    /\ UNCHANGED <<toStub, toHost, host, noise>>

-------------------------------------------------------------------------------
(* Commands: the switch of gdb_main on a packet received.                   *)

gdb_read_regs(s) ==
    /\ gdb_send_packet(s, [op |-> "regs", w |-> encode_hex(s.regs.w), tf |-> s.regs.tf], "loop")
    /\ UNCHANGED target

gdb_write_regs(s) ==
    /\ gdb_send_packet([s EXCEPT !.regs = [w |-> decode_hex(s.cmd.w), tf |-> s.cmd.tf]],
                       Chr("OK"), "loop")
    /\ UNCHANGED target

(* virt_addr_valid refuses the addresses of m! and M!. *)
gdb_read_mem(s) ==
    /\ gdb_send_packet(s, IF s.cmd.op = "m"
                          THEN [op |-> "mem", w |-> encode_hex(target.mem), tf |-> FALSE]
                          ELSE Chr("E"), "loop")
    /\ UNCHANGED target

gdb_write_mem(s) ==
    IF s.cmd.op = "M"
    THEN /\ target' = [target EXCEPT !.mem = decode_hex(s.cmd.w)]
         /\ gdb_send_packet(s, Chr("OK"), "loop")
    ELSE gdb_send_packet(s, Chr("E"), "loop") /\ UNCHANGED target

(* A command the stub cannot read ends the loop: gdb_send_error_packet, and
   the kernel runs again. *)
Eof(s) == gdb_send_packet(s, Chr("E"), "leave") /\ UNCHANGED <<ier, target>>

Dispatch(s) ==
    CASE s.cmd.op = "?" -> gdb_send_packet(s, Chr("S"), "loop") /\ UNCHANGED <<ier, target>>
      [] s.cmd.op = "g" -> gdb_read_regs(s) /\ UNCHANGED ier
      [] s.cmd.op = "G" -> gdb_write_regs(s) /\ UNCHANGED ier
      [] s.cmd.op \in {"m", "m!"} -> gdb_read_mem(s) /\ UNCHANGED ier
      [] s.cmd.op \in {"M", "M!"} -> gdb_write_mem(s) /\ UNCHANGED ier
      [] s.cmd.op = "s" -> gdb_step(s) /\ UNCHANGED toHost
      [] s.cmd.op = "c" -> gdb_continue(s) /\ UNCHANGED toHost
      [] s.cmd.op = "D" -> gdb_send_packet(s, Chr("OK"), "resume") /\ UNCHANGED <<ier, target>>
      [] s.cmd.op = "malformed" -> Eof(s)
      [] OTHER -> gdb_send_packet(s, Chr("empty"), "loop") /\ UNCHANGED <<ier, target>>

-------------------------------------------------------------------------------
(* gdb_recv_packet, one action for each of its loops.                       *)

RecvStart ==
    /\ stub.pc = "start"
    /\ \E c \in {stub.pending} \cup {toStub[i] : i \in 1 .. Len(toStub)} :
        /\ gdb_getc(c)
        /\ CASE c.op = "$" -> stub' = [Taken EXCEPT !.pc = "body"] /\ UNCHANGED toHost
             [] c.op = "^C" -> gdb_send_packet(Taken, Chr("S"), "leave")
             [] c.op = "-" -> gdb_handle_nack(Taken, "start")
             [] OTHER -> stub' = Taken /\ UNCHANGED toHost     \* a stray ACK, anything else
    /\ UNCHANGED <<ier, target, host, noise>>

(* The body; one that does not fit ends the loop of gdb_main. *)
RecvBody ==
    /\ stub.pc = "body"
    /\ \E c \in {toStub[i] : i \in 1 .. Len(toStub)} :
        /\ gdb_getc(c)
        /\ CASE c.op = "#" -> stub' = [stub EXCEPT !.pc = "sum"] /\ UNCHANGED <<ier, target, toHost>>
             [] c.op = "oversized" -> Eof(stub)
             [] OTHER -> stub' = [stub EXCEPT !.cmd = c] /\ UNCHANGED <<ier, target, toHost>>
    /\ UNCHANGED <<host, noise>>

(* The checksum.  A wrong one is answered with a NACK and still returned as
   success, with the length of an earlier packet: the loop of gdb_main skips
   the packet if that was zero and otherwise obeys it. *)
RecvSum ==
    /\ stub.pc = "sum"
    /\ \E c \in {Chr("sum"), Chr("badsum")} :
        /\ gdb_getc(c)
        /\ gdb_putc(IF c.op = "sum" THEN Chr("+") ELSE Chr("-"))
        /\ \E pc \in IF c.op = "sum" THEN {"obey"} ELSE {"obey", "start"} :
            stub' = [stub EXCEPT !.pc = pc]
    /\ UNCHANGED <<ier, target, host, noise>>

Obey ==
    /\ stub.pc = "obey"
    /\ Dispatch(stub)
    /\ UNCHANGED <<toStub, host, noise>>

-------------------------------------------------------------------------------
(* Entering gdb_main.                                                       *)

(* The start of gdb_main: an exception and a ^C are reported to the host, the
   start of a packet is left for gdb_recv_packet, and any other character is
   ignored. *)
gdb_main(c, regs) ==
    CASE c \in {NoChr, CtrlC} ->
            gdb_send_packet(gdb_init(NoChr, regs), Chr("S"), "loop") /\ ier' = FALSE
      [] c.op = "$" -> stub' = gdb_init(c, regs) /\ ier' = FALSE /\ UNCHANGED toHost
      [] OTHER -> ier' = TRUE /\ UNCHANGED <<stub, toHost>>

(* The kernel executes an instruction.  With the trap flag, or at a
   breakpoint, handle_exception enters the stub. *)
Execute ==
    /\ Running
    /\ \E w \in Words, m \in Words, bp \in BOOLEAN :
        /\ target' = [regs |-> [target.regs EXCEPT !.w = w], mem |-> m]
        /\ IF target.regs.tf \/ bp
           THEN /\ RaceCtrlC \/ \A i \in 1 .. Len(toStub) : toStub[i] # CtrlC
                /\ gdb_main(NoChr, target'.regs)
           ELSE UNCHANGED <<stub, ier, toHost>>
    /\ UNCHANGED <<toStub, host, noise>>

(* com_interrupt on the debug port reads the character and enters the stub. *)
com_interrupt ==
    /\ Running /\ ier /\ toStub # <<>> /\ toStub' = Tail(toStub)
    /\ gdb_main(Head(toStub), target.regs)
    /\ UNCHANGED <<target, host, noise>>

-------------------------------------------------------------------------------

(* setup_debug_port has turned the interrupts of the port on. *)
Init ==
    /\ target \in [regs : {[w |-> w, tf |-> FALSE] : w \in Words}, mem : Words]
    /\ stub = [gdb_init(NoChr, target.regs) EXCEPT !.pc = "run"]
    /\ ier = TRUE /\ toStub = <<>> /\ toHost = <<>> /\ noise = 0
    /\ host = [pc |-> "detached", cmd |-> NoChr, regs |-> {}, mem |-> {}]

Stub == gdb_recv_ack \/ RecvStart \/ RecvBody \/ RecvSum \/ Obey

Next ==
    \/ HostCommand \/ HostAttach \/ HostInterrupt \/ HostReceive \/ HostTimeout \/ Noise
    \/ gdb_recv_ack \/ gdb_recv_ack_timeout
    \/ RecvStart \/ RecvBody \/ RecvSum \/ Obey
    \/ Execute \/ com_interrupt

(* The processor runs, the line delivers, an interrupt enabled is taken, and
   GDB reads what comes and has timeouts; nobody has to type a command. *)
Fairness ==
    /\ WF_vars(Stub) /\ WF_vars(gdb_recv_ack_timeout)
    /\ WF_vars(Execute) /\ WF_vars(com_interrupt)
    /\ WF_vars(HostReceive) /\ WF_vars(HostTimeout)

Spec == Init /\ [][Next]_vars /\ Fairness

-------------------------------------------------------------------------------

(* While GDB holds the kernel stopped it is stopped, and the registers and
   the memory GDB shows are the ones the kernel will resume with, whatever
   was retransmitted, timed out or came twice on the way. *)
HostKnows ==
    host.pc = "idle" =>
        /\ ~Running
        /\ host.regs \subseteq {stub.regs}
        /\ host.mem \subseteq {target.mem}

(* The kernel leaves the stub only on a command to, with the registers and
   the memory the host last saw or wrote, and traps after one instruction
   exactly when it was told to step. *)
ResumedAsTold ==
    [][~Running /\ Running' =>
        /\ host.cmd \in Resumes /\ host.pc # "idle"
        /\ target'.regs.tf = (host.cmd.op = "s")
        /\ \A r \in host.regs : target'.regs.w = r.w
        /\ host.mem \subseteq {target'.mem}]_vars

(* Every command is answered, a step comes back, and ^C stops a kernel that
   was told to continue. *)
HostServed ==
    /\ host.pc \in {"sent", "await", "breaking"} ~> host.pc \notin {"sent", "await", "breaking"}
    /\ (host.pc = "running" /\ host.cmd.op = "s") ~> host.pc = "idle"
===============================================================================
