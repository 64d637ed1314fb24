------------------------------ MODULE GdbProofs ------------------------------
(***************************************************************************)
(* Proofs about the debugger stub: what the host shows is what the stopped *)
(* kernel has, and the kernel resumes as it was told, however often the    *)
(* line loses or garbles something.                                        *)
(***************************************************************************)
EXTENDS Gdb, SequenceTheorems, TLAPS

Byte == 0 .. 255
Digits == Seq(Nat)
Ops == {"none", "^C", "$", "#", "sum", "badsum", "+", "-", "garbled", "empty", "S", "OK", "E",
        "regs", "mem", "?", "g", "m", "m!", "unknown", "c", "s", "D", "G", "M", "M!"}
Char == [op : Ops, w : Digits, tf : BOOLEAN]
Regs == [w : Byte, tf : BOOLEAN]

(* What the host may ask for when its packets are well formed. *)
Given ==
    Reads \cup Resumes
    \cup {[op |-> op, w |-> encode_hex(w), tf |-> FALSE] : op \in {"M", "M!"}, w \in Words}
    \cup {[op |-> "G", w |-> encode_hex(w), tf |-> b] : w \in Words, b \in BOOLEAN}

Types ==
    /\ stub \in [pc : {"run", "start", "body", "sum", "obey", "ack"},
                 then : {"loop", "start", "resume", "leave"},
                 pending : Char, cmd : Char, regs : Regs, tx : Char]
    /\ host \in [pc : {"detached", "idle", "sent", "await", "running", "breaking"},
                 cmd : Char, regs : SUBSET Regs, mem : SUBSET Byte]
    /\ target \in [regs : Regs, mem : Byte]
    /\ toStub \in Seq(Char) /\ toHost \in Seq(Char)
    /\ stub.tx.op \notin {"+", "-"}
    /\ host.pc \in {"sent", "await", "running", "breaking"} => host.cmd \in Given

-------------------------------------------------------------------------------
(* The line to the stub.                                                    *)

Acks == {Chr("+"), Chr("-")}

(* s is mid with k acknowledgements before it and any number behind. *)
Around(s, k, mid) ==
    /\ k + Len(mid) <= Len(s)
    /\ \A j \in 1 .. Len(mid) : s[k + j] = mid[j]
    /\ \A i \in 1 .. Len(s) : i <= k \/ i > k + Len(mid) => s[i] \in Acks

OnlyAcks == Around(toStub, 0, <<>>)
OnLine(mid) == \E k \in 0 .. Len(toStub) : Around(toStub, k, mid)
Next3(cmd) == <<cmd, Chr("#"), Chr("sum")>>
Next2 == <<Chr("#"), Chr("sum")>>
Next1 == <<Chr("sum")>>

(* The line to the host: no acknowledgement; only characters of A; stale
   packets, the acknowledgement of the command at k, and then only A. *)
Quiet(s) == \A i \in 1 .. Len(s) : s[i].op \notin {"+", "-"}
All(s, A) == \A i \in 1 .. Len(s) : s[i] \in A
Marked(s, k, A) ==
    /\ s[k] = Chr("+")
    /\ \A i \in 1 .. Len(s) : (i < k => s[i].op \notin {"+", "-"}) /\ (i > k => s[i] \in A)

-------------------------------------------------------------------------------
(* The inductive invariant.                                                 *)

(* The stub is in its loop, and will stay there after an acknowledgement. *)
InLoop ==
    /\ stub.pc \in {"ack", "start"} /\ stub.pending = NoChr
    /\ stub.pc = "ack" => stub.then \in {"loop", "start"}

Knows == host.regs \subseteq {stub.regs} /\ host.mem \subseteq {target.mem}

(* The stub resumes as soon as its answer to a detach is acknowledged. *)
Leaving ==
    /\ stub.pc = "ack" /\ stub.pending = NoChr /\ stub.then = "resume"
    /\ host.cmd \in Resumes /\ host.cmd.op = "D" /\ Knows

(* What the host knows, but for what its command writes: the command may
   have been obeyed before. *)
WrittenRegs(cmd) == [w |-> decode_hex(cmd.w), tf |-> cmd.tf]
KnowsBut ==
    /\ host.regs \subseteq {stub.regs} \/ (host.cmd.op = "G" /\ stub.regs = WrittenRegs(host.cmd))
    /\ host.mem \subseteq {target.mem} \/ (host.cmd.op = "M" /\ target.mem = decode_hex(host.cmd.w))

(* Learned, field by field. *)
NewPc(r, cmd) == IF r.op = "OK" /\ cmd.op = "D" THEN "detached" ELSE "idle"
NewRegs(r, cmd, old) ==
    IF r.op = "S" /\ cmd.op # "?" THEN {}
    ELSE IF r.op = "regs" THEN {[w |-> decode_hex(r.w), tf |-> r.tf]}
    ELSE IF r.op = "OK" /\ cmd.op = "G" THEN {WrittenRegs(cmd)} ELSE old
NewMem(r, cmd, old) ==
    IF r.op = "S" /\ cmd.op # "?" THEN {}
    ELSE IF r.op = "mem" THEN {decode_hex(r.w)}
    ELSE IF r.op = "OK" /\ cmd.op = "M" THEN {decode_hex(cmd.w)} ELSE old

(* With the reply r the host will know what is so. *)
Answers(r) ==
    /\ r.op \notin {"+", "-"}
    /\ \/ r.op = "garbled"
       \/ NewPc(r, host.cmd) = "detached"
       \/ /\ InLoop
          /\ NewRegs(r, host.cmd, host.regs) \subseteq {stub.regs}
          /\ NewMem(r, host.cmd, host.mem) \subseteq {target.mem}

Right == {r \in Char : Answers(r)}

Idle ==
    host.pc = "idle" /\ InLoop /\ OnlyAcks /\ Quiet(toHost) /\ Knows

(* The kernel runs, and the host has just attached. *)
Fresh ==
    /\ stub.pc = "run" /\ stub.pending = NoChr
    /\ host.cmd.op = "?" /\ host.regs = {} /\ host.mem = {}

(* The command is on its way, or lost. *)
Reading ==
    \/ /\ InLoop \/ Fresh
       /\ OnlyAcks \/ OnLine(Packet(host.cmd))
    \/ /\ \/ stub.pc = "start" /\ stub.pending = Chr("$")
          \/ stub.pc = "body" /\ stub.pending = NoChr
       /\ Around(toStub, 0, Next3(host.cmd))
    \/ /\ stub.pc = "body" /\ stub.pending = NoChr /\ stub.cmd = host.cmd
       /\ Around(toStub, 0, Next2)
    \/ /\ stub.pc = "sum" /\ stub.pending = NoChr /\ stub.cmd = host.cmd
       /\ Around(toStub, 0, Next1)

Sent == host.pc = "sent" /\ Quiet(toHost) /\ KnowsBut /\ Reading

(* The stub has the command. *)
Obeying ==
    /\ stub.pc = "obey" /\ stub.pending = NoChr /\ stub.cmd = host.cmd
    /\ OnlyAcks /\ KnowsBut
    /\ \/ host.pc = "sent" /\ \E k \in 1 .. Len(toHost) : Marked(toHost, k, {})
       \/ host.pc = "sent" /\ Quiet(toHost) /\ host.cmd \notin Resumes
       \/ host.pc = HostAcked /\ toHost = <<>>

(* The stub has obeyed: it is in its loop again, or the kernel runs. *)
Obeyed ==
    \/ /\ InLoop /\ OnlyAcks /\ Answers(stub.tx)
       /\ host.cmd \notin Resumes => KnowsBut
    \/ Leaving /\ OnlyAcks /\ Answers(stub.tx)
    \/ /\ stub.pc = "run" /\ stub.pending = NoChr /\ host.cmd \in Resumes
       /\ IF host.pc = "breaking" THEN OnLine(<<CtrlC>>) ELSE OnlyAcks

Answered ==
    /\ Obeyed
    /\ \/ host.pc = "sent" /\ \E k \in 1 .. Len(toHost) : Marked(toHost, k, Right)
       \/ /\ host.pc = HostAcked \/ (host.pc = "breaking" /\ host.cmd.op = "c")
          /\ All(toHost, Right)

Detached ==
    /\ host.pc = "detached" /\ OnlyAcks /\ Quiet(toHost)
    /\ InLoop \/ Leaving \/ (stub.pc = "run" /\ stub.pending = NoChr)

Phase == Idle \/ Sent \/ Obeying \/ Answered \/ Detached

GInv == Types /\ Phase

(* The host breaks in only while the kernel runs to its end, and its packets
   are well formed and arrive whole or not at all. *)
Orderly == RaceCtrlC = FALSE /\ BadRequests = FALSE /\ NoisyCommands = FALSE

-------------------------------------------------------------------------------
(* Characters and bytes.                                                    *)

LEMMA HexRoundTrip ==
    ASSUME NEW b \in Byte
    PROVE  encode_hex(b) \in Digits /\ decode_hex(encode_hex(b)) = b
  <1>1. b \div 16 \in Nat /\ b % 16 \in Nat /\ 16 * (b \div 16) + (b % 16) = b
    BY DEF Byte
  <1>2. encode_hex(b) \in Digits
    BY <1>1 DEF encode_hex, Digits
  <1> QED
    BY <1>1, <1>2 DEF encode_hex, decode_hex

LEMMA ChrFields ==
    ASSUME NEW op \in Ops
    PROVE  /\ Chr(op) \in Char /\ Chr(op).op = op /\ Chr(op).w = <<>> /\ Chr(op).tf = FALSE
  <1>1. <<>> \in Digits
    BY DEF Digits
  <1> QED
    BY <1>1 DEF Chr, Char

LEMMA Chars ==
    /\ NoChr \in Char /\ NoChr.op = "none"
    /\ CtrlC \in Char /\ CtrlC.op = "^C" /\ CtrlC = Chr("^C")
    /\ \A op \in {"+", "-", "$", "#", "sum", "garbled", "empty", "S", "OK", "E", "?"} :
          Chr(op) \in Char /\ Chr(op).op = op
  BY ChrFields DEF NoChr, CtrlC, Ops

LEMMA AckChars ==
    \A c \in Acks : c \in Char /\ c.op \in {"+", "-"} /\ c # NoChr /\ c # CtrlC
  BY Chars DEF Acks

LEMMA ResumeOps == \A c \in Resumes : c \in Char /\ c.op \in {"c", "s", "D"}
  BY ChrFields DEF Resumes, Ops

LEMMA GivenFields ==
    ASSUME NEW cmd \in Given
    PROVE  /\ cmd \in Char
           /\ cmd.op \in {"?", "g", "m", "m!", "unknown", "c", "s", "D", "M", "M!", "G"}
           /\ cmd \in Resumes <=> cmd.op \in {"c", "s", "D"}
           /\ cmd.op \in {"M", "M!", "G"} => decode_hex(cmd.w) \in Byte
  <1>1. CASE cmd \in Reads
    <2>1. PICK op \in {"?", "g", "m", "m!", "unknown"} : cmd = Chr(op)
      BY <1>1 DEF Reads
    <2>2. cmd \in Char /\ cmd.op = op
      BY <2>1, ChrFields DEF Ops
    <2>3. cmd \notin Resumes
      BY <2>2, ResumeOps
    <2> QED
      BY <2>2, <2>3
  <1>2. CASE cmd \in Resumes
    <2>1. PICK op \in {"c", "s", "D"} : cmd = Chr(op)
      BY <1>2 DEF Resumes
    <2>2. cmd \in Char /\ cmd.op = op
      BY <2>1, ChrFields DEF Ops
    <2> QED
      BY <1>2, <2>2
  <1>3. CASE \E op \in {"M", "M!"}, w \in Words : cmd = [op |-> op, w |-> encode_hex(w), tf |-> FALSE]
    <2>1. PICK op \in {"M", "M!"}, w \in Words : cmd = [op |-> op, w |-> encode_hex(w), tf |-> FALSE]
      BY <1>3
    <2>2. encode_hex(w) \in Digits /\ decode_hex(encode_hex(w)) = w /\ w \in Byte
      BY HexRoundTrip, GdbAssumption DEF Byte
    <2>3. cmd \in Char /\ cmd.op = op /\ cmd.w = encode_hex(w)
      BY <2>1, <2>2 DEF Char, Ops
    <2>4. cmd \notin Resumes
      BY <2>3, ResumeOps
    <2> QED
      BY <2>2, <2>3, <2>4
  <1>4. CASE \E w \in Words, b \in BOOLEAN : cmd = [op |-> "G", w |-> encode_hex(w), tf |-> b]
    <2>1. PICK w \in Words, b \in BOOLEAN : cmd = [op |-> "G", w |-> encode_hex(w), tf |-> b]
      BY <1>4
    <2>2. encode_hex(w) \in Digits /\ decode_hex(encode_hex(w)) = w /\ w \in Byte
      BY HexRoundTrip, GdbAssumption DEF Byte
    <2>3. cmd \in Char /\ cmd.op = "G" /\ cmd.w = encode_hex(w)
      BY <2>1, <2>2 DEF Char, Ops
    <2>4. cmd \notin Resumes
      BY <2>3, ResumeOps
    <2> QED
      BY <2>2, <2>3, <2>4
  <1> QED
    BY <1>1, <1>2, <1>3, <1>4 DEF Given

-------------------------------------------------------------------------------
(* Queues.                                                                  *)

LEMMA Grow ==
    ASSUME NEW s \in Seq(Char), NEW c \in Char
    PROVE  /\ Append(s, c) \in Seq(Char) /\ Len(s) \in Nat /\ Len(Append(s, c)) = Len(s) + 1
           /\ \A i \in 1 .. Len(s) : Append(s, c)[i] = s[i]
           /\ Append(s, c)[Len(s) + 1] = c
  BY AppendProperties, LenProperties

LEMMA Shrink ==
    ASSUME NEW s \in Seq(Char), s # <<>>
    PROVE  /\ Tail(s) \in Seq(Char) /\ Head(s) \in Char /\ Head(s) = s[1]
           /\ Len(s) \in Nat \ {0} /\ Len(Tail(s)) = Len(s) - 1
           /\ \A i \in 1 .. Len(s) - 1 : Tail(s)[i] = s[i + 1]
  BY HeadTailProperties, LenProperties, EmptySeq

LEMMA Replace ==
    ASSUME NEW s \in Seq(Char), s # <<>>, NEW c \in Char
    PROVE  /\ <<c>> \o Tail(s) \in Seq(Char) /\ Len(<<c>> \o Tail(s)) = Len(s)
           /\ (<<c>> \o Tail(s))[1] = c
           /\ \A i \in 2 .. Len(s) : (<<c>> \o Tail(s))[i] = s[i]
  <1>1. <<c>> \in Seq(Char) /\ Len(<<c>>) = 1 /\ <<c>>[1] = c
    OBVIOUS
  <1> PICK t \in Seq(Char) : t = Tail(s)
    BY Shrink
  <1> PICK u \in Seq(Char) : u = <<c>>
    BY <1>1
  <1>2. /\ u \o t \in Seq(Char) /\ Len(u \o t) = Len(u) + Len(t)
        /\ \A i \in 1 .. Len(u) + Len(t) :
              (u \o t)[i] = IF i <= Len(u) THEN u[i] ELSE t[i - Len(u)]
    BY ConcatProperties, LenProperties
  <1>3. Len(u) = 1 /\ u[1] = c /\ Len(t) = Len(s) - 1 /\ Len(s) \in Nat \ {0}
    BY <1>1, Shrink
  <1>4. \A i \in 2 .. Len(s) : (u \o t)[i] = t[i - 1]
    BY <1>2, <1>3
  <1>5. \A i \in 2 .. Len(s) : i - 1 \in 1 .. Len(s) - 1 /\ t[i - 1] = s[i]
    BY <1>3, Shrink
  <1>6. (u \o t)[1] = c /\ Len(u \o t) = Len(s)
    BY <1>2, <1>3
  <1> QED
    BY <1>2, <1>4, <1>5, <1>6

LEMMA AroundGrow ==
    ASSUME NEW s \in Seq(Char), NEW k \in Nat, NEW mid \in Seq(Char), Around(s, k, mid),
           NEW c \in Acks
    PROVE  Around(Append(s, c), k, mid) /\ Len(s) < Len(Append(s, c))
  <1>1. c \in Char /\ Len(mid) \in Nat /\ Len(s) \in Nat
    BY AckChars, LenProperties
  <1> PICK t : t = Append(s, c)
    OBVIOUS
  <1>2. /\ Len(t) = Len(s) + 1 /\ t[Len(s) + 1] = c
        /\ \A i \in 1 .. Len(s) : t[i] = s[i]
    BY <1>1, Grow
  <1>3. k + Len(mid) <= Len(t)
    BY <1>1, <1>2 DEF Around
  <1>4. \A j \in 1 .. Len(mid) : t[k + j] = mid[j]
    <2>1. \A j \in 1 .. Len(mid) : k + j \in 1 .. Len(s)
      BY <1>1 DEF Around
    <2> QED
      BY <1>2, <2>1 DEF Around
  <1>5. \A i \in 1 .. Len(t) : i <= k \/ i > k + Len(mid) => t[i] \in Acks
    <2>1. \A i \in 1 .. Len(t) : i \in 1 .. Len(s) \/ i = Len(s) + 1
      BY <1>1, <1>2
    <2> QED
      BY <1>2, <2>1 DEF Around
  <1> QED
    BY <1>1, <1>2, <1>3, <1>4, <1>5 DEF Around

(* An acknowledgement in front goes ... *)
LEMMA AroundSkip ==
    ASSUME NEW s \in Seq(Char), NEW k \in Nat \ {0}, NEW mid \in Seq(Char), Around(s, k, mid)
    PROVE  s # <<>> /\ Head(s) \in Acks /\ Around(Tail(s), k - 1, mid) /\ k - 1 \in 0 .. Len(Tail(s))
  <1>1. Len(mid) \in Nat /\ Len(s) \in Nat
    BY LenProperties
  <1>2. s # <<>>
    BY <1>1 DEF Around
  <1> PICK t : t = Tail(s)
    OBVIOUS
  <1>3. /\ Len(t) = Len(s) - 1 /\ Head(s) = s[1]
        /\ \A i \in 1 .. Len(s) - 1 : t[i] = s[i + 1]
    BY <1>2, Shrink
  <1>4. k - 1 + Len(mid) <= Len(t) /\ k - 1 \in 0 .. Len(t)
    BY <1>1, <1>3 DEF Around
  <1>5. \A j \in 1 .. Len(mid) : t[(k - 1) + j] = mid[j]
    <2>1. \A j \in 1 .. Len(mid) : (k - 1) + j \in 1 .. Len(s) - 1 /\ ((k - 1) + j) + 1 = k + j
      BY <1>1 DEF Around
    <2> QED
      BY <1>3, <2>1 DEF Around
  <1>6. \A i \in 1 .. Len(t) : i <= k - 1 \/ i > (k - 1) + Len(mid) => t[i] \in Acks
    <2>1. \A i \in 1 .. Len(t) : i + 1 \in 1 .. Len(s) /\ t[i] = s[i + 1]
      BY <1>1, <1>3
    <2>2. \A i \in 1 .. Len(s) : i <= k \/ i > k + Len(mid) => s[i] \in Acks
      BY DEF Around
    <2> QED
      BY <1>1, <1>3, <2>1, <2>2
  <1>7. Head(s) \in Acks
    BY <1>1, <1>2, <1>3 DEF Around
  <1> QED
    BY <1>2, <1>4, <1>5, <1>6, <1>7 DEF Around

(* ... and so does the first character of what is in the middle. *)
LEMMA AroundTake ==
    ASSUME NEW s \in Seq(Char), NEW mid \in Seq(Char), mid # <<>>, Around(s, 0, mid)
    PROVE  s # <<>> /\ Head(s) = Head(mid) /\ Around(Tail(s), 0, Tail(mid))
  <1>1. Len(mid) \in Nat \ {0} /\ Len(s) \in Nat
    BY Shrink, LenProperties
  <1>2. s # <<>>
    BY <1>1 DEF Around
  <1> PICK t : t = Tail(s)
    OBVIOUS
  <1> PICK m : m = Tail(mid)
    OBVIOUS
  <1>3. /\ Len(t) = Len(s) - 1 /\ Head(s) = s[1]
        /\ \A i \in 1 .. Len(s) - 1 : t[i] = s[i + 1]
    BY <1>2, Shrink
  <1>4. /\ Len(m) = Len(mid) - 1 /\ Head(mid) = mid[1]
        /\ \A i \in 1 .. Len(mid) - 1 : m[i] = mid[i + 1]
    BY Shrink
  <1>a. /\ Len(mid) <= Len(s)
        /\ \A j \in 1 .. Len(mid) : s[j] = mid[j]
        /\ \A i \in 1 .. Len(s) : i > Len(mid) => s[i] \in Acks
    BY <1>1 DEF Around
  <1>5. 0 + Len(m) <= Len(t)
    BY <1>1, <1>3, <1>4, <1>a
  <1>6. \A j \in 1 .. Len(m) : t[0 + j] = m[j]
    <2>1. \A j \in 1 .. Len(m) : /\ j \in 1 .. Len(s) - 1 /\ j \in 1 .. Len(mid) - 1
                                 /\ j + 1 \in 1 .. Len(mid) /\ 0 + j = j
      BY <1>1, <1>4, <1>a
    <2> QED
      BY <1>3, <1>4, <1>a, <2>1
  <1>7. \A i \in 1 .. Len(t) : i <= 0 \/ i > 0 + Len(m) => t[i] \in Acks
    <2>1. \A i \in 1 .. Len(t) : i + 1 \in 1 .. Len(s) /\ t[i] = s[i + 1]
      BY <1>1, <1>3
    <2> QED
      BY <1>1, <1>3, <1>4, <1>a, <2>1
  <1>8. Head(s) = Head(mid)
    BY <1>1, <1>3, <1>4, <1>a
  <1> QED
    BY <1>2, <1>5, <1>6, <1>7, <1>8 DEF Around

LEMMA AcksOnly ==
    ASSUME NEW s \in Seq(Char)
    PROVE  Around(s, 0, <<>>) <=> \A i \in 1 .. Len(s) : s[i] \in Acks
  <1>1. Len(<<>>) = 0 /\ Len(s) \in Nat
    BY LenProperties
  <1> QED
    BY <1>1 DEF Around

LEMMA AcksTake ==
    ASSUME NEW s \in Seq(Char), Around(s, 0, <<>>), s # <<>>
    PROVE  Head(s) \in Acks /\ Tail(s) \in Seq(Char) /\ Around(Tail(s), 0, <<>>)
  <1> PICK t \in Seq(Char) : t = Tail(s)
    BY Shrink
  <1>1. /\ Len(t) = Len(s) - 1 /\ Head(s) = s[1] /\ Len(s) \in Nat \ {0}
        /\ \A i \in 1 .. Len(s) - 1 : t[i] = s[i + 1]
    BY Shrink
  <1>2. \A i \in 1 .. Len(s) : s[i] \in Acks
    BY AcksOnly
  <1>3. \A i \in 1 .. Len(t) : t[i] \in Acks
    BY <1>1, <1>2
  <1>4. Around(t, 0, <<>>)
    BY <1>3, AcksOnly
  <1> QED
    BY <1>1, <1>2, <1>4

LEMMA AcksFew ==
    /\ <<>> \in Seq(Char) /\ Around(<<>>, 0, <<>>)
    /\ \A c \in Acks : <<c>> \in Seq(Char) /\ Around(<<c>>, 0, <<>>)
  <1>1. <<>> \in Seq(Char) /\ Around(<<>>, 0, <<>>)
    <2>1. \A i \in 1 .. Len(<<>>) : <<>>[i] \in Acks
      OBVIOUS
    <2>2. <<>> \in Seq(Char)
      OBVIOUS
    <2> QED
      BY <2>1, <2>2, AcksOnly, Zenon
  <1>2. ASSUME NEW c \in Acks PROVE <<c>> \in Seq(Char) /\ Around(<<c>>, 0, <<>>)
    <2>1. c \in Char
      BY AckChars
    <2>a. <<c>> \in Seq(Char) /\ Len(<<c>>) = 1 /\ <<c>>[1] = c
      BY <2>1
    <2>2. PICK s \in Seq(Char) : s = <<c>> /\ Len(s) = 1 /\ s[1] = c
      BY <2>a, Zenon
    <2>3. \A i \in 1 .. Len(s) : s[i] \in Acks
      BY <2>2
    <2>4. Around(s, 0, <<>>)
      BY <2>3, AcksOnly
    <2> QED
      BY <2>2, <2>4
  <1> QED
    BY <1>1, <1>2

(* The host adds a packet, or a ^C. *)
LEMMA AcksJoin ==
    ASSUME NEW s \in Seq(Char), Around(s, 0, <<>>), NEW mid \in Seq(Char)
    PROVE  /\ s \o mid \in Seq(Char) /\ Len(s) \in 0 .. Len(s \o mid)
           /\ Around(s \o mid, Len(s), mid)
  <1> PICK t : t = s \o mid
    OBVIOUS
  <1>1. /\ t \in Seq(Char) /\ Len(t) = Len(s) + Len(mid) /\ Len(s) \in Nat /\ Len(mid) \in Nat
        /\ \A i \in 1 .. Len(s) + Len(mid) : t[i] = IF i <= Len(s) THEN s[i] ELSE mid[i - Len(s)]
    BY ConcatProperties, LenProperties
  <1>2. \A i \in 1 .. Len(s) : s[i] \in Acks
    BY AcksOnly
  <1>3. \A j \in 1 .. Len(mid) : t[Len(s) + j] = mid[j]
    BY <1>1
  <1>4. \A i \in 1 .. Len(t) : i <= Len(s) \/ i > Len(s) + Len(mid) => t[i] \in Acks
    BY <1>1, <1>2
  <1> QED
    BY <1>1, <1>3, <1>4 DEF Around

LEMMA Packets ==
    ASSUME NEW c \in Char
    PROVE  /\ Packet(c) \in Seq(Char) /\ Packet(c) # <<>> /\ Len(Packet(c)) = 4
           /\ Head(Packet(c)) = Chr("$") /\ Tail(Packet(c)) = Next3(c)
           /\ Next3(c) \in Seq(Char) /\ Next3(c) # <<>>
           /\ Head(Next3(c)) = c /\ Tail(Next3(c)) = Next2
           /\ Next2 \in Seq(Char) /\ Next2 # <<>> /\ Head(Next2) = Chr("#") /\ Tail(Next2) = Next1
           /\ Next1 \in Seq(Char) /\ Next1 # <<>> /\ Head(Next1) = Chr("sum") /\ Tail(Next1) = <<>>
           /\ <<c>> \in Seq(Char) /\ <<c>> # <<>> /\ Head(<<c>>) = c /\ Tail(<<c>>) = <<>>
  <1>1. PICK a \in Char, h \in Char, z \in Char : a = Chr("$") /\ h = Chr("#") /\ z = Chr("sum")
    BY Chars
  <1>2. /\ <<a, c, h, z>> \in Seq(Char) /\ <<a, c, h, z>> # <<>> /\ Len(<<a, c, h, z>>) = 4
        /\ Head(<<a, c, h, z>>) = a /\ Tail(<<a, c, h, z>>) = <<c, h, z>>
    OBVIOUS
  <1>3. <<c, h, z>> \in Seq(Char) /\ <<c, h, z>> # <<>> /\ Head(<<c, h, z>>) = c /\ Tail(<<c, h, z>>) = <<h, z>>
    OBVIOUS
  <1>4. <<h, z>> \in Seq(Char) /\ <<h, z>> # <<>> /\ Head(<<h, z>>) = h /\ Tail(<<h, z>>) = <<z>>
    OBVIOUS
  <1>5. <<z>> \in Seq(Char) /\ <<z>> # <<>> /\ Head(<<z>>) = z /\ Tail(<<z>>) = <<>>
    OBVIOUS
  <1>6. <<c>> \in Seq(Char) /\ <<c>> # <<>> /\ Head(<<c>>) = c /\ Tail(<<c>>) = <<>>
    OBVIOUS
  <1> QED
    BY <1>1, <1>2, <1>3, <1>4, <1>5, <1>6, Zenon DEF Packet, Next3, Next2, Next1

(* The line to the host. *)
LEMMA QuietLine ==
    ASSUME NEW s \in Seq(Char), Quiet(s)
    PROVE  /\ \A c \in Char : c.op \notin {"+", "-"} => Quiet(Append(s, c))
           /\ s # <<>> => Head(s).op \notin {"+", "-"} /\ Quiet(Tail(s))
           /\ \A c \in Char : s # <<>> /\ c.op \notin {"+", "-"} => Quiet(<<c>> \o Tail(s))
           /\ \A A : Marked(Append(s, Chr("+")), Len(s) + 1, A)
  <1>1. ASSUME NEW c \in Char, c.op \notin {"+", "-"} PROVE Quiet(Append(s, c))
    BY <1>1, Grow DEF Quiet
  <1>2. ASSUME s # <<>> PROVE Head(s).op \notin {"+", "-"} /\ Quiet(Tail(s))
    <2> PICK t : t = Tail(s)
      OBVIOUS
    <2>1. /\ Head(s) = s[1] /\ Len(s) \in Nat \ {0} /\ Len(t) = Len(s) - 1
          /\ \A i \in 1 .. Len(s) - 1 : t[i] = s[i + 1]
      BY <1>2, Shrink
    <2>2. \A i \in 1 .. Len(t) : i + 1 \in 1 .. Len(s) /\ t[i] = s[i + 1]
      BY <2>1
    <2> QED
      BY <2>1, <2>2 DEF Quiet
  <1>3. ASSUME NEW c \in Char, c.op \notin {"+", "-"}, s # <<>> PROVE Quiet(<<c>> \o Tail(s))
    <2> PICK t : t = <<c>> \o Tail(s)
      OBVIOUS
    <2>1. Len(t) = Len(s) /\ t[1] = c /\ \A i \in 2 .. Len(s) : t[i] = s[i]
      BY <1>3, Replace
    <2>2. \A i \in 1 .. Len(t) : i = 1 \/ (i \in 2 .. Len(s) /\ i \in 1 .. Len(s))
      BY <2>1, LenProperties
    <2> QED
      BY <1>3, <2>1, <2>2 DEF Quiet
  <1>4. ASSUME NEW A PROVE Marked(Append(s, Chr("+")), Len(s) + 1, A)
    <2>1. PICK c \in Char : c = Chr("+")
      BY Chars
    <2> PICK t : t = Append(s, c)
      OBVIOUS
    <2>2. /\ Len(t) = Len(s) + 1 /\ t[Len(s) + 1] = c /\ Len(s) \in Nat
          /\ \A i \in 1 .. Len(s) : t[i] = s[i]
      BY Grow
    <2>3. \A i \in 1 .. Len(t) : /\ i < Len(s) + 1 => i \in 1 .. Len(s) /\ t[i] = s[i]
                                 /\ ~(i > Len(s) + 1)
      BY <2>2
    <2>4. Marked(t, Len(s) + 1, A)
      BY <2>1, <2>2, <2>3 DEF Marked, Quiet
    <2> QED
      BY <2>1, <2>4
  <1> QED
    BY <1>1, <1>2, <1>3, <1>4

LEMMA AllLine ==
    ASSUME NEW s \in Seq(Char), NEW A, NEW B, All(s, A), A \subseteq B
    PROVE  /\ All(s, B)
           /\ \A c \in Char : c \in B => All(Append(s, c), B)
           /\ s # <<>> => Head(s) \in A /\ All(Tail(s), B)
           /\ \A c \in Char : s # <<>> /\ c \in B => All(<<c>> \o Tail(s), B)
  <1>0. All(s, B)
    BY DEF All
  <1>1. ASSUME NEW c \in Char, c \in B PROVE All(Append(s, c), B)
    <2> PICK t : t = Append(s, c)
      OBVIOUS
    <2>1. /\ Len(t) = Len(s) + 1 /\ t[Len(s) + 1] = c /\ Len(s) \in Nat
          /\ \A i \in 1 .. Len(s) : t[i] = s[i]
      BY Grow
    <2>2. \A i \in 1 .. Len(t) : i = Len(s) + 1 \/ i \in 1 .. Len(s)
      BY <2>1
    <2> QED
      BY <1>0, <1>1, <2>1, <2>2 DEF All
  <1>2. ASSUME s # <<>> PROVE Head(s) \in A /\ All(Tail(s), B)
    <2> PICK t : t = Tail(s)
      OBVIOUS
    <2>1. /\ Head(s) = s[1] /\ Len(s) \in Nat \ {0} /\ Len(t) = Len(s) - 1
          /\ \A i \in 1 .. Len(s) - 1 : t[i] = s[i + 1]
      BY <1>2, Shrink
    <2>2. \A i \in 1 .. Len(t) : i + 1 \in 1 .. Len(s) /\ t[i] = s[i + 1]
      BY <2>1
    <2> QED
      BY <1>0, <2>1, <2>2 DEF All
  <1>3. ASSUME NEW c \in Char, c \in B, s # <<>> PROVE All(<<c>> \o Tail(s), B)
    <2> PICK t : t = <<c>> \o Tail(s)
      OBVIOUS
    <2>1. Len(t) = Len(s) /\ t[1] = c /\ \A i \in 2 .. Len(s) : t[i] = s[i]
      BY <1>3, Replace
    <2>2. \A i \in 1 .. Len(t) : i = 1 \/ (i \in 2 .. Len(s) /\ i \in 1 .. Len(s))
      BY <2>1, LenProperties
    <2> QED
      BY <1>0, <1>3, <2>1, <2>2 DEF All
  <1> QED
    BY <1>0, <1>1, <1>2, <1>3

LEMMA MarkedLine ==
    ASSUME NEW s \in Seq(Char), NEW k \in 1 .. Len(s), NEW A, NEW B, Marked(s, k, A), A \subseteq B
    PROVE  /\ Marked(s, k, B)
           /\ \A c \in Char : c \in B => k \in 1 .. Len(Append(s, c)) /\ Marked(Append(s, c), k, B)
           /\ s # <<>> /\ Len(s) \in Nat \ {0}
           /\ Head(s).op \in {"+", "-"} => k = 1
           /\ k = 1 => Head(s) = Chr("+") /\ All(Tail(s), A)
           /\ k # 1 => k - 1 \in 1 .. Len(Tail(s)) /\ Marked(Tail(s), k - 1, B)
           /\ \A c \in Char : k # 1 /\ c.op \notin {"+", "-"} =>
                k \in 1 .. Len(<<c>> \o Tail(s)) /\ Marked(<<c>> \o Tail(s), k, B)
  <1>0. /\ Len(s) \in Nat /\ s # <<>> /\ s[k] = Chr("+")
        /\ \A i \in 1 .. Len(s) : (i < k => s[i].op \notin {"+", "-"}) /\ (i > k => s[i] \in A /\ s[i] \in B)
    BY LenProperties, EmptySeq DEF Marked
  <1>1. ASSUME NEW c \in Char, c \in B PROVE k \in 1 .. Len(Append(s, c)) /\ Marked(Append(s, c), k, B)
    <2> PICK t : t = Append(s, c)
      OBVIOUS
    <2>1. /\ Len(t) = Len(s) + 1 /\ t[Len(s) + 1] = c
          /\ \A i \in 1 .. Len(s) : t[i] = s[i]
      BY Grow
    <2>2. \A i \in 1 .. Len(t) : (i = Len(s) + 1 /\ ~(i < k)) \/ (i \in 1 .. Len(s) /\ t[i] = s[i])
      BY <1>0, <2>1
    <2>3. k \in 1 .. Len(t) /\ t[k] = s[k]
      BY <1>0, <2>1
    <2> QED
      BY <1>0, <1>1, <2>1, <2>2, <2>3 DEF Marked
  <1>2. PICK t \in Seq(Char) :
           /\ t = Tail(s) /\ Head(s) = s[1] /\ Len(t) = Len(s) - 1
           /\ \A i \in 1 .. Len(s) - 1 : t[i] = s[i + 1]
    BY <1>0, Shrink
  <1>3. Head(s).op \in {"+", "-"} => k = 1
    BY <1>0, <1>2
  <1>4. ASSUME k = 1 PROVE Head(s) = Chr("+") /\ All(t, A)
    <2>1. \A i \in 1 .. Len(t) : i + 1 \in 1 .. Len(s) /\ i + 1 > k /\ t[i] = s[i + 1]
      BY <1>0, <1>2, <1>4
    <2> QED
      BY <1>0, <1>2, <1>4, <2>1 DEF All
  <1>5. ASSUME k # 1 PROVE k - 1 \in 1 .. Len(t) /\ Marked(t, k - 1, B)
    <2>1. k - 1 \in 1 .. Len(t) /\ t[k - 1] = s[k]
      BY <1>0, <1>2, <1>5
    <2>2. \A i \in 1 .. Len(t) : /\ i + 1 \in 1 .. Len(s) /\ t[i] = s[i + 1]
                                 /\ (i < k - 1 => i + 1 < k) /\ (i > k - 1 => i + 1 > k)
      BY <1>0, <1>2
    <2> QED
      BY <1>0, <2>1, <2>2 DEF Marked
  <1>6. ASSUME NEW c \in Char, k # 1, c.op \notin {"+", "-"}
        PROVE  k \in 1 .. Len(<<c>> \o Tail(s)) /\ Marked(<<c>> \o Tail(s), k, B)
    <2> PICK u : u = <<c>> \o Tail(s)
      OBVIOUS
    <2>1. Len(u) = Len(s) /\ u[1] = c /\ \A i \in 2 .. Len(s) : u[i] = s[i]
      BY <1>0, Replace
    <2>2. \A i \in 1 .. Len(u) : (i = 1 /\ ~(i > k)) \/ (i \in 1 .. Len(s) /\ u[i] = s[i])
      BY <1>0, <2>1
    <2>3. k \in 1 .. Len(u) /\ u[k] = s[k]
      BY <1>0, <1>6, <2>1
    <2> QED
      BY <1>0, <1>6, <2>1, <2>2, <2>3 DEF Marked
  <1>7. Marked(s, k, B)
    BY <1>0 DEF Marked
  <1> QED
    BY <1>0, <1>1, <1>2, <1>3, <1>4, <1>5, <1>6, <1>7

-------------------------------------------------------------------------------
(* Replies.                                                                 *)

LEMMA RightKept ==
    ASSUME host'.cmd = host.cmd, host'.regs = host.regs, host'.mem = host.mem,
           InLoop => InLoop' /\ stub'.regs = stub.regs /\ target'.mem = target.mem
    PROVE  Right \subseteq Right'
  BY DEF Right, Answers

LEMMA RightPlain == \A r \in Right : r \in Char /\ r.op \notin {"+", "-"}
  BY DEF Right, Answers

LEMMA GarbledRight == Chr("garbled") \in Right /\ Chr("garbled") \in Char
  BY Chars DEF Right, Answers

LEMMA LearnedFields ==
    ASSUME Types, NEW r \in Char
    PROVE  Learned(r) = [pc |-> NewPc(r, host.cmd), cmd |-> host.cmd,
                         regs |-> NewRegs(r, host.cmd, host.regs),
                         mem |-> NewMem(r, host.cmd, host.mem)]
  <1> PICK cmd : cmd = host.cmd
    OBVIOUS
  <1> PICK regs : regs = host.regs
    OBVIOUS
  <1> PICK mem : mem = host.mem
    OBVIOUS
  <1> PICK pc : pc = host.pc
    OBVIOUS
  <1>1. host = [pc |-> pc, cmd |-> cmd, regs |-> regs, mem |-> mem]
    BY DEF Types
  <1>2. CASE r.op = "S" /\ cmd.op # "?"
    BY <1>1, <1>2 DEF Learned, NewPc, NewRegs, NewMem
  <1>3. CASE r.op = "regs"
    BY <1>1, <1>3 DEF Learned, NewPc, NewRegs, NewMem
  <1>4. CASE r.op = "mem"
    BY <1>1, <1>4 DEF Learned, NewPc, NewRegs, NewMem
  <1>5. CASE r.op = "OK" /\ cmd.op = "G"
    BY <1>1, <1>5 DEF Learned, NewPc, NewRegs, NewMem, WrittenRegs
  <1>6. CASE r.op = "OK" /\ cmd.op = "M"
    BY <1>1, <1>6 DEF Learned, NewPc, NewRegs, NewMem
  <1>7. CASE r.op = "OK" /\ cmd.op = "D"
    BY <1>1, <1>7 DEF Learned, NewPc, NewRegs, NewMem
  <1>8. CASE /\ ~(r.op = "S" /\ cmd.op # "?") /\ r.op # "regs" /\ r.op # "mem"
             /\ ~(r.op = "OK" /\ cmd.op \in {"G", "M", "D"})
    BY <1>1, <1>8 DEF Learned, NewPc, NewRegs, NewMem
  <1> QED
    BY <1>2, <1>3, <1>4, <1>5, <1>6, <1>7, <1>8

-------------------------------------------------------------------------------
(* The host.                                                                *)

LEMMA TransmitWhole ==
    ASSUME Orderly, Types, NEW before \in Seq(Char), NEW cmd, Transmit(before, cmd)
    PROVE  toStub' = (toStub \o before) \o Packet(cmd)
  BY DEF Transmit, Arrivals, Orderly

LEMMA CommandsGiven ==
    ASSUME Orderly, Types
    PROVE  Commands \subseteq Given
  <1> DEFINE W == {[op |-> op, w |-> encode_hex(w), tf |-> FALSE] : op \in {"M", "M!"}, w \in Words}
             G == {[op |-> "G", w |-> encode_hex(w), tf |-> b] : w \in Words, b \in BOOLEAN}
             R == {[op |-> "G", w |-> encode_hex(w), tf |-> r.tf] : w \in Words, r \in host.regs}
  <1>1. \A r \in host.regs : r.tf \in BOOLEAN
    BY DEF Types, Regs
  <1>2. ASSUME NEW c \in R PROVE c \in G
    <2>1. PICK w \in Words, r \in host.regs : c = [op |-> "G", w |-> encode_hex(w), tf |-> r.tf]
      BY <1>2
    <2>2. PICK b \in BOOLEAN : b = r.tf
      BY <1>1
    <2>3. c = [op |-> "G", w |-> encode_hex(w), tf |-> b]
      BY <2>1, <2>2
    <2> QED
      BY <2>3
  <1>3. Given = Reads \cup Resumes \cup W \cup G
    BY DEF Given
  <1>4. Commands = Reads \cup Resumes \cup {} \cup W \cup R
    BY DEF Commands, Orderly
  <1> HIDE DEF W, G, R
  <1> QED
    BY <1>2, <1>3, <1>4

LEMMA CommandStep ==
    ASSUME Orderly, GInv, HostCommand
    PROVE  GInv'
  <1>0. Types /\ Phase
    BY DEF GInv
  <1>1. PICK cmd \in Commands : /\ host' = [host EXCEPT !.pc = "sent", !.cmd = cmd]
                                /\ Transmit(<<>>, cmd)
    BY DEF HostCommand
  <1>2. /\ host.pc = "idle" /\ stub' = stub /\ target' = target /\ toHost' = toHost
    BY DEF HostCommand
  <1>3. cmd \in Given /\ cmd \in Char
    BY <1>0, CommandsGiven, GivenFields
  <1>4. host'.pc = "sent" /\ host'.cmd = cmd /\ host'.regs = host.regs /\ host'.mem = host.mem
    BY <1>0, <1>1 DEF Types
  <1>5. Idle
    BY <1>0, <1>2 DEF Phase, Sent, Obeying, Answered, Detached, HostAcked
  <1>6. toStub \in Seq(Char) /\ OnlyAcks
    BY <1>0, <1>5 DEF Types, Idle
  <1>7. toStub' = toStub \o Packet(cmd)
    <2>1. <<>> \in Seq(Char)
      OBVIOUS
    <2>2. toStub' = (toStub \o <<>>) \o Packet(cmd)
      BY <1>0, <1>1, <2>1, TransmitWhole
    <2>3. toStub \o <<>> = toStub
      BY <1>6, ConcatEmptySeq
    <2> QED
      BY <2>2, <2>3
  <1>8. toStub' \in Seq(Char) /\ OnLine(Packet(cmd))'
    <2>1. Packet(cmd) \in Seq(Char)
      BY <1>3, Packets
    <2> QED
      BY <1>6, <1>7, <2>1, AcksJoin DEF OnlyAcks, OnLine
  <1>9. Types'
    BY <1>0, <1>1, <1>2, <1>3, <1>4, <1>8 DEF Types
  <1>10. Sent'
    <2>1. InLoop'
      BY <1>2, <1>5 DEF Idle, InLoop
    <2>2. Reading'
      BY <1>4, <1>8, <2>1 DEF Reading
    <2>3. KnowsBut'
      BY <1>2, <1>4, <1>5 DEF Idle, Knows, KnowsBut
    <2> QED
      BY <1>2, <1>4, <1>5, <2>2, <2>3 DEF Idle, Sent
  <1> QED
    BY <1>9, <1>10 DEF GInv, Phase

LEMMA AttachStep ==
    ASSUME Orderly, GInv, HostAttach
    PROVE  GInv'
  <1>0. Types /\ Phase
    BY DEF GInv
  <1>1. /\ host.pc = "detached" /\ toStub = <<>> /\ (stub.pc = "ack" => stub.then # "resume")
        /\ stub' = stub /\ target' = target /\ toHost' = toHost
        /\ Transmit(<<Chr("+")>>, Chr("?"))
        /\ host' = [pc |-> "sent", cmd |-> Chr("?"), regs |-> {}, mem |-> {}]
    BY DEF HostAttach
  <1>2. PICK cmd \in Given : cmd = Chr("?") /\ cmd \in Char /\ cmd.op = "?"
    BY Chars DEF Given, Reads
  <1>3. host'.pc = "sent" /\ host'.cmd = cmd /\ host'.regs = {} /\ host'.mem = {}
    BY <1>1, <1>2
  <1>4. Detached
    BY <1>0, <1>1 DEF Phase, Sent, Obeying, Answered, Idle, HostAcked
  <1>5. PICK a \in Acks : a = Chr("+")
    BY DEF Acks
  <1>6. <<a>> \in Seq(Char) /\ Around(<<a>>, 0, <<>>) /\ Packet(cmd) \in Seq(Char)
    BY <1>2, AcksFew, Packets
  <1>7. toStub' = <<a>> \o Packet(cmd)
    <2>1. toStub' = (toStub \o <<a>>) \o Packet(cmd)
      BY <1>0, <1>1, <1>2, <1>5, <1>6, TransmitWhole
    <2>2. <<>> \o <<a>> = <<a>>
      BY <1>6, ConcatEmptySeq
    <2> QED
      BY <1>1, <2>1, <2>2
  <1>8. toStub' \in Seq(Char) /\ OnLine(Packet(cmd))'
    <2> PICK s \in Seq(Char) : s = <<a>> /\ Around(s, 0, <<>>)
      BY <1>6
    <2>1. s \o Packet(cmd) \in Seq(Char) /\ Len(s) \in 0 .. Len(s \o Packet(cmd))
          /\ Around(s \o Packet(cmd), Len(s), Packet(cmd))
      BY <1>6, AcksJoin
    <2> QED
      BY <1>7, <2>1 DEF OnLine
  <1>9. Types'
    <2>1. host' \in [pc : {"detached", "idle", "sent", "await", "running", "breaking"},
                 cmd : Char, regs : SUBSET Regs, mem : SUBSET Byte]
      BY <1>1, <1>2
    <2> QED
      BY <1>0, <1>1, <1>2, <1>3, <1>8, <2>1 DEF Types
  <1>10. Sent'
    <2>1. (InLoop \/ Fresh)'
      BY <1>1, <1>2, <1>3, <1>4 DEF Detached, InLoop, Leaving, Fresh
    <2>2. Reading'
      BY <1>3, <1>8, <2>1 DEF Reading
    <2>3. KnowsBut'
      BY <1>3 DEF KnowsBut
    <2> QED
      BY <1>1, <1>3, <1>4, <2>2, <2>3 DEF Detached, Sent
  <1> QED
    BY <1>9, <1>10 DEF GInv, Phase

LEMMA InterruptStep ==
    ASSUME Orderly, GInv, HostInterrupt
    PROVE  GInv'
  <1>0. Types /\ Phase
    BY DEF GInv
  <1>1. /\ host.pc = "running" /\ host.cmd.op = "c" /\ stub.pc = "run"
        /\ host' = [host EXCEPT !.pc = "breaking"]
        /\ toStub' = Append(toStub, CtrlC)
        /\ stub' = stub /\ target' = target /\ toHost' = toHost
    BY DEF HostInterrupt, Orderly, Running
  <1>2. host'.pc = "breaking" /\ host'.cmd = host.cmd /\ host'.regs = host.regs /\ host'.mem = host.mem
    BY <1>0, <1>1 DEF Types
  <1>3. Answered
    BY <1>0, <1>1 DEF Phase, Sent, Obeying, Detached, Idle
  <1>4. OnlyAcks /\ stub.pending = NoChr /\ host.cmd \in Resumes /\ All(toHost, Right)
    BY <1>1, <1>3 DEF Answered, Obeyed, InLoop, Leaving, HostAcked
  <1>5. toStub' = toStub \o <<CtrlC>>
    BY <1>0, <1>1, AppendIsConcat, Chars DEF Types
  <1>6. toStub' \in Seq(Char) /\ OnLine(<<CtrlC>>)'
    <2>1. <<CtrlC>> \in Seq(Char) /\ toStub \in Seq(Char)
      BY <1>0, Chars, Packets DEF Types
    <2> QED
      BY <1>4, <1>5, <2>1, AcksJoin DEF OnlyAcks, OnLine
  <1>7. Types'
    BY <1>0, <1>1, <1>2, <1>6 DEF Types
  <1>8. Right \subseteq Right'
    <2>1. InLoop => InLoop' /\ stub'.regs = stub.regs /\ target'.mem = target.mem
      BY <1>1 DEF InLoop
    <2> QED
      BY <1>2, <2>1, RightKept
  <1>9. All(toHost, Right)'
    BY <1>0, <1>1, <1>4, <1>8, AllLine DEF Types
  <1>10. Answered'
    <2>1. Obeyed'
      BY <1>1, <1>2, <1>4, <1>6 DEF Obeyed
    <2> QED
      BY <1>1, <1>2, <1>9, <2>1 DEF Answered
  <1> QED
    BY <1>7, <1>10 DEF GInv, Phase

(* An acknowledgement of the host joins the line. *)
LEMMA LineGrow ==
    ASSUME Types, NEW c \in Acks, toStub' = Append(toStub, c)
    PROVE  /\ toStub' \in Seq(Char)
           /\ OnlyAcks => OnlyAcks'
           /\ \A mid \in Seq(Char) : Around(toStub, 0, mid) => Around(toStub', 0, mid)
           /\ \A mid \in Seq(Char) : OnLine(mid) => OnLine(mid)'
  <1>1. toStub \in Seq(Char) /\ c \in Char /\ <<>> \in Seq(Char) /\ Len(toStub) \in Nat
    BY AckChars, AcksFew, LenProperties DEF Types
  <1>2. toStub' \in Seq(Char) /\ Len(toStub') = Len(toStub) + 1
    BY <1>1, Grow
  <1>3. ASSUME NEW mid \in Seq(Char), NEW k \in Nat, Around(toStub, k, mid)
        PROVE  Around(toStub', k, mid)
    BY <1>1, <1>3, AroundGrow
  <1>4. ASSUME NEW mid \in Seq(Char), OnLine(mid) PROVE OnLine(mid)'
    <2>1. PICK k \in 0 .. Len(toStub) : Around(toStub, k, mid)
      BY <1>4 DEF OnLine
    <2>2. k \in Nat /\ k \in 0 .. Len(toStub')
      BY <1>1, <1>2
    <2> QED
      BY <1>3, <2>1, <2>2 DEF OnLine
  <1> QED
    BY <1>1, <1>2, <1>3, <1>4 DEF OnlyAcks

LEMMA ReadingGrow ==
    ASSUME Types, NEW c \in Acks, toStub' = Append(toStub, c), Reading,
           stub' = stub, host'.cmd = host.cmd, host'.regs = host.regs, host'.mem = host.mem
    PROVE  Reading'
  <1>1. host.cmd \in Char /\ <<>> \in Seq(Char)
    BY AcksFew DEF Types
  <1>2. /\ Packet(host.cmd) \in Seq(Char) /\ Next3(host.cmd) \in Seq(Char)
        /\ Next2 \in Seq(Char) /\ Next1 \in Seq(Char)
    BY <1>1, Packets
  <1>3. /\ InLoop => InLoop'
        /\ Fresh => Fresh'
    BY DEF InLoop, Fresh
  <1>4. /\ OnlyAcks => OnlyAcks'
        /\ OnLine(Packet(host.cmd)) => OnLine(Packet(host.cmd))'
        /\ Around(toStub, 0, Next3(host.cmd)) => Around(toStub', 0, Next3(host.cmd))
        /\ Around(toStub, 0, Next2) => Around(toStub', 0, Next2)
        /\ Around(toStub, 0, Next1) => Around(toStub', 0, Next1)
    BY <1>2, LineGrow DEF OnLine
  <1>5. OnLine(Packet(host.cmd))' = \E k \in 0 .. Len(toStub') : Around(toStub', k, Packet(host'.cmd))
    BY DEF OnLine
  <1> QED
    BY <1>3, <1>4, <1>5, Zenon DEF Reading

(* The parts of the invariant that depend on what a host step that leaves
   the stub and the kernel alone does not change. *)
LEMMA HostOnly ==
    ASSUME Types, stub' = stub, target' = target,
           host'.cmd = host.cmd, host'.regs = host.regs, host'.mem = host.mem
    PROVE  /\ InLoop => InLoop'
           /\ Leaving => Leaving'
           /\ Knows => Knows'
           /\ KnowsBut => KnowsBut'
           /\ Right \subseteq Right'
           /\ Answers(stub.tx) => Answers(stub.tx)'
           /\ HostAcked' = HostAcked
  <1>1. InLoop <=> InLoop'
    BY DEF InLoop
  <1>2. Knows => Knows'
    BY DEF Knows
  <1>3. KnowsBut => KnowsBut'
    BY DEF KnowsBut
  <1>4. Leaving => Leaving'
    BY <1>2 DEF Leaving
  <1>5. Right \subseteq Right'
    BY <1>1, RightKept
  <1>6. Answers(stub.tx) => Answers(stub.tx)'
    BY <1>1 DEF Answers
  <1>7. HostAcked' = HostAcked
    BY DEF HostAcked
  <1> QED
    BY <1>1, <1>2, <1>3, <1>4, <1>5, <1>6, <1>7

LEMMA ObeyedKept ==
    ASSUME Types, stub' = stub, target' = target,
           host'.cmd = host.cmd, host'.regs = host.regs, host'.mem = host.mem,
           host'.pc = "breaking" <=> host.pc = "breaking",
           OnlyAcks => OnlyAcks', OnLine(<<CtrlC>>) => OnLine(<<CtrlC>>)', Obeyed
    PROVE  Obeyed'
  <1>1. /\ InLoop => InLoop'
        /\ Leaving => Leaving'
        /\ KnowsBut => KnowsBut'
        /\ Answers(stub.tx) => Answers(stub.tx)'
    BY HostOnly
  <1>2. Resumes' = Resumes
    BY DEF Resumes
  <1>3. CASE InLoop /\ OnlyAcks /\ Answers(stub.tx) /\ (host.cmd \notin Resumes => KnowsBut)
    BY <1>1, <1>2, <1>3 DEF Obeyed
  <1>4. CASE Leaving /\ OnlyAcks /\ Answers(stub.tx)
    BY <1>1, <1>4 DEF Obeyed
  <1>5. CASE /\ stub.pc = "run" /\ stub.pending = NoChr /\ host.cmd \in Resumes
             /\ IF host.pc = "breaking" THEN OnLine(<<CtrlC>>) ELSE OnlyAcks
    BY <1>5 DEF Obeyed
  <1> QED
    BY <1>3, <1>4, <1>5 DEF Obeyed

(* A packet other than the one the host waits for. *)
LEMMA ReceiveStale ==
    ASSUME GInv, host.pc = "sent", HostReceive, Head(toHost).op \notin {"+", "-"}
    PROVE  GInv'
  <1>0. Types /\ Phase
    BY DEF GInv
  <1>1. /\ toHost # <<>> /\ toHost' = Tail(toHost) /\ toStub' = Append(toStub, Chr("+"))
        /\ host' = host /\ stub' = stub /\ target' = target
    BY DEF HostReceive
  <1>2. PICK c \in Acks : c = Chr("+") /\ toStub' = Append(toStub, c)
    BY <1>1 DEF Acks
  <1>3. toStub' \in Seq(Char) /\ (OnlyAcks => OnlyAcks') /\ (OnLine(<<CtrlC>>) => OnLine(<<CtrlC>>)')
    BY <1>0, <1>2, LineGrow, Packets, Chars
  <1>4. toHost \in Seq(Char) /\ toHost' \in Seq(Char)
    BY <1>0, <1>1, Shrink DEF Types
  <1>5. Types'
    BY <1>0, <1>1, <1>3, <1>4 DEF Types
  <1>6. Quiet(toHost) => Quiet(toHost)'
    BY <1>1, <1>4, QuietLine
  <1>7. ASSUME NEW A, NEW B, NEW k \in 1 .. Len(toHost), Marked(toHost, k, A), A \subseteq B
        PROVE  k - 1 \in 1 .. Len(toHost') /\ Marked(toHost', k - 1, B)
    <2>a. k = 1 => Head(toHost) = Chr("+")
      BY <1>4, <1>7, MarkedLine
    <2>1. k # 1
      BY <2>a, Chars
    <2> QED
      BY <1>1, <1>4, <1>7, <2>1, MarkedLine
  <1>8. (KnowsBut => KnowsBut') /\ Right \subseteq Right' /\ HostAcked' = HostAcked
    BY <1>0, <1>1, HostOnly
  <1>9. CASE Sent
    <2>1. Reading'
      BY <1>0, <1>1, <1>2, <1>9, ReadingGrow DEF Sent
    <2>2. Sent'
      BY <1>1, <1>6, <1>8, <1>9, <2>1 DEF Sent
    <2> QED
      BY <1>5, <2>2 DEF GInv, Phase
  <1>10. CASE Obeying
    <2>1. OnlyAcks' /\ KnowsBut' /\ stub'.pc = "obey" /\ stub'.pending = NoChr /\ stub'.cmd = host'.cmd
      BY <1>1, <1>3, <1>8, <1>10 DEF Obeying
    <2>2. CASE \E k \in 1 .. Len(toHost) : Marked(toHost, k, {})
      <3>1. PICK k \in 1 .. Len(toHost) : Marked(toHost, k, {})
        BY <2>2
      <3>2. k - 1 \in 1 .. Len(toHost') /\ Marked(toHost', k - 1, {})
        BY <1>7, <3>1
      <3>3. Obeying'
        BY <1>1, <2>1, <3>2 DEF Obeying
      <3> QED
        BY <1>5, <3>3 DEF GInv, Phase
    <2>3. CASE Quiet(toHost) /\ host.cmd \notin Resumes
      <3>1. Obeying'
        BY <1>1, <1>6, <2>1, <2>3 DEF Obeying
      <3> QED
        BY <1>5, <3>1 DEF GInv, Phase
    <2> QED
      BY <1>1, <1>10, <2>2, <2>3 DEF Obeying
  <1>11. CASE Answered
    <2>1. Obeyed'
      BY <1>0, <1>1, <1>3, <1>11, ObeyedKept DEF Answered
    <2>2. PICK k \in 1 .. Len(toHost) : Marked(toHost, k, Right)
      BY <1>11 DEF Answered, HostAcked
    <2>3. k - 1 \in 1 .. Len(toHost') /\ Marked(toHost', k - 1, Right')
      BY <1>7, <1>8, <2>2
    <2>4. Answered'
      BY <1>1, <2>1, <2>3 DEF Answered
    <2> QED
      BY <1>5, <2>4 DEF GInv, Phase
  <1> QED
    BY <1>0, <1>9, <1>10, <1>11 DEF Phase, Idle, Detached

(* The stub's acknowledgement of the command. *)
LEMMA ReceiveAck ==
    ASSUME GInv, host.pc = "sent", HostReceive, Head(toHost).op \in {"+", "-"}
    PROVE  GInv'
  <1>0. Types /\ Phase
    BY DEF GInv
  <1>1. toHost \in Seq(Char) /\ toHost # <<>> /\ toHost' = Tail(toHost) /\ toHost' \in Seq(Char)
        /\ stub' = stub /\ target' = target
    BY <1>0, Shrink DEF HostReceive, Types
  <1>2. ~Quiet(toHost)
    BY <1>1, QuietLine
  <1>3. CASE Obeying
    <2>1. PICK k \in 1 .. Len(toHost) : Marked(toHost, k, {})
      BY <1>2, <1>3 DEF Obeying, HostAcked
    <2>2. Head(toHost) = Chr("+") /\ All(Tail(toHost), {})
      BY <1>1, <2>1, MarkedLine
    <2>3. Head(toHost).op = "+"
      BY <2>2, Chars
    <2>4. host' = [host EXCEPT !.pc = HostAcked] /\ toStub' = toStub
      BY <2>3 DEF HostReceive
    <2>5. host'.cmd = host.cmd /\ host'.regs = host.regs /\ host'.mem = host.mem /\ host'.pc = HostAcked
      BY <1>0, <2>4 DEF Types
    <2>6. toHost' = <<>>
      <3>1. Len(toHost') \in Nat /\ \A i \in 1 .. Len(toHost') : FALSE
        BY <1>1, <2>2, LenProperties DEF All
      <3>2. Len(toHost') = 0
        BY <3>1
      <3> QED
        BY <1>1, <3>2, EmptySeq
    <2>7. KnowsBut' /\ HostAcked' = HostAcked
      BY <1>0, <1>1, <1>3, <2>5, HostOnly DEF Obeying
    <2>8. Obeying'
      BY <1>1, <1>3, <2>4, <2>5, <2>6, <2>7 DEF Obeying, OnlyAcks
    <2>9. Types'
      BY <1>0, <1>1, <2>4, <2>5 DEF Types, HostAcked
    <2> QED
      BY <2>8, <2>9 DEF GInv, Phase
  <1>4. CASE Answered
    <2>1. PICK k \in 1 .. Len(toHost) : Marked(toHost, k, Right)
      BY <1>2, <1>4 DEF Answered, HostAcked
    <2>2. Head(toHost) = Chr("+") /\ All(Tail(toHost), Right)
      BY <1>1, <2>1, MarkedLine
    <2>3. Head(toHost).op = "+"
      BY <2>2, Chars
    <2>4. host' = [host EXCEPT !.pc = HostAcked] /\ toStub' = toStub
      BY <2>3 DEF HostReceive
    <2>5. host'.cmd = host.cmd /\ host'.regs = host.regs /\ host'.mem = host.mem /\ host'.pc = HostAcked
      BY <1>0, <2>4 DEF Types
    <2>6. HostAcked' = HostAcked /\ Right \subseteq Right'
      BY <1>0, <1>1, <2>5, HostOnly
    <2>7. All(toHost', Right')
      BY <1>1, <2>2, <2>6, AllLine
    <2>8. Obeyed'
      <3>1. host'.pc = "breaking" <=> host.pc = "breaking"
        BY <2>5 DEF HostAcked
      <3>2. (OnlyAcks => OnlyAcks') /\ (OnLine(<<CtrlC>>) => OnLine(<<CtrlC>>)')
        BY <2>4 DEF OnlyAcks, OnLine
      <3> QED
        BY <1>0, <1>1, <1>4, <2>5, <3>1, <3>2, ObeyedKept DEF Answered
    <2>9. Answered'
      BY <2>5, <2>6, <2>7, <2>8 DEF Answered
    <2>10. Types'
      BY <1>0, <1>1, <2>4, <2>5 DEF Types, HostAcked
    <2> QED
      BY <2>9, <2>10 DEF GInv, Phase
  <1> QED
    BY <1>0, <1>2, <1>3, <1>4 DEF Phase, Idle, Sent, Detached

(* The reply, once the command is acknowledged. *)
LEMMA ReceiveReply ==
    ASSUME GInv, host.pc # "sent", HostReceive
    PROVE  GInv'
  <1>0. Types /\ Phase
    BY DEF GInv
  <1>1. toHost \in Seq(Char) /\ toHost # <<>> /\ toHost' = Tail(toHost) /\ toHost' \in Seq(Char)
        /\ stub' = stub /\ target' = target
    BY <1>0, Shrink DEF HostReceive, Types
  <1>2. PICK r \in Char : r = Head(toHost)
    BY <1>1, Shrink
  <1>3. Answered
    <2>1. ~Idle
      <3>1. Idle => r.op \notin {"+", "-"}
        BY <1>1, <1>2, QuietLine DEF Idle
      <3> QED
        BY <1>2, <3>1 DEF Idle, HostReceive
    <2>2. ~Detached
      <3>1. Detached => r.op \notin {"+", "-"}
        BY <1>1, <1>2, QuietLine DEF Detached
      <3> QED
        BY <1>2, <3>1 DEF Detached, HostReceive
    <2> QED
      BY <1>0, <1>1, <2>1, <2>2 DEF Phase, Sent, Obeying
  <1>4. All(toHost, Right) /\ (host.pc = HostAcked \/ (host.pc = "breaking" /\ host.cmd.op = "c"))
    BY <1>3 DEF Answered
  <1>5. r \in Right /\ Answers(r) /\ All(toHost', Right)
    BY <1>1, <1>2, <1>4, AllLine DEF Right
  <1>6. r.op \notin {"+", "-"} /\ host.pc \in {"await", "running", "breaking"}
    BY <1>4, <1>5, RightPlain DEF HostAcked
  <1>7. CASE r.op = "garbled"
    <2>1. toStub' = Append(toStub, Chr("-")) /\ host' = host
      BY <1>2, <1>6, <1>7 DEF HostReceive
    <2>2. PICK c \in Acks : c = Chr("-") /\ toStub' = Append(toStub, c)
      BY <2>1 DEF Acks
    <2>3. toStub' \in Seq(Char) /\ (OnlyAcks => OnlyAcks') /\ (OnLine(<<CtrlC>>) => OnLine(<<CtrlC>>)')
      BY <1>0, <2>2, LineGrow, Packets, Chars
    <2>4. Right \subseteq Right' /\ HostAcked' = HostAcked
      BY <1>0, <1>1, <2>1, HostOnly
    <2>5. All(toHost', Right')
      BY <1>1, <1>5, <2>4, AllLine
    <2>6. Obeyed'
      BY <1>0, <1>1, <1>3, <2>1, <2>3, ObeyedKept DEF Answered
    <2>7. Answered'
      BY <1>4, <2>1, <2>4, <2>5, <2>6 DEF Answered
    <2>8. Types'
      BY <1>0, <1>1, <2>1, <2>3 DEF Types
    <2> QED
      BY <2>7, <2>8 DEF GInv, Phase
  <1>8. CASE r.op # "garbled"
    <2>1. toStub' = Append(toStub, Chr("+")) /\ host' = Learned(r)
      BY <1>2, <1>6, <1>8 DEF HostReceive
    <2>2. PICK c \in Acks : c = Chr("+") /\ toStub' = Append(toStub, c)
      BY <2>1 DEF Acks
    <2>3. toStub' \in Seq(Char) /\ (OnlyAcks => OnlyAcks')
      BY <1>0, <2>2, LineGrow
    <2>4. /\ host'.pc = NewPc(r, host.cmd) /\ host'.cmd = host.cmd
          /\ host'.regs = NewRegs(r, host.cmd, host.regs)
          /\ host'.mem = NewMem(r, host.cmd, host.mem)
          /\ host' = [pc |-> host'.pc, cmd |-> host'.cmd, regs |-> host'.regs, mem |-> host'.mem]
      BY <1>0, <2>1, LearnedFields
    <2>5. Quiet(toHost')
      <3>1. \A i \in 1 .. Len(toHost') : toHost'[i] \in Right
        BY <1>5 DEF All
      <3> QED
        BY <3>1, RightPlain DEF Quiet
    <2>6. CASE r.op = "OK" /\ host.cmd.op = "D"
      <3>1. host'.pc = "detached" /\ host'.regs = host.regs /\ host'.mem = host.mem
        BY <2>4, <2>6 DEF NewPc, NewRegs, NewMem
      <3>2. Types'
        BY <1>0, <1>1, <2>3, <2>4, <3>1 DEF Types
      <3>3. OnlyAcks
        BY <1>3, <1>4, <2>6 DEF Answered, Obeyed, HostAcked
      <3>4. InLoop \/ Leaving \/ (stub.pc = "run" /\ stub.pending = NoChr)
        BY <1>3 DEF Answered, Obeyed
      <3>5. (InLoop => InLoop') /\ (Leaving => Leaving')
        BY <1>0, <1>1, <2>4, <3>1, HostOnly
      <3>6. Detached'
        BY <1>1, <2>3, <2>5, <3>1, <3>3, <3>4, <3>5 DEF Detached
      <3> QED
        BY <3>2, <3>6 DEF GInv, Phase
    <2>7. CASE ~(r.op = "OK" /\ host.cmd.op = "D")
      <3>1. NewPc(r, host.cmd) = "idle"
        BY <2>7 DEF NewPc
      <3>2. /\ InLoop
            /\ host'.regs \subseteq {stub.regs}
            /\ host'.mem \subseteq {target.mem}
        BY <1>5, <1>8, <2>4, <3>1 DEF Answers
      <3>3. stub.regs \in Regs /\ target.mem \in Byte
        BY <1>0 DEF Types
      <3>4. host' \in [pc : {"detached", "idle", "sent", "await", "running", "breaking"},
                 cmd : Char, regs : SUBSET Regs, mem : SUBSET Byte]
        <4>1. host'.pc = "idle" /\ host'.cmd \in Char
          BY <1>0, <2>4, <3>1 DEF Types
        <4>2. host'.regs \in SUBSET Regs /\ host'.mem \in SUBSET Byte
          BY <3>2, <3>3
        <4> QED
          BY <2>4, <4>1, <4>2
      <3>5. Types'
        BY <1>0, <1>1, <2>3, <2>4, <3>1, <3>4 DEF Types
      <3>6. OnlyAcks
        BY <1>3, <3>2 DEF Answered, Obeyed, Leaving, InLoop
      <3>7. InLoop'
        BY <1>1, <3>2 DEF InLoop
      <3>8. Idle'
        BY <1>1, <2>3, <2>4, <2>5, <3>1, <3>2, <3>6, <3>7 DEF Idle, Knows
      <3> QED
        BY <3>5, <3>8 DEF GInv, Phase
    <2> QED
      BY <2>6, <2>7
  <1> QED
    BY <1>7, <1>8

LEMMA ReceiveStep ==
    ASSUME GInv, HostReceive
    PROVE  GInv'
  BY ReceiveStale, ReceiveAck, ReceiveReply

LEMMA TimeoutStep ==
    ASSUME Orderly, GInv, HostTimeout
    PROVE  GInv'
  <1>0. Types /\ Phase
    BY DEF GInv
  <1>1. /\ toStub = <<>> /\ toHost = <<>> /\ stub.pending = NoChr
        /\ stub.pc \in {"run", "start", "ack"}
        /\ stub' = stub /\ target' = target /\ toHost' = toHost
    BY DEF HostTimeout
  <1>2. toStub \in Seq(Char) /\ Len(toStub) = 0 /\ Len(toHost) = 0
    BY <1>0, <1>1, EmptySeq DEF Types
  <1>3. CASE host.pc = "sent" /\ Transmit(<<>>, host.cmd) /\ UNCHANGED host
    <2>1. PICK cmd \in Char : cmd = host.cmd
      BY <1>0 DEF Types
    <2>2. Sent
      BY <1>0, <1>1, <1>2, <1>3 DEF Phase, Idle, Obeying, Answered, Detached, HostAcked
    <2>3. toStub' = <<>> \o Packet(cmd)
      <3>1. <<>> \in Seq(Char)
        OBVIOUS
      <3>2. toStub' = (toStub \o <<>>) \o Packet(cmd)
        BY <1>0, <1>3, <2>1, <3>1, TransmitWhole
      <3>3. toStub \o <<>> = toStub
        BY <1>2, ConcatEmptySeq
      <3> QED
        BY <1>1, <3>2, <3>3
    <2>4. toStub' \in Seq(Char) /\ OnLine(Packet(cmd))'
      BY <2>3, AcksFew, Packets, AcksJoin DEF OnLine
    <2>5. /\ Packet(cmd) \in Seq(Char) /\ Next3(cmd) \in Seq(Char) /\ Next2 \in Seq(Char) /\ Next1 \in Seq(Char)
          /\ Packet(cmd) # <<>> /\ Next3(cmd) # <<>> /\ Next2 # <<>> /\ Next1 # <<>>
      BY Packets
    <2>6. InLoop \/ Fresh
      <3>1. ASSUME NEW mid \in Seq(Char), mid # <<>>, Around(toStub, 0, mid) PROVE FALSE
        BY <1>1, <1>2, <3>1, AroundTake
      <3> QED
        BY <2>1, <2>2, <2>5, <3>1 DEF Sent, Reading
    <2>7. InLoop' \/ Fresh'
      BY <1>1, <1>3, <2>6 DEF InLoop, Fresh
    <2>8. KnowsBut'
      BY <1>0, <1>1, <1>3, <2>2, HostOnly DEF Sent
    <2>9. Reading'
      BY <1>3, <2>1, <2>4, <2>7 DEF Reading
    <2>10. Sent'
      BY <1>1, <1>3, <2>2, <2>8, <2>9 DEF Sent
    <2>11. Types'
      BY <1>0, <1>1, <1>3, <2>4 DEF Types
    <2> QED
      BY <2>10, <2>11 DEF GInv, Phase
  <1>4. CASE host.pc = "await" /\ host.cmd.op # "D" /\ toStub' = <<Chr("-")>> /\ UNCHANGED host
    <2>1. Answered
      BY <1>0, <1>1, <1>4 DEF Phase, Idle, Sent, Obeying, Detached
    <2>2. toStub' \in Seq(Char) /\ OnlyAcks'
      BY <1>4, AcksFew DEF Acks, OnlyAcks
    <2>3. Right \subseteq Right' /\ HostAcked' = HostAcked
      BY <1>0, <1>1, <1>4, HostOnly
    <2>4. Obeyed'
      <3>1. OnLine(<<CtrlC>>) => FALSE
        <4>1. <<CtrlC>> \in Seq(Char) /\ <<CtrlC>> # <<>> /\ 0 .. Len(toStub) = {0}
          BY <1>2, Packets, Chars
        <4> QED
          BY <1>1, <1>2, <4>1, AroundTake DEF OnLine
      <3> QED
        BY <1>0, <1>1, <1>4, <2>1, <2>2, <3>1, ObeyedKept DEF Answered
    <2>5. All(toHost', Right')
      BY <1>1, <1>2 DEF All
    <2>6. Answered'
      BY <1>4, <2>1, <2>3, <2>4, <2>5 DEF Answered
    <2>7. Types'
      BY <1>0, <1>1, <1>4, <2>2 DEF Types
    <2> QED
      BY <2>6, <2>7 DEF GInv, Phase
  <1>5. CASE host.pc = "await" /\ host.cmd.op = "D" /\ host' = [host EXCEPT !.pc = "detached"] /\ UNCHANGED toStub
    <2>1. Answered
      BY <1>0, <1>1, <1>5 DEF Phase, Idle, Sent, Obeying, Detached
    <2>2. host'.pc = "detached" /\ host'.cmd = host.cmd /\ host'.regs = host.regs /\ host'.mem = host.mem
      BY <1>0, <1>5 DEF Types
    <2>3. OnlyAcks'
      BY <1>5, <2>1 DEF Answered, Obeyed, OnlyAcks
    <2>4. InLoop' \/ Leaving' \/ (stub'.pc = "run" /\ stub'.pending = NoChr)
      BY <1>0, <1>1, <2>1, <2>2, HostOnly DEF Answered, Obeyed
    <2>5. Quiet(toHost')
      BY <1>1, <1>2 DEF Quiet
    <2>6. Detached'
      BY <2>2, <2>3, <2>4, <2>5 DEF Detached
    <2>7. Types'
      BY <1>0, <1>1, <1>5, <2>2 DEF Types
    <2> QED
      BY <2>6, <2>7 DEF GInv, Phase
  <1> QED
    BY <1>3, <1>4, <1>5 DEF HostTimeout

-------------------------------------------------------------------------------
(* The line.                                                                *)

(* What is first on the line to the stub ... *)
LEMMA LineHead ==
    ASSUME Types, toStub # <<>>
    PROVE  /\ OnlyAcks => Head(toStub) \in Acks
           /\ \A mid \in Seq(Char) : mid # <<>> /\ OnLine(mid) =>
                 \/ Head(toStub) \in Acks
                 \/ Head(toStub) = Head(mid) /\ Around(toStub, 0, mid)
           /\ \A mid \in Seq(Char) : mid # <<>> /\ Around(toStub, 0, mid) => Head(toStub) = Head(mid)
  <1>1. toStub \in Seq(Char)
    BY DEF Types
  <1>2. OnlyAcks => Head(toStub) \in Acks
    BY <1>1, AcksTake DEF OnlyAcks
  <1>3. ASSUME NEW mid \in Seq(Char), mid # <<>>, Around(toStub, 0, mid) PROVE Head(toStub) = Head(mid)
    BY <1>1, <1>3, AroundTake
  <1>4. ASSUME NEW mid \in Seq(Char), mid # <<>>, OnLine(mid), Head(toStub) \notin Acks
        PROVE  Head(toStub) = Head(mid) /\ Around(toStub, 0, mid)
    <2>1. PICK k \in 0 .. Len(toStub) : Around(toStub, k, mid)
      BY <1>4 DEF OnLine
    <2>2. k \in Nat /\ (k # 0 => k \in Nat \ {0})
      BY <1>1, LenProperties
    <2>3. k = 0
      BY <1>1, <1>4, <2>1, <2>2, AroundSkip
    <2> QED
      BY <1>3, <1>4, <2>1, <2>3
  <1> QED
    BY <1>2, <1>3, <1>4

(* ... and what is left without it. *)
LEMMA LineShrink ==
    ASSUME Types, toStub # <<>>, toStub' = Tail(toStub)
    PROVE  /\ toStub' \in Seq(Char) /\ Head(toStub) \in Char
           /\ OnlyAcks => Head(toStub) \in Acks /\ OnlyAcks'
           /\ \A mid \in Seq(Char) : mid # <<>> /\ OnLine(mid) =>
                 \/ Head(toStub) \in Acks /\ OnLine(mid)'
                 \/ Head(toStub) = Head(mid) /\ Around(toStub', 0, Tail(mid))
           /\ \A mid \in Seq(Char) : mid # <<>> /\ Around(toStub, 0, mid) =>
                 Head(toStub) = Head(mid) /\ Around(toStub', 0, Tail(mid))
  <1>1. toStub \in Seq(Char) /\ toStub' \in Seq(Char) /\ Head(toStub) \in Char
    BY Shrink DEF Types
  <1>2. OnlyAcks => Head(toStub) \in Acks /\ OnlyAcks'
    BY <1>1, AcksTake DEF OnlyAcks
  <1>3. ASSUME NEW mid \in Seq(Char), mid # <<>>, Around(toStub, 0, mid)
        PROVE  Head(toStub) = Head(mid) /\ Around(toStub', 0, Tail(mid))
    BY <1>1, <1>3, AroundTake
  <1>4. ASSUME NEW mid \in Seq(Char), mid # <<>>, OnLine(mid)
        PROVE  \/ Head(toStub) \in Acks /\ OnLine(mid)'
               \/ Head(toStub) = Head(mid) /\ Around(toStub', 0, Tail(mid))
    <2>1. PICK k \in 0 .. Len(toStub) : Around(toStub, k, mid)
      BY <1>4 DEF OnLine
    <2>2. k \in Nat /\ (k # 0 => k \in Nat \ {0})
      BY <1>1, LenProperties
    <2>3. CASE k = 0
      BY <1>3, <1>4, <2>1, <2>3
    <2>4. CASE k # 0
      <3>1. Head(toStub) \in Acks /\ Around(toStub', k - 1, mid) /\ k - 1 \in 0 .. Len(toStub')
        BY <1>1, <2>1, <2>2, <2>4, AroundSkip
      <3> QED
        BY <3>1 DEF OnLine
    <2> QED
      BY <2>3, <2>4
  <1> QED
    BY <1>1, <1>2, <1>3, <1>4

(* The line to the host changes and nothing else does. *)
LEMMA ReplyLine ==
    ASSUME Types, stub' = stub, target' = target, host' = host, toStub' = toStub
    PROVE  /\ InLoop <=> InLoop'
           /\ Leaving => Leaving'
           /\ Knows => Knows'
           /\ KnowsBut => KnowsBut'
           /\ Right \subseteq Right'
           /\ HostAcked' = HostAcked
           /\ OnlyAcks => OnlyAcks'
           /\ Reading => Reading'
           /\ Obeyed => Obeyed'
  <1>1. (InLoop <=> InLoop') /\ (Fresh <=> Fresh')
    BY DEF InLoop, Fresh
  <1>2. /\ Leaving => Leaving'
        /\ Knows => Knows'
        /\ KnowsBut => KnowsBut'
        /\ Right \subseteq Right'
        /\ HostAcked' = HostAcked
    BY HostOnly
  <1>3. (OnlyAcks <=> OnlyAcks') /\ (OnLine(<<CtrlC>>) <=> OnLine(<<CtrlC>>)')
        /\ (OnLine(Packet(host.cmd)) <=> OnLine(Packet(host.cmd))')
    BY DEF OnlyAcks, OnLine
  <1>4. Reading => Reading'
    BY <1>1, <1>3 DEF Reading
  <1>5. Obeyed => Obeyed'
    BY <1>3, ObeyedKept
  <1> QED
    BY <1>1, <1>2, <1>3, <1>4, <1>5

(* A packet of the stub comes garbled. *)
LEMMA NoiseGarble ==
    ASSUME GInv, stub' = stub, target' = target, host' = host, toStub' = toStub,
           toHost # <<>>, Head(toHost).op \notin {"+", "-"},
           toHost' = <<Chr("garbled")>> \o Tail(toHost)
    PROVE  GInv'
  <1>0. Types /\ Phase
    BY DEF GInv
  <1>1. PICK c \in Char : c = Chr("garbled") /\ c.op \notin {"+", "-"} /\ toHost' = <<c>> \o Tail(toHost)
    BY Chars
  <1>2. toHost \in Seq(Char) /\ toHost' \in Seq(Char)
    BY <1>0, <1>1, Replace DEF Types
  <1>3. Types'
    BY <1>0, <1>2 DEF Types
  <1>4. Quiet(toHost) => Quiet(toHost')
    BY <1>1, <1>2, QuietLine
  <1>5. ASSUME NEW A, NEW B, NEW k \in 1 .. Len(toHost), Marked(toHost, k, A), A \subseteq B
        PROVE  k \in 1 .. Len(toHost') /\ Marked(toHost', k, B)
    <2>1. (k = 1 => Head(toHost) = Chr("+")) /\ A \subseteq B
      BY <1>2, <1>5, MarkedLine
    <2>2. k # 1
      BY <2>1, Chars
    <2>3. PICK u \in Seq(Char) : u = toHost
      BY <1>2
    <2>4. k \in 1 .. Len(<<c>> \o Tail(u)) /\ Marked(<<c>> \o Tail(u), k, B)
      BY <1>1, <1>5, <2>2, <2>3, MarkedLine, ZenonT(60)
    <2> QED
      BY <1>1, <2>3, <2>4
  <1>6. /\ InLoop <=> InLoop'
        /\ Leaving => Leaving'
        /\ Knows => Knows'
        /\ KnowsBut => KnowsBut'
        /\ Right \subseteq Right'
        /\ HostAcked' = HostAcked
        /\ OnlyAcks => OnlyAcks'
        /\ Reading => Reading'
        /\ Obeyed => Obeyed'
    BY <1>0, ReplyLine
  <1>7. Idle => Idle'
    BY <1>4, <1>6 DEF Idle
  <1>8. Sent => Sent'
    BY <1>4, <1>6 DEF Sent
  <1>9. Detached => Detached'
    BY <1>4, <1>6 DEF Detached
  <1>10. ASSUME Obeying PROVE Obeying'
    <2>1. OnlyAcks' /\ KnowsBut' /\ stub'.pc = "obey" /\ stub'.pending = NoChr /\ stub'.cmd = host'.cmd
      BY <1>6, <1>10 DEF Obeying
    <2>2. CASE host.pc = "sent" /\ \E k \in 1 .. Len(toHost) : Marked(toHost, k, {})
      BY <1>5, <2>1, <2>2 DEF Obeying
    <2>3. CASE host.pc = "sent" /\ Quiet(toHost) /\ host.cmd \notin Resumes
      BY <1>4, <2>1, <2>3 DEF Obeying
    <2> QED
      BY <1>10, <2>2, <2>3 DEF Obeying
  <1>11. ASSUME Answered PROVE Answered'
    <2>1. Obeyed'
      BY <1>6, <1>11 DEF Answered
    <2>2. CASE host.pc = "sent" /\ \E k \in 1 .. Len(toHost) : Marked(toHost, k, Right)
      BY <1>5, <1>6, <2>1, <2>2 DEF Answered
    <2>3. CASE (host.pc = HostAcked \/ (host.pc = "breaking" /\ host.cmd.op = "c")) /\ All(toHost, Right)
      <3>1. c \in Right
        BY <1>1, GarbledRight
      <3>2. PICK A, B : A = Right /\ B = Right' /\ A \subseteq B
        BY <1>6
      <3>3. All(toHost, A) /\ c \in B
        BY <2>3, <3>1, <3>2
      <3>4. All(toHost', B)
        BY <1>1, <1>2, <3>2, <3>3, AllLine, ZenonT(60)
      <3> QED
        BY <1>6, <2>1, <2>3, <3>2, <3>4 DEF Answered
    <2> QED
      BY <1>11, <2>2, <2>3 DEF Answered
  <1> QED
    BY <1>0, <1>3, <1>7, <1>8, <1>9, <1>10, <1>11 DEF GInv, Phase

(* Something the stub sent is lost. *)
LEMMA NoiseLoss ==
    ASSUME GInv, stub' = stub, target' = target, host' = host, toStub' = toStub,
           toHost # <<>>, host.cmd \notin Resumes, toHost' = Tail(toHost)
    PROVE  GInv'
  <1>0. Types /\ Phase
    BY DEF GInv
  <1>1. toHost \in Seq(Char) /\ toHost' \in Seq(Char)
    BY <1>0, Shrink DEF Types
  <1>2. Types'
    BY <1>0, <1>1 DEF Types
  <1>3. Quiet(toHost) => Quiet(toHost')
    BY <1>1, QuietLine
  <1>4. /\ InLoop <=> InLoop'
        /\ Leaving => Leaving'
        /\ Knows => Knows'
        /\ KnowsBut => KnowsBut'
        /\ Right \subseteq Right'
        /\ HostAcked' = HostAcked
        /\ OnlyAcks => OnlyAcks'
        /\ Reading => Reading'
        /\ Obeyed => Obeyed'
    BY <1>0, ReplyLine
  <1>5. Idle => Idle'
    BY <1>3, <1>4 DEF Idle
  <1>6. Sent => Sent'
    BY <1>3, <1>4 DEF Sent
  <1>7. Detached => Detached'
    BY <1>3, <1>4 DEF Detached
  <1>8. ASSUME NEW A, NEW B, NEW k \in 1 .. Len(toHost), Marked(toHost, k, A), A \subseteq B, k # 1
        PROVE  k - 1 \in 1 .. Len(toHost') /\ Marked(toHost', k - 1, B)
    BY <1>1, <1>8, MarkedLine
  <1>9. ASSUME Obeying PROVE Obeying'
    <2>1. OnlyAcks' /\ KnowsBut' /\ stub'.pc = "obey" /\ stub'.pending = NoChr /\ stub'.cmd = host'.cmd
      BY <1>4, <1>9 DEF Obeying
    <2>2. CASE host.pc = "sent" /\ \E k \in 1 .. Len(toHost) : Marked(toHost, k, {})
      <3>1. PICK k \in 1 .. Len(toHost) : Marked(toHost, k, {})
        BY <2>2
      <3>2. CASE k = 1
        <4>1. All(toHost', {})
          BY <1>1, <3>1, <3>2, MarkedLine
        <4>2. Quiet(toHost')
          BY <4>1 DEF All, Quiet
        <4> QED
          BY <2>1, <2>2, <4>2 DEF Obeying
      <3>3. CASE k # 1
        <4>1. k - 1 \in 1 .. Len(toHost') /\ Marked(toHost', k - 1, {})
          BY <1>8, <3>1, <3>3
        <4> QED
          BY <2>1, <2>2, <4>1 DEF Obeying
      <3> QED
        BY <3>2, <3>3
    <2>3. CASE host.pc = "sent" /\ Quiet(toHost) /\ host.cmd \notin Resumes
      BY <1>3, <2>1, <2>3 DEF Obeying
    <2> QED
      BY <1>9, <2>2, <2>3 DEF Obeying
  <1>10. ASSUME Answered PROVE Answered' \/ Sent'
    <2>1. Obeyed'
      BY <1>4, <1>10 DEF Answered
    <2>2. CASE host.pc = "sent" /\ \E k \in 1 .. Len(toHost) : Marked(toHost, k, Right)
      <3>1. PICK k \in 1 .. Len(toHost) : Marked(toHost, k, Right)
        BY <2>2
      <3>2. CASE k = 1      \* the host will send the command again
        <4>1. All(toHost', Right)
          BY <1>1, <3>1, <3>2, MarkedLine
        <4>2. Quiet(toHost')
          <5>1. \A i \in 1 .. Len(toHost') : toHost'[i] \in Right
            BY <4>1 DEF All
          <5> QED
            BY <5>1, RightPlain DEF Quiet
        <4>3. host.cmd.op # "D"
          BY <1>0, <2>2, GivenFields DEF Types
        <4>4. InLoop /\ OnlyAcks /\ KnowsBut
          BY <1>10, <4>3 DEF Answered, Obeyed, Leaving
        <4>5. Reading'
          BY <1>4, <4>4 DEF Reading
        <4> QED
          BY <1>4, <2>2, <4>2, <4>4, <4>5 DEF Sent
      <3>3. CASE k # 1
        BY <1>4, <1>8, <2>1, <2>2, <3>1, <3>3 DEF Answered
      <3> QED
        BY <3>2, <3>3
    <2>3. CASE (host.pc = HostAcked \/ (host.pc = "breaking" /\ host.cmd.op = "c")) /\ All(toHost, Right)
      <3>1. All(toHost', Right')
        BY <1>1, <1>4, <2>3, AllLine
      <3> QED
        BY <1>4, <2>1, <2>3, <3>1 DEF Answered
    <2> QED
      BY <1>10, <2>2, <2>3 DEF Answered
  <1> QED
    BY <1>0, <1>2, <1>5, <1>6, <1>7, <1>9, <1>10 DEF GInv, Phase

(* The line to the stub changes and keeps what the stub has not read. *)
LEMMA CommandLine ==
    ASSUME GInv, stub' = stub, target' = target, host' = host, toHost' = toHost,
           toStub' \in Seq(Char), OnlyAcks => OnlyAcks',
           OnLine(<<CtrlC>>) => OnLine(<<CtrlC>>)', Sent => Reading'
    PROVE  GInv'
  <1>0. Types /\ Phase
    BY DEF GInv
  <1>1. Types'
    BY <1>0 DEF Types
  <1>2. /\ InLoop => InLoop'
        /\ Leaving => Leaving'
        /\ Knows => Knows'
        /\ KnowsBut => KnowsBut'
        /\ Right \subseteq Right'
        /\ HostAcked' = HostAcked
    BY <1>0, HostOnly
  <1>3. Idle => Idle'
    BY <1>2 DEF Idle
  <1>4. Sent => Sent'
    BY <1>2 DEF Sent
  <1>5. Detached => Detached'
    BY <1>2 DEF Detached
  <1>6. ASSUME Obeying PROVE Obeying'
    <2>1. OnlyAcks' /\ KnowsBut' /\ stub'.pc = "obey" /\ stub'.pending = NoChr /\ stub'.cmd = host'.cmd
      BY <1>2, <1>6 DEF Obeying
    <2>2. \/ host'.pc = "sent" /\ \E k \in 1 .. Len(toHost') : Marked(toHost', k, {})
          \/ host'.pc = "sent" /\ Quiet(toHost') /\ host'.cmd \notin Resumes
          \/ host'.pc = HostAcked' /\ toHost' = <<>>
      BY <1>2, <1>6 DEF Obeying
    <2> QED
      BY <2>1, <2>2 DEF Obeying
  <1>7. ASSUME Answered PROVE Answered'
    <2>1. Obeyed'
      BY <1>0, <1>7, ObeyedKept DEF Answered
    <2>2. CASE host.pc = "sent" /\ \E k \in 1 .. Len(toHost) : Marked(toHost, k, Right)
      <3>1. PICK k \in 1 .. Len(toHost) : Marked(toHost, k, Right)
        BY <2>2
      <3>2. toHost \in Seq(Char)
        BY <1>0 DEF Types
      <3>3. Marked(toHost', k, Right') /\ k \in 1 .. Len(toHost')
        BY <1>2, <3>1, <3>2, MarkedLine
      <3> QED
        BY <2>1, <2>2, <3>3 DEF Answered
    <2>3. CASE (host.pc = HostAcked \/ (host.pc = "breaking" /\ host.cmd.op = "c")) /\ All(toHost, Right)
      <3>1. toHost \in Seq(Char)
        BY <1>0 DEF Types
      <3>2. All(toHost', Right')
        BY <1>2, <2>3, <3>1, AllLine
      <3> QED
        BY <1>2, <2>1, <2>3, <3>2 DEF Answered
    <2> QED
      BY <1>7, <2>2, <2>3 DEF Answered
  <1> QED
    BY <1>0, <1>1, <1>3, <1>4, <1>5, <1>6, <1>7 DEF GInv, Phase

(* What the host sends besides acknowledgements. *)
LEMMA Middles ==
    ASSUME Types, host.pc = "sent"
    PROVE  /\ host.cmd \in Char /\ host.cmd.op \notin {"+", "-", "$"}
           /\ \A mid \in {Packet(host.cmd), Next3(host.cmd), Next2, Next1} :
                 mid \in Seq(Char) /\ mid # <<>> /\ Head(mid).op \notin {"+", "-"}
           /\ \A mid \in {Next3(host.cmd), Next2, Next1} : Head(mid).op # "$"
  <1>1. host.cmd \in Char /\ host.cmd.op \notin {"+", "-", "$"}
    BY GivenFields DEF Types
  <1>2. PICK cmd \in Char : cmd = host.cmd /\ cmd.op \notin {"+", "-", "$"}
    BY <1>1
  <1>3. /\ Packet(cmd) \in Seq(Char) /\ Packet(cmd) # <<>> /\ Head(Packet(cmd)) = Chr("$")
        /\ Next3(cmd) \in Seq(Char) /\ Next3(cmd) # <<>> /\ Head(Next3(cmd)) = cmd
        /\ Next2 \in Seq(Char) /\ Next2 # <<>> /\ Head(Next2) = Chr("#")
        /\ Next1 \in Seq(Char) /\ Next1 # <<>> /\ Head(Next1) = Chr("sum")
    BY Packets
  <1>4. /\ Head(Packet(cmd)).op = "$" /\ Head(Next3(cmd)).op \notin {"+", "-", "$"}
        /\ Head(Next2).op = "#" /\ Head(Next1).op = "sum"
    BY <1>2, <1>3, Chars
  <1> QED
    BY <1>1, <1>2, <1>3, <1>4

(* An acknowledgement of the host is lost. *)
LEMMA NoiseAck ==
    ASSUME GInv, stub' = stub, target' = target, host' = host, toHost' = toHost,
           toStub # <<>>, Head(toStub).op \in {"+", "-"}, toStub' = Tail(toStub)
    PROVE  GInv'
  <1>0. Types
    BY DEF GInv
  <1>1. toStub' \in Seq(Char) /\ (OnlyAcks => OnlyAcks')
    BY <1>0, LineShrink
  <1>2. ASSUME NEW mid \in Seq(Char), mid # <<>>, Head(mid).op \notin {"+", "-"}
        PROVE  /\ OnLine(mid) => OnLine(mid)'
               /\ ~Around(toStub, 0, mid)
    BY <1>0, <1>2, LineShrink
  <1>3. OnLine(<<CtrlC>>) => OnLine(<<CtrlC>>)'
    BY <1>2, Packets, Chars
  <1>4. ASSUME Sent PROVE Reading'
    <2>1. \A mid \in {Packet(host.cmd), Next3(host.cmd), Next2, Next1} :
             mid \in Seq(Char) /\ mid # <<>> /\ Head(mid).op \notin {"+", "-"}
      BY <1>0, <1>4, Middles DEF Sent
    <2>2. PICK p \in Seq(Char) : p = Packet(host.cmd) /\ p # <<>> /\ Head(p).op \notin {"+", "-"}
      BY <2>1
    <2>3. OnLine(p) => OnLine(p)'
      BY <1>2, <2>2
    <2>4. /\ ~Around(toStub, 0, Next3(host.cmd)) /\ ~Around(toStub, 0, Next2)
          /\ ~Around(toStub, 0, Next1)
      BY <1>2, <2>1
    <2>5. (InLoop \/ Fresh) /\ (OnlyAcks \/ OnLine(p))
      BY <1>4, <2>2, <2>4 DEF Sent, Reading
    <2>6. InLoop' \/ Fresh'
      BY <2>5 DEF InLoop, Fresh
    <2> QED
      BY <1>1, <2>2, <2>3, <2>5, <2>6 DEF Reading
  <1> QED
    BY <1>1, <1>3, <1>4, CommandLine

(* A whole command is lost. *)
LEMMA NoisePacket ==
    ASSUME GInv, stub' = stub, target' = target, host' = host, toHost' = toHost,
           toStub # <<>>, Head(toStub).op = "$", toStub' = <<>>
    PROVE  GInv'
  <1>0. Types
    BY DEF GInv
  <1>1. toStub' \in Seq(Char) /\ OnlyAcks'
    BY AcksFew DEF OnlyAcks
  <1>2. Head(toStub) \notin Acks
    BY AckChars
  <1>3. ~OnLine(<<CtrlC>>)
    BY <1>0, <1>2, LineHead, Packets, Chars
  <1>4. ASSUME Sent PROVE Reading'
    <2>1. /\ \A mid \in {Packet(host.cmd), Next3(host.cmd), Next2, Next1} : mid \in Seq(Char) /\ mid # <<>>
          /\ \A mid \in {Next3(host.cmd), Next2, Next1} : Head(mid).op # "$"
      BY <1>0, <1>4, Middles DEF Sent
    <2>2. /\ ~Around(toStub, 0, Next3(host.cmd)) /\ ~Around(toStub, 0, Next2)
          /\ ~Around(toStub, 0, Next1)
      BY <1>0, <2>1, LineHead
    <2>3. InLoop \/ Fresh
      BY <1>4, <2>2 DEF Sent, Reading
    <2>4. InLoop' \/ Fresh'
      BY <2>3 DEF InLoop, Fresh
    <2> QED
      BY <1>1, <2>4 DEF Reading
  <1> QED
    BY <1>1, <1>3, <1>4, CommandLine

LEMMA NoiseStep ==
    ASSUME GInv, Noise
    PROVE  GInv'
  <1>1. stub' = stub /\ target' = target /\ host' = host
    BY DEF Noise
  <1>2. CASE /\ toHost # <<>> /\ Head(toHost).op \notin {"+", "-", "garbled"}
             /\ toHost' = <<Chr("garbled")>> \o Tail(toHost) /\ UNCHANGED toStub
    BY <1>1, <1>2, NoiseGarble
  <1>3. CASE /\ toHost # <<>> /\ Head(toHost).op # "S" /\ host.cmd \notin Resumes
             /\ toHost' = Tail(toHost) /\ UNCHANGED toStub
    BY <1>1, <1>3, NoiseLoss
  <1>4. CASE /\ toStub # <<>> /\ Head(toStub).op \in {"+", "-"}
             /\ toStub' = Tail(toStub) /\ UNCHANGED toHost
    BY <1>1, <1>4, NoiseAck
  <1>5. CASE toStub # <<>> /\ Head(toStub).op = "$" /\ toStub' = <<>> /\ UNCHANGED toHost
    BY <1>1, <1>5, NoisePacket
  <1> QED
    BY <1>2, <1>3, <1>4, <1>5 DEF Noise

-------------------------------------------------------------------------------
(* The stub in its loop.                                                    *)

(* The packet to the host is sent again. *)
LEMMA SentAgain ==
    ASSUME Types, Right \subseteq Right',
           toHost' = toHost \/ toHost' = Append(toHost, stub.tx)
    PROVE  /\ toHost \in Seq(Char) /\ toHost' \in Seq(Char)
           /\ Quiet(toHost) => Quiet(toHost')
           /\ \A k \in 1 .. Len(toHost) : Marked(toHost, k, Right) /\ Answers(stub.tx) =>
                 k \in 1 .. Len(toHost') /\ Marked(toHost', k, Right')
           /\ All(toHost, Right) /\ Answers(stub.tx) => All(toHost', Right')
  <1>1. toHost \in Seq(Char) /\ stub.tx \in Char /\ stub.tx.op \notin {"+", "-"}
    BY DEF Types
  <1>2. toHost' \in Seq(Char)
    BY <1>1, Grow
  <1>3. Quiet(toHost) => Quiet(toHost')
    BY <1>1, QuietLine
  <1>4. Answers(stub.tx) => stub.tx \in Right'
    BY <1>1 DEF Right
  <1>5. ASSUME NEW k \in 1 .. Len(toHost), Marked(toHost, k, Right), Answers(stub.tx)
        PROVE  k \in 1 .. Len(toHost') /\ Marked(toHost', k, Right')
    <2>1. PICK A, B : A = Right /\ B = Right' /\ A \subseteq B /\ stub.tx \in B
      BY <1>4, <1>5
    <2>2. k \in 1 .. Len(toHost') /\ Marked(toHost', k, B)
      BY <1>1, <1>5, <2>1, MarkedLine, ZenonT(60)
    <2> QED
      BY <2>1, <2>2
  <1>6. ASSUME All(toHost, Right), Answers(stub.tx) PROVE All(toHost', Right')
    BY <1>1, <1>4, <1>6, AllLine
  <1> QED
    BY <1>1, <1>2, <1>3, <1>5, <1>6

(* The stub stays in its loop, and so does the rest stay as it is. *)
LEMMA LoopStays ==
    ASSUME GInv, InLoop, InLoop', Types', target' = target, host' = host,
           stub'.regs = stub.regs, stub'.tx = stub.tx,
           toHost' = toHost \/ toHost' = Append(toHost, stub.tx),
           OnlyAcks => OnlyAcks',
           host.pc = "sent" /\ OnLine(Packet(host.cmd)) => OnLine(Packet(host.cmd))'
    PROVE  GInv'
  <1>0. Types /\ Phase
    BY DEF GInv
  <1>1. Right \subseteq Right'
    BY RightKept
  <1>2. /\ Quiet(toHost) => Quiet(toHost')
        /\ \A k \in 1 .. Len(toHost) : Marked(toHost, k, Right) /\ Answers(stub.tx) =>
                 k \in 1 .. Len(toHost') /\ Marked(toHost', k, Right')
        /\ All(toHost, Right) /\ Answers(stub.tx) => All(toHost', Right')
    BY <1>0, <1>1, SentAgain
  <1>3. (Knows => Knows') /\ (KnowsBut => KnowsBut') /\ HostAcked' = HostAcked
    BY DEF Knows, KnowsBut, HostAcked
  <1>4. Idle => Idle'
    BY <1>2, <1>3 DEF Idle
  <1>5. Detached => Detached'
    BY <1>2, <1>3 DEF Detached
  <1>6. ASSUME Sent PROVE Sent'
    <2>1. OnlyAcks \/ OnLine(Packet(host.cmd))
      <3>1. Chr("$") # NoChr
        BY Chars
      <3> QED
        BY <1>6, <3>1 DEF Sent, Reading, InLoop
    <2>2. Reading'
      BY <1>6, <2>1 DEF Sent, Reading
    <2> QED
      BY <1>2, <1>3, <1>6, <2>2 DEF Sent
  <1>7. ~Obeying
    BY DEF Obeying, InLoop
  <1>8. ASSUME Answered PROVE Answered'
    <2>1. OnlyAcks /\ Answers(stub.tx) /\ (host.cmd \notin Resumes => KnowsBut)
      BY <1>8 DEF Answered, Obeyed, Leaving, InLoop
    <2>2. Answers(stub.tx)'
      BY <2>1 DEF Answers
    <2>3. Obeyed'
      BY <1>3, <2>1, <2>2 DEF Obeyed
    <2> QED
      BY <1>2, <1>3, <1>8, <2>1, <2>3 DEF Answered
  <1> QED
    BY <1>0, <1>4, <1>5, <1>6, <1>7, <1>8 DEF GInv, Phase

(* The stub waits for the acknowledgement of its answer to a detach. *)
LEMMA LeavingStays ==
    ASSUME GInv, Leaving, stub' = stub, target' = target, host' = host, toStub' \in Seq(Char),
           toHost' = toHost \/ toHost' = Append(toHost, stub.tx),
           OnlyAcks => OnlyAcks'
    PROVE  GInv'
  <1>0. Types /\ Phase
    BY DEF GInv
  <1>1. Leaving' /\ Right \subseteq Right' /\ HostAcked' = HostAcked /\ (Answers(stub.tx) => Answers(stub.tx)')
    BY <1>0, HostOnly
  <1>2. /\ toHost' \in Seq(Char)
        /\ Quiet(toHost) => Quiet(toHost')
        /\ \A k \in 1 .. Len(toHost) : Marked(toHost, k, Right) /\ Answers(stub.tx) =>
                 k \in 1 .. Len(toHost') /\ Marked(toHost', k, Right')
        /\ All(toHost, Right) /\ Answers(stub.tx) => All(toHost', Right')
    BY <1>0, <1>1, SentAgain
  <1>3. Types'
    BY <1>0, <1>2 DEF Types
  <1>4. ~Idle /\ ~Sent /\ ~Obeying
    BY DEF Idle, Sent, Reading, Fresh, Obeying, Leaving, InLoop
  <1>5. Detached => Detached'
    BY <1>1, <1>2 DEF Detached
  <1>6. ASSUME Answered PROVE Answered'
    <2>1. OnlyAcks /\ Answers(stub.tx)
      BY <1>6 DEF Answered, Obeyed, Leaving, InLoop
    <2>2. Obeyed'
      BY <1>1, <2>1 DEF Obeyed
    <2> QED
      BY <1>1, <1>2, <1>6, <2>1, <2>2 DEF Answered
  <1> QED
    BY <1>0, <1>3, <1>4, <1>5, <1>6 DEF GInv, Phase

(* The answer is acknowledged, or nobody answers: the kernel runs. *)
LEMMA LeavingLeaves ==
    ASSUME GInv, Leaving, Types', stub'.pc = "run", stub'.pending = NoChr, host' = host,
           toHost' = toHost, OnlyAcks => OnlyAcks'
    PROVE  GInv'
  <1>0. Types /\ Phase
    BY DEF GInv
  <1>1. ~InLoop
    BY DEF Leaving, InLoop
  <1>2. Right \subseteq Right' /\ HostAcked' = HostAcked
    BY <1>1, RightKept DEF HostAcked
  <1>3. toHost \in Seq(Char)
    BY <1>0 DEF Types
  <1>4. ~Idle /\ ~Sent /\ ~Obeying
    BY DEF Idle, Sent, Reading, Fresh, Obeying, Leaving, InLoop
  <1>5. Detached => Detached'
    BY DEF Detached
  <1>6. ASSUME Answered PROVE Answered'
    <2>1. OnlyAcks
      BY <1>6 DEF Answered, Obeyed, Leaving, InLoop
    <2>2. host.pc # "breaking" /\ host.pc \in {"sent", "await", "running"}
      BY <1>6 DEF Answered, Leaving, HostAcked
    <2>3. host.cmd \in Resumes
      BY <1>0, <2>2, GivenFields DEF Leaving, Types
    <2>4. Obeyed'
      BY <2>1, <2>2, <2>3 DEF Obeyed
    <2>5. CASE host.pc = "sent" /\ \E k \in 1 .. Len(toHost) : Marked(toHost, k, Right)
      <3>1. PICK k \in 1 .. Len(toHost) : Marked(toHost, k, Right)
        BY <2>5
      <3>2. Marked(toHost', k, Right') /\ k \in 1 .. Len(toHost')
        BY <1>2, <1>3, <3>1, MarkedLine
      <3> QED
        BY <2>4, <2>5, <3>2 DEF Answered
    <2>6. CASE host.pc = HostAcked /\ All(toHost, Right)
      <3>1. All(toHost', Right')
        BY <1>2, <1>3, <2>6, AllLine
      <3> QED
        BY <1>2, <2>4, <2>6, <3>1 DEF Answered
    <2> QED
      BY <1>6, <2>2, <2>5, <2>6 DEF Answered
  <1> QED
    BY <1>0, <1>4, <1>5, <1>6 DEF GInv, Phase

(* Where the stub may be when it waits for an acknowledgement or a packet. *)
LEMMA LoopPhase ==
    ASSUME GInv, stub.pc \in {"ack", "start"}
    PROVE  \/ /\ InLoop \/ Leaving
              /\ stub.pending = NoChr
              /\ OnlyAcks \/ (InLoop /\ Sent /\ OnLine(Packet(host.cmd)))
           \/ /\ stub.pc = "start" /\ stub.pending = Chr("$") /\ Sent
              /\ Around(toStub, 0, Next3(host.cmd))
  <1>0. Types /\ Phase
    BY DEF GInv
  <1>1. Idle => InLoop /\ OnlyAcks
    BY DEF Idle
  <1>2. ~Obeying
    BY DEF Obeying
  <1>3. Answered => (InLoop \/ Leaving) /\ OnlyAcks
    BY DEF Answered, Obeyed
  <1>4. Detached => (InLoop \/ Leaving) /\ OnlyAcks
    BY DEF Detached
  <1>5. Sent => \/ InLoop /\ (OnlyAcks \/ OnLine(Packet(host.cmd)))
                \/ /\ stub.pc = "start" /\ stub.pending = Chr("$")
                   /\ Around(toStub, 0, Next3(host.cmd))
    BY DEF Sent, Reading, Fresh
  <1>6. InLoop \/ Leaving => stub.pending = NoChr
    BY DEF InLoop, Leaving
  <1> QED
    BY <1>0, <1>1, <1>2, <1>3, <1>4, <1>5, <1>6 DEF Phase

(* The line without the acknowledgement the stub has read. *)
LEMMA AckRead ==
    ASSUME GInv, toStub # <<>>, toStub' = Tail(toStub), Head(toStub).op \in {"+", "-"}, host' = host
    PROVE  /\ toStub' \in Seq(Char)
           /\ OnlyAcks => OnlyAcks'
           /\ host.pc = "sent" /\ OnLine(Packet(host.cmd)) => OnLine(Packet(host.cmd))'
  <1>0. Types
    BY DEF GInv
  <1>1. toStub' \in Seq(Char) /\ (OnlyAcks => OnlyAcks')
    BY <1>0, LineShrink
  <1>2. ASSUME host.pc = "sent", OnLine(Packet(host.cmd)) PROVE OnLine(Packet(host.cmd))'
    <2>1. PICK p \in Seq(Char) : p = Packet(host.cmd) /\ p # <<>> /\ Head(p).op \notin {"+", "-"}
      BY <1>0, <1>2, Middles
    <2>2. OnLine(p)'
      BY <1>0, <1>2, <2>1, LineShrink
    <2> QED
      BY <2>1, <2>2
  <1> QED
    BY <1>1, <1>2

(* The start of the packet is read, and perhaps put back. *)
LEMMA PacketStarts ==
    ASSUME GInv, Sent, Types', host' = host, target' = target, toHost' = toHost,
           stub'.regs = stub.regs,
           \/ stub'.pc = "start" /\ stub'.pending = Chr("$")
           \/ stub'.pc = "body" /\ stub'.pending = NoChr,
           Around(toStub', 0, Next3(host.cmd))
    PROVE  GInv'
  <1>1. Reading'
    BY DEF Reading
  <1>2. KnowsBut'
    BY DEF Sent, KnowsBut
  <1>3. Sent'
    BY <1>1, <1>2 DEF Sent
  <1> QED
    BY <1>3 DEF GInv, Phase

(* A "$" or a ^C that the stub reads off the line. *)
LEMMA OtherRead ==
    ASSUME GInv, toStub # <<>>, toStub' = Tail(toStub), Head(toStub).op \notin {"+", "-"},
           stub.pc \in {"ack", "start"}, stub.pending = NoChr
    PROVE  /\ toStub' \in Seq(Char) /\ Head(toStub) = Chr("$")
           /\ InLoop /\ Sent /\ Around(toStub', 0, Next3(host.cmd))
  <1>0. Types
    BY DEF GInv
  <1>1. ~OnlyAcks /\ toStub' \in Seq(Char) /\ Head(toStub) \notin Acks
    BY <1>0, LineShrink, AckChars
  <1>2. InLoop /\ Sent /\ OnLine(Packet(host.cmd))
    BY <1>1, LoopPhase, Chars
  <1>3. PICK p \in Seq(Char) : /\ p = Packet(host.cmd) /\ p # <<>> /\ Head(p) = Chr("$")
                               /\ Tail(p) = Next3(host.cmd)
    BY <1>0, Packets DEF Types
  <1> QED
    BY <1>0, <1>1, <1>2, <1>3, LineShrink

LEMMA RecvAckStep ==
    ASSUME GInv, gdb_recv_ack
    PROVE  GInv'
  <1>0. Types
    BY DEF GInv
  <1>1. stub.pc = "ack" /\ host' = host
    BY DEF gdb_recv_ack
  <1>2. PICK c \in {Chr(op) : op \in {"+", "-", "$", "^C"}} :
          /\ gdb_getc(c)
          /\ CASE c.op = "+" -> Return(Taken) /\ UNCHANGED toHost
               [] c.op = "-" -> gdb_handle_nack(Taken, stub.then) /\ UNCHANGED <<ier, target>>
               [] OTHER -> Return([stub EXCEPT !.pending = c]) /\ UNCHANGED toHost
    BY DEF gdb_recv_ack
  <1>3. stub.pending = NoChr /\ (InLoop \/ Leaving)
    BY <1>1, LoopPhase
  <1>4. toStub # <<>> /\ c = Head(toStub) /\ toStub' = Tail(toStub) /\ Taken = stub
    <2>1. Taken = stub
      BY <1>0, <1>3 DEF Taken, Types
    <2> QED
      BY <1>2, <1>3, <2>1 DEF gdb_getc
  <1>5. CASE c.op = "+"
    <2>1. Return(stub) /\ toHost' = toHost
      BY <1>2, <1>4, <1>5
    <2>2. /\ toStub' \in Seq(Char)
          /\ OnlyAcks => OnlyAcks'
          /\ host.pc = "sent" /\ OnLine(Packet(host.cmd)) => OnLine(Packet(host.cmd))'
      BY <1>1, <1>4, <1>5, AckRead
    <2>3. CASE InLoop
      <3>1. stub' = [stub EXCEPT !.pc = "start"] /\ target' = target
        BY <1>1, <2>1, <2>3 DEF Return, InLoop
      <3>2. stub'.pc = "start" /\ stub'.pending = NoChr /\ stub'.regs = stub.regs /\ stub'.tx = stub.tx
        BY <1>0, <1>3, <3>1 DEF Types
      <3>3. Types'
        BY <1>0, <1>1, <2>1, <2>2, <3>1, <3>2 DEF Types
      <3>4. InLoop'
        BY <3>2 DEF InLoop
      <3> QED
        BY <1>1, <2>1, <2>2, <2>3, <3>1, <3>2, <3>3, <3>4, LoopStays
    <2>4. CASE Leaving
      <3>1. PICK regs : regs = [stub.regs EXCEPT !.tf = FALSE]
        OBVIOUS
      <3>2. stub' = [stub EXCEPT !.pc = "run", !.regs = regs] /\ target' = [target EXCEPT !.regs = regs]
        BY <2>1, <2>4, <3>1 DEF Return, gdb_continue, Leave, gdb_apply, Leaving
      <3>3. regs \in Regs
        BY <1>0, <3>1 DEF Types, Regs
      <3>4. stub'.pc = "run" /\ stub'.pending = NoChr /\ stub'.tx = stub.tx
        BY <1>0, <1>3, <3>2 DEF Types
      <3>5. Types'
        BY <1>0, <1>1, <2>1, <2>2, <3>2, <3>3, <3>4 DEF Types
      <3> QED
        BY <1>1, <2>1, <2>2, <2>4, <3>4, <3>5, LeavingLeaves
    <2> QED
      BY <1>3, <2>3, <2>4
  <1>6. CASE c.op = "-"
    <2>1. gdb_handle_nack(stub, stub.then) /\ target' = target
      BY <1>2, <1>4, <1>6
    <2>2. toHost' = Append(toHost, stub.tx) /\ stub' = [stub EXCEPT !.tx = stub.tx, !.pc = "ack", !.then = stub.then]
      BY <2>1 DEF gdb_handle_nack, gdb_send_packet, SendPacket, gdb_putc
    <2>3. stub' = stub
      BY <1>0, <1>1, <2>2 DEF Types
    <2>4. /\ toStub' \in Seq(Char)
          /\ OnlyAcks => OnlyAcks'
          /\ host.pc = "sent" /\ OnLine(Packet(host.cmd)) => OnLine(Packet(host.cmd))'
      BY <1>1, <1>4, <1>6, AckRead
    <2>5. CASE InLoop
      <3>1. InLoop'
        BY <2>3, <2>5 DEF InLoop
      <3>2. toHost' \in Seq(Char)
        BY <1>0, <2>2, Grow DEF Types
      <3>3. Types'
        BY <1>0, <1>1, <2>1, <2>3, <2>4, <3>2 DEF Types
      <3> QED
        BY <1>1, <2>1, <2>2, <2>3, <2>4, <2>5, <3>1, <3>3, LoopStays
    <2>6. CASE Leaving
      BY <1>1, <2>1, <2>2, <2>3, <2>4, <2>6, LeavingStays
    <2> QED
      BY <1>3, <2>5, <2>6
  <1>7. CASE c.op \notin {"+", "-"}
    <2>1. Return([stub EXCEPT !.pending = c]) /\ toHost' = toHost
      BY <1>2, <1>7
    <2>2. toStub' \in Seq(Char) /\ c = Chr("$") /\ InLoop /\ Sent /\ Around(toStub', 0, Next3(host.cmd))
      BY <1>1, <1>3, <1>4, <1>7, OtherRead
    <2>3. PICK s : s = [stub EXCEPT !.pending = c]
      OBVIOUS
    <2>4. s.then = stub.then
      BY <1>0, <2>3 DEF Types
    <2>5. stub' = [s EXCEPT !.pc = "start"] /\ target' = target
      BY <1>1, <2>1, <2>2, <2>3, <2>4 DEF Return, InLoop
    <2>6. c \in Char
      BY <2>2, Chars
    <2>7. stub'.pc = "start" /\ stub'.pending = Chr("$") /\ stub'.regs = stub.regs /\ stub'.tx = stub.tx
      BY <1>0, <2>2, <2>3, <2>5 DEF Types
    <2>8. Types'
      BY <1>0, <1>1, <2>1, <2>2, <2>3, <2>5, <2>6, <2>7 DEF Types
    <2> QED
      BY <1>1, <2>1, <2>2, <2>5, <2>7, <2>8, PacketStarts
  <1> QED
    BY <1>5, <1>6, <1>7

LEMMA RecvAckTimeoutStep ==
    ASSUME GInv, gdb_recv_ack_timeout
    PROVE  GInv'
  <1>0. Types
    BY DEF GInv
  <1>1. /\ stub.pc = "ack" /\ host' = host /\ toStub' = toStub /\ toHost' = toHost
        /\ Return(stub)
    BY DEF gdb_recv_ack_timeout
  <1>2. stub.pending = NoChr /\ (InLoop \/ Leaving)
    BY <1>1, LoopPhase
  <1>3. (OnlyAcks => OnlyAcks') /\ (OnLine(Packet(host.cmd)) => OnLine(Packet(host.cmd))')
    BY <1>1 DEF OnlyAcks, OnLine
  <1>4. CASE InLoop
    <2>1. stub' = [stub EXCEPT !.pc = "start"] /\ target' = target
      BY <1>1, <1>4 DEF Return, InLoop
    <2>2. stub'.pc = "start" /\ stub'.pending = NoChr /\ stub'.regs = stub.regs /\ stub'.tx = stub.tx
      BY <1>0, <1>2, <2>1 DEF Types
    <2>3. Types'
      BY <1>0, <1>1, <2>1, <2>2 DEF Types
    <2>4. InLoop'
      BY <2>2 DEF InLoop
    <2> QED
      BY <1>1, <1>3, <1>4, <2>1, <2>2, <2>3, <2>4, LoopStays
  <1>5. CASE Leaving
    <2>1. PICK regs : regs = [stub.regs EXCEPT !.tf = FALSE]
      OBVIOUS
    <2>2. stub' = [stub EXCEPT !.pc = "run", !.regs = regs] /\ target' = [target EXCEPT !.regs = regs]
      BY <1>1, <1>5, <2>1 DEF Return, gdb_continue, Leave, gdb_apply, Leaving
    <2>3. regs \in Regs
      BY <1>0, <2>1 DEF Types, Regs
    <2>4. stub'.pc = "run" /\ stub'.pending = NoChr /\ stub'.tx = stub.tx
      BY <1>0, <1>2, <2>2 DEF Types
    <2>5. Types'
      BY <1>0, <1>1, <2>2, <2>3, <2>4 DEF Types
    <2> QED
      BY <1>1, <1>3, <1>5, <2>4, <2>5, LeavingLeaves
  <1> QED
    BY <1>2, <1>4, <1>5

LEMMA RecvStartStep ==
    ASSUME GInv, RecvStart
    PROVE  GInv'
  <1>0. Types
    BY DEF GInv
  <1>1. stub.pc = "start" /\ host' = host /\ target' = target
    BY DEF RecvStart
  <1>2. PICK c :
          /\ gdb_getc(c)
          /\ CASE c.op = "$" -> stub' = [Taken EXCEPT !.pc = "body"] /\ UNCHANGED toHost
               [] c.op = "^C" -> gdb_send_packet(Taken, Chr("S"), "leave")
               [] c.op = "-" -> gdb_handle_nack(Taken, "start")
               [] OTHER -> stub' = Taken /\ UNCHANGED toHost
    BY DEF RecvStart
  <1>3. PICK t : t = Taken
    OBVIOUS
  <1>4. t = [stub EXCEPT !.pending = NoChr]
    BY <1>3 DEF Taken
  <1>5. CASE stub.pending # NoChr
    <2>1. stub.pending = Chr("$") /\ Sent /\ Around(toStub, 0, Next3(host.cmd))
      BY <1>1, <1>5, LoopPhase
    <2>2. c = Chr("$") /\ toStub' = toStub
      BY <1>2, <1>5, <2>1 DEF gdb_getc
    <2>3. stub' = [t EXCEPT !.pc = "body"] /\ toHost' = toHost
      BY <1>2, <1>3, <2>2, Chars
    <2>4. /\ stub'.pc = "body" /\ stub'.pending = NoChr /\ stub'.regs = stub.regs /\ stub'.tx = stub.tx
      BY <1>0, <1>4, <2>3 DEF Types
    <2>5. Types'
      BY <1>0, <1>1, <1>4, <2>2, <2>3, <2>4, Chars DEF Types
    <2> QED
      BY <1>1, <2>1, <2>2, <2>3, <2>4, <2>5, PacketStarts
  <1>6. CASE stub.pending = NoChr
    <2>1. toStub # <<>> /\ c = Head(toStub) /\ toStub' = Tail(toStub)
      BY <1>2, <1>6 DEF gdb_getc
    <2>2. t = stub
      BY <1>0, <1>4, <1>6 DEF Types
    <2>3. CASE c.op \in {"+", "-"}
      <3>1. /\ toStub' \in Seq(Char)
            /\ OnlyAcks => OnlyAcks'
            /\ host.pc = "sent" /\ OnLine(Packet(host.cmd)) => OnLine(Packet(host.cmd))'
        BY <1>1, <2>1, <2>3, AckRead
      <3>2. InLoop
        BY <1>1, <1>6 DEF InLoop
      <3>3. CASE c.op = "+"
        <4>1. stub' = stub /\ toHost' = toHost
          BY <1>2, <1>3, <2>2, <3>3
        <4>2. InLoop'
          BY <3>2, <4>1 DEF InLoop
        <4>3. Types'
          BY <1>0, <1>1, <3>1, <4>1 DEF Types
        <4> QED
          BY <1>1, <3>1, <3>2, <4>1, <4>2, <4>3, LoopStays
      <3>4. CASE c.op = "-"
        <4>1. gdb_handle_nack(stub, "start")
          BY <1>2, <1>3, <2>2, <3>4
        <4>2. toHost' = Append(toHost, stub.tx) /\ stub' = [stub EXCEPT !.tx = stub.tx, !.pc = "ack", !.then = "start"]
          BY <4>1 DEF gdb_handle_nack, gdb_send_packet, SendPacket, gdb_putc
        <4>3. /\ stub'.pc = "ack" /\ stub'.then = "start" /\ stub'.pending = NoChr
              /\ stub'.regs = stub.regs /\ stub'.tx = stub.tx
          BY <1>0, <1>6, <4>2 DEF Types
        <4>4. InLoop'
          BY <4>3 DEF InLoop
        <4>5. toHost' \in Seq(Char)
          BY <1>0, <4>2, Grow DEF Types
        <4>6. Types'
          BY <1>0, <1>1, <3>1, <4>2, <4>3, <4>5 DEF Types
        <4> QED
          BY <1>1, <3>1, <3>2, <4>2, <4>3, <4>4, <4>6, LoopStays
      <3> QED
        BY <2>3, <3>3, <3>4
    <2>4. CASE c.op \notin {"+", "-"}
      <3>1. toStub' \in Seq(Char) /\ c = Chr("$") /\ Sent /\ Around(toStub', 0, Next3(host.cmd))
        BY <1>1, <1>6, <2>1, <2>4, OtherRead
      <3>2. stub' = [stub EXCEPT !.pc = "body"] /\ toHost' = toHost
        BY <1>2, <1>3, <2>2, <3>1, Chars
      <3>3. /\ stub'.pc = "body" /\ stub'.pending = NoChr /\ stub'.regs = stub.regs /\ stub'.tx = stub.tx
        BY <1>0, <1>6, <3>2 DEF Types
      <3>4. Types'
        BY <1>0, <1>1, <3>1, <3>2, <3>3 DEF Types
      <3> QED
        BY <1>1, <3>1, <3>2, <3>3, <3>4, PacketStarts
    <2> QED
      BY <2>3, <2>4
  <1> QED
    BY <1>5, <1>6

LEMMA RecvBodyStep ==
    ASSUME GInv, RecvBody
    PROVE  GInv'
  <1>0. Types /\ Phase
    BY DEF GInv
  <1>1. stub.pc = "body" /\ host' = host
    BY DEF RecvBody
  <1>2. PICK c :
          /\ gdb_getc(c)
          /\ CASE c.op = "#" -> stub' = [stub EXCEPT !.pc = "sum"] /\ UNCHANGED <<ier, target, toHost>>
               [] c.op = "oversized" -> Eof(stub)
               [] OTHER -> stub' = [stub EXCEPT !.cmd = c] /\ UNCHANGED <<ier, target, toHost>>
    BY DEF RecvBody
  <1>3. /\ Sent /\ stub.pending = NoChr
        /\ \/ Around(toStub, 0, Next3(host.cmd))
           \/ stub.cmd = host.cmd /\ Around(toStub, 0, Next2)
    <2>1. Sent
      BY <1>0, <1>1 DEF Phase, Idle, Obeying, Answered, Obeyed, Leaving, Detached, InLoop
    <2> QED
      BY <1>1, <2>1 DEF Sent, Reading, InLoop, Fresh
  <1>4. toStub # <<>> /\ c = Head(toStub) /\ toStub' = Tail(toStub)
    BY <1>2, <1>3 DEF gdb_getc
  <1>5. toStub' \in Seq(Char)
    BY <1>0, <1>4, LineShrink
  <1>6. PICK cmd \in Char : cmd = host.cmd /\ cmd.op \notin {"#", "oversized"}
    BY <1>0, <1>3, GivenFields DEF Sent, Types
  <1>7. CASE Around(toStub, 0, Next3(cmd))
    <2>1. c = cmd /\ Around(toStub', 0, Next2)
      BY <1>0, <1>4, <1>7, LineShrink, Packets
    <2>2. stub' = [stub EXCEPT !.cmd = cmd] /\ target' = target /\ toHost' = toHost
      BY <1>2, <1>6, <2>1
    <2>3. /\ stub'.pc = "body" /\ stub'.pending = NoChr /\ stub'.cmd = host'.cmd
          /\ stub'.regs = stub.regs /\ stub'.tx = stub.tx
      BY <1>0, <1>1, <1>3, <1>6, <2>2 DEF Types
    <2>4. Types'
      BY <1>0, <1>1, <1>5, <2>2, <2>3 DEF Types
    <2>5. Reading'
      BY <2>1, <2>3 DEF Reading
    <2>6. Sent'
      BY <1>1, <1>3, <2>2, <2>3, <2>5 DEF Sent, KnowsBut
    <2> QED
      BY <2>4, <2>6 DEF GInv, Phase
  <1>8. CASE stub.cmd = cmd /\ Around(toStub, 0, Next2)
    <2>1. c = Chr("#") /\ Around(toStub', 0, Next1)
      BY <1>0, <1>4, <1>8, LineShrink, Packets
    <2>2. stub' = [stub EXCEPT !.pc = "sum"] /\ target' = target /\ toHost' = toHost
      BY <1>2, <2>1, Chars
    <2>3. /\ stub'.pc = "sum" /\ stub'.pending = NoChr /\ stub'.cmd = host'.cmd
          /\ stub'.regs = stub.regs /\ stub'.tx = stub.tx
      BY <1>0, <1>1, <1>3, <1>6, <1>8, <2>2 DEF Types
    <2>4. Types'
      BY <1>0, <1>1, <1>5, <2>2, <2>3 DEF Types
    <2>5. Reading'
      BY <2>1, <2>3 DEF Reading
    <2>6. Sent'
      BY <1>1, <1>3, <2>2, <2>3, <2>5 DEF Sent, KnowsBut
    <2> QED
      BY <2>4, <2>6 DEF GInv, Phase
  <1> QED
    BY <1>3, <1>6, <1>7, <1>8

LEMMA RecvSumStep ==
    ASSUME GInv, RecvSum
    PROVE  GInv'
  <1>0. Types /\ Phase
    BY DEF GInv
  <1>1. stub.pc = "sum" /\ host' = host /\ target' = target
    BY DEF RecvSum
  <1>2. Sent /\ stub.pending = NoChr /\ stub.cmd = host.cmd /\ Around(toStub, 0, Next1)
    <2>1. Sent
      BY <1>0, <1>1 DEF Phase, Idle, Obeying, Answered, Obeyed, Leaving, Detached, InLoop
    <2> QED
      BY <1>1, <2>1 DEF Sent, Reading, InLoop, Fresh
  <1>3. PICK c : /\ gdb_getc(c)
                 /\ gdb_putc(IF c.op = "sum" THEN Chr("+") ELSE Chr("-"))
                 /\ \E pc \in IF c.op = "sum" THEN {"obey"} ELSE {"obey", "start"} :
                       stub' = [stub EXCEPT !.pc = pc]
    BY DEF RecvSum
  <1>4. toStub # <<>> /\ c = Head(toStub) /\ toStub' = Tail(toStub)
    BY <1>2, <1>3 DEF gdb_getc
  <1>5. toStub' \in Seq(Char) /\ c = Chr("sum") /\ Around(toStub', 0, <<>>)
    BY <1>0, <1>2, <1>4, LineShrink, Packets, Chars
  <1>6. c.op = "sum"
    BY <1>5, Chars
  <1>7. toHost' = Append(toHost, Chr("+")) /\ stub' = [stub EXCEPT !.pc = "obey"]
    BY <1>3, <1>6 DEF gdb_putc
  <1>8. stub'.pc = "obey" /\ stub'.pending = NoChr /\ stub'.cmd = host'.cmd /\ stub'.regs = stub.regs /\ stub'.tx = stub.tx
    BY <1>0, <1>1, <1>2, <1>7 DEF Types
  <1>9. toHost \in Seq(Char) /\ toHost' \in Seq(Char) /\ Len(toHost) + 1 \in 1 .. Len(toHost')
    <2>1. toHost \in Seq(Char)
      BY <1>0 DEF Types
    <2> QED
      BY <1>7, <2>1, Grow, Chars
  <1>10. Marked(toHost', Len(toHost) + 1, {})
    BY <1>2, <1>7, <1>9, QuietLine DEF Sent
  <1>11. Types'
    BY <1>0, <1>1, <1>5, <1>7, <1>8, <1>9 DEF Types
  <1>12. OnlyAcks' /\ KnowsBut'
    BY <1>1, <1>2, <1>5, <1>8 DEF OnlyAcks, Sent, KnowsBut
  <1>13. Obeying'
    BY <1>1, <1>2, <1>8, <1>9, <1>10, <1>12 DEF Obeying, Sent
  <1> QED
    BY <1>11, <1>13 DEF GInv, Phase

-------------------------------------------------------------------------------
(* A command is obeyed.                                                     *)

(* The stub answers the command with the packet r. *)
LEMMA Replied ==
    ASSUME GInv, Obeying, NEW r \in Char, Types', host' = host, toStub' = toStub,
           toHost' = Append(toHost, r), stub'.tx = r, Answers(r)',
           \/ Leaving' /\ host.cmd \in Resumes
           \/ InLoop' /\ KnowsBut'
    PROVE  GInv'
  <1>0. Types /\ Phase /\ toHost \in Seq(Char)
    BY DEF GInv, Types
  <1>1. r \in Right' /\ r.op \notin {"+", "-"} /\ HostAcked' = HostAcked
    BY DEF Right, Answers, HostAcked
  <1>2. OnlyAcks'
    BY DEF Obeying, OnlyAcks
  <1>3. Obeyed'
    BY <1>2 DEF Obeyed
  <1>4. CASE host.pc = "sent" /\ \E k \in 1 .. Len(toHost) : Marked(toHost, k, {})
    <2>1. PICK none, R : none = {} /\ R = Right' /\ none \subseteq R
      OBVIOUS
    <2>2. PICK k \in 1 .. Len(toHost) : Marked(toHost, k, none)
      BY <1>4, <2>1
    <2>3. k \in 1 .. Len(toHost') /\ Marked(toHost', k, Right')
      BY <1>0, <1>1, <2>1, <2>2, MarkedLine
    <2>4. Answered'
      BY <1>3, <1>4, <2>3 DEF Answered
    <2> QED
      BY <2>4 DEF GInv, Phase
  <1>5. CASE host.pc = "sent" /\ Quiet(toHost) /\ host.cmd \notin Resumes
    <2>1. InLoop' /\ KnowsBut'
      BY <1>5
    <2>2. Quiet(toHost')
      BY <1>0, <1>1, <1>5, QuietLine
    <2>3. Reading'
      BY <1>2, <2>1 DEF Reading
    <2>4. Sent'
      BY <1>5, <2>1, <2>2, <2>3 DEF Sent
    <2> QED
      BY <2>4 DEF GInv, Phase
  <1>6. CASE host.pc = HostAcked /\ toHost = <<>>
    <2>1. PICK none, R : none = {} /\ R = Right' /\ none \subseteq R
      OBVIOUS
    <2>a. All(toHost, none)
      BY <1>6 DEF All
    <2>2. All(toHost', Right')
      BY <1>0, <1>1, <2>1, <2>a, AllLine
    <2>3. Answered'
      BY <1>1, <1>3, <1>6, <2>2 DEF Answered
    <2> QED
      BY <2>3 DEF GInv, Phase
  <1> QED
    BY <1>4, <1>5, <1>6 DEF Obeying

(* The answer is right when what the host learns from it is so. *)
LEMMA RepliedInLoop ==
    ASSUME GInv, Obeying, NEW r \in Char, r.op \notin {"+", "-"},
           NEW regs \in Regs, NEW mem \in Byte,
           stub' \in [pc : {"run", "start", "body", "sum", "obey", "ack"},
                      then : {"loop", "start", "resume", "leave"},
                      pending : Char, cmd : Char, regs : Regs, tx : Char],
           stub'.pc = "ack", stub'.then = "loop", stub'.pending = stub.pending,
           stub'.regs = regs, stub'.tx = r,
           target' \in [regs : Regs, mem : Byte], target'.mem = mem,
           host' = host, toStub' = toStub, toHost' = Append(toHost, r),
           NewRegs(r, host.cmd, host.regs) \subseteq {regs},
           NewMem(r, host.cmd, host.mem) \subseteq {mem},
           host.regs \subseteq {regs} \/ (host.cmd.op = "G" /\ regs = WrittenRegs(host.cmd)),
           host.mem \subseteq {mem} \/ (host.cmd.op = "M" /\ mem = decode_hex(host.cmd.w))
    PROVE  GInv'
  <1>1. Types'
    <2>1. toHost' \in Seq(Char)
      BY Grow DEF GInv, Types
    <2> QED
      BY <2>1 DEF GInv, Types
  <1>2. InLoop' /\ KnowsBut'
    BY DEF InLoop, KnowsBut, Obeying
  <1>3. Answers(r)'
    BY <1>2 DEF Answers
  <1> QED
    BY <1>1, <1>2, <1>3, Replied

(* The kernel runs. *)
LEMMA Resumed ==
    ASSUME GInv, Obeying, Types', host' = host, toStub' = toStub, toHost' = toHost,
           stub'.pc = "run", stub'.pending = stub.pending, host.cmd \in Resumes
    PROVE  GInv'
  <1>0. Types /\ toHost \in Seq(Char)
    BY DEF GInv, Types
  <1>1. HostAcked' = HostAcked /\ OnlyAcks' /\ stub'.pending = NoChr /\ host.pc # "breaking"
    BY DEF HostAcked, Obeying, OnlyAcks
  <1>2. Obeyed'
    BY <1>1 DEF Obeyed
  <1>3. PICK none, R : none = {} /\ R = Right' /\ none \subseteq R
    OBVIOUS
  <1>4. CASE host.pc = "sent" /\ \E k \in 1 .. Len(toHost) : Marked(toHost, k, {})
    <2>1. PICK k \in 1 .. Len(toHost) : Marked(toHost, k, none)
      BY <1>3, <1>4
    <2>2. k \in 1 .. Len(toHost') /\ Marked(toHost', k, Right')
      BY <1>0, <1>3, <2>1, MarkedLine
    <2>3. Answered'
      BY <1>2, <1>4, <2>2 DEF Answered
    <2> QED
      BY <2>3 DEF GInv, Phase
  <1>5. CASE host.pc = HostAcked /\ toHost = <<>>
    <2>1. All(toHost', Right')
      BY <1>5 DEF All
    <2>2. Answered'
      BY <1>1, <1>2, <1>5, <2>1 DEF Answered
    <2> QED
      BY <2>2 DEF GInv, Phase
  <1> QED
    BY <1>4, <1>5 DEF Obeying

LEMMA ObeyStep ==
    ASSUME GInv, Obey
    PROVE  GInv'
  <1>0. Types /\ Phase
    BY DEF GInv
  <1>1. stub.pc = "obey" /\ toStub' = toStub /\ host' = host /\ Dispatch(stub)
    BY DEF Obey
  <1>2. Obeying
    BY <1>0, <1>1 DEF Phase, Idle, Sent, Reading, Fresh, Answered, Obeyed, Leaving, Detached, InLoop
  <1>3. PICK cmd \in Given : cmd = host.cmd /\ cmd = stub.cmd
    BY <1>0, <1>2 DEF Obeying, HostAcked, Types
  <1>4. /\ cmd.op \in {"?", "g", "m", "m!", "unknown", "c", "s", "D", "M", "M!", "G"}
        /\ cmd \in Resumes <=> cmd.op \in {"c", "s", "D"}
        /\ cmd.op \in {"M", "M!", "G"} => decode_hex(cmd.w) \in Byte
        /\ cmd.tf \in BOOLEAN
    BY GivenFields DEF Char
  <1>5. PICK regs \in Regs, mem \in Byte : regs = stub.regs /\ mem = target.mem
    BY <1>0 DEF Types
  <1>6. /\ host.regs \subseteq {regs} \/ (cmd.op = "G" /\ regs = WrittenRegs(cmd))
        /\ host.mem \subseteq {mem} \/ (cmd.op = "M" /\ mem = decode_hex(cmd.w))
    BY <1>2, <1>3, <1>5 DEF Obeying, KnowsBut
  <1> DEFINE StubType == [pc : {"run", "start", "body", "sum", "obey", "ack"},
                          then : {"loop", "start", "resume", "leave"},
                          pending : Char, cmd : Char, regs : Regs, tx : Char]
             Target == [regs : Regs, mem : Byte]
  <1>7. stub \in StubType /\ target \in Target
    BY <1>0 DEF Types
  <1>8. ASSUME NEW r \in Char, stub' = SendPacket(stub, r, "loop")
        PROVE  /\ stub' \in StubType /\ stub'.pc = "ack" /\ stub'.then = "loop"
               /\ stub'.pending = stub.pending /\ stub'.regs = regs /\ stub'.tx = r
    BY <1>5, <1>7, <1>8 DEF SendPacket
  <1>9. ASSUME NEW r \in Char, stub' = SendPacket(stub, r, "loop"), toHost' = Append(toHost, r), target' = target,
               r.op \notin {"+", "-"},
               NewRegs(r, cmd, host.regs) \subseteq {regs}, NewMem(r, cmd, host.mem) \subseteq {mem}
        PROVE  GInv'
    <2>1. /\ stub' \in StubType /\ stub'.pc = "ack" /\ stub'.then = "loop"
          /\ stub'.pending = stub.pending /\ stub'.regs = regs /\ stub'.tx = r
      BY <1>8, <1>9
    <2> QED
      BY <1>1, <1>2, <1>3, <1>5, <1>6, <1>7, <1>9, <2>1, RepliedInLoop
  <1>10. CASE cmd.op = "?"
    <2>1. PICK r \in Char : r = Chr("S") /\ r.op = "S"
      BY Chars
    <2>2. stub' = SendPacket(stub, r, "loop") /\ toHost' = Append(toHost, r) /\ target' = target
      BY <1>1, <1>3, <1>10, <2>1 DEF Dispatch, gdb_send_packet, gdb_putc
    <2>3. NewRegs(r, cmd, host.regs) \subseteq {regs} /\ NewMem(r, cmd, host.mem) \subseteq {mem}
      BY <1>6, <1>10, <2>1 DEF NewRegs, NewMem
    <2> QED
      BY <1>9, <2>1, <2>2, <2>3
  <1>11. CASE cmd.op = "g"
    <2>1. /\ encode_hex(regs.w) \in Digits /\ decode_hex(encode_hex(regs.w)) = regs.w
          /\ regs = [w |-> regs.w, tf |-> regs.tf] /\ regs.tf \in BOOLEAN
      BY <1>5, HexRoundTrip DEF Regs
    <2>a. PICK d \in Digits, b \in BOOLEAN : d = encode_hex(regs.w) /\ b = regs.tf
      BY <2>1
    <2>2. PICK r \in Char : /\ r = [op |-> "regs", w |-> encode_hex(regs.w), tf |-> regs.tf]
                            /\ r.op = "regs" /\ r.w = encode_hex(regs.w) /\ r.tf = regs.tf
      <3>1. [op |-> "regs", w |-> d, tf |-> b] \in Char
        BY DEF Char, Ops
      <3> QED
        BY <2>a, <3>1
    <2>3. stub' = SendPacket(stub, r, "loop") /\ toHost' = Append(toHost, r) /\ target' = target
      BY <1>1, <1>3, <1>5, <1>11, <2>2 DEF Dispatch, gdb_read_regs, gdb_send_packet, gdb_putc
    <2>4. NewRegs(r, cmd, host.regs) \subseteq {regs} /\ NewMem(r, cmd, host.mem) \subseteq {mem}
      BY <1>6, <1>11, <2>1, <2>2 DEF NewRegs, NewMem
    <2> QED
      BY <1>9, <2>2, <2>3, <2>4
  <1>12. CASE cmd.op = "m"
    <2>1. encode_hex(mem) \in Digits /\ decode_hex(encode_hex(mem)) = mem
      BY HexRoundTrip
    <2>a. PICK d \in Digits : d = encode_hex(mem)
      BY <2>1
    <2>2. PICK r \in Char : /\ r = [op |-> "mem", w |-> encode_hex(mem), tf |-> FALSE]
                            /\ r.op = "mem" /\ r.w = encode_hex(mem)
      <3>1. [op |-> "mem", w |-> d, tf |-> FALSE] \in Char
        BY DEF Char, Ops
      <3> QED
        BY <2>a, <3>1
    <2>3. stub' = SendPacket(stub, r, "loop") /\ toHost' = Append(toHost, r) /\ target' = target
      BY <1>1, <1>3, <1>5, <1>12, <2>2 DEF Dispatch, gdb_read_mem, gdb_send_packet, gdb_putc
    <2>4. NewRegs(r, cmd, host.regs) \subseteq {regs} /\ NewMem(r, cmd, host.mem) \subseteq {mem}
      BY <1>6, <1>12, <2>1, <2>2 DEF NewRegs, NewMem
    <2> QED
      BY <1>9, <2>2, <2>3, <2>4
  <1>13. CASE cmd.op \in {"m!", "M!"}
    <2>1. PICK r \in Char : r = Chr("E") /\ r.op = "E"
      BY Chars
    <2>2. stub' = SendPacket(stub, r, "loop") /\ toHost' = Append(toHost, r) /\ target' = target
      BY <1>1, <1>3, <1>13, <2>1 DEF Dispatch, gdb_read_mem, gdb_write_mem, gdb_send_packet, gdb_putc
    <2>3. NewRegs(r, cmd, host.regs) \subseteq {regs} /\ NewMem(r, cmd, host.mem) \subseteq {mem}
      BY <1>6, <1>13, <2>1 DEF NewRegs, NewMem
    <2> QED
      BY <1>9, <2>1, <2>2, <2>3
  <1>14. CASE cmd.op = "unknown"
    <2>1. PICK r \in Char : r = Chr("empty") /\ r.op = "empty"
      BY Chars
    <2>2. stub' = SendPacket(stub, r, "loop") /\ toHost' = Append(toHost, r) /\ target' = target
      BY <1>1, <1>3, <1>14, <2>1 DEF Dispatch, gdb_send_packet, gdb_putc
    <2>3. NewRegs(r, cmd, host.regs) \subseteq {regs} /\ NewMem(r, cmd, host.mem) \subseteq {mem}
      BY <1>6, <1>14, <2>1 DEF NewRegs, NewMem
    <2> QED
      BY <1>9, <2>1, <2>2, <2>3
  <1>15. CASE cmd.op = "M"
    <2>1. PICK r \in Char : r = Chr("OK") /\ r.op = "OK"
      BY Chars
    <2>2. PICK new \in Byte : new = decode_hex(cmd.w)
      BY <1>4, <1>15
    <2>3. /\ stub' = SendPacket(stub, r, "loop") /\ toHost' = Append(toHost, r)
          /\ target' = [target EXCEPT !.mem = new]
      BY <1>1, <1>3, <1>15, <2>1, <2>2 DEF Dispatch, gdb_write_mem, gdb_send_packet, gdb_putc
    <2>4. /\ stub' \in StubType /\ stub'.pc = "ack" /\ stub'.then = "loop"
          /\ stub'.pending = stub.pending /\ stub'.regs = regs /\ stub'.tx = r
      BY <1>8, <2>3
    <2>5. target' \in Target /\ target'.mem = new
      BY <1>7, <2>3
    <2>6. /\ NewRegs(r, cmd, host.regs) \subseteq {regs} /\ NewMem(r, cmd, host.mem) \subseteq {new}
          /\ host.regs \subseteq {regs}
      BY <1>6, <1>15, <2>1, <2>2 DEF NewRegs, NewMem
    <2>7. r.op \notin {"+", "-"}
      BY <2>1
    <2> QED
      BY <1>1, <1>2, <1>3, <1>15, <2>2, <2>3, <2>4, <2>5, <2>6, <2>7, RepliedInLoop
  <1>16. CASE cmd.op = "G"
    <2>1. PICK r \in Char : r = Chr("OK") /\ r.op = "OK"
      BY Chars
    <2>2. PICK new \in Regs : new = WrittenRegs(cmd)
      BY <1>4, <1>16 DEF WrittenRegs, Regs
    <2>3. PICK s : s = [stub EXCEPT !.regs = new]
      OBVIOUS
    <2>4. stub' = SendPacket(s, r, "loop") /\ toHost' = Append(toHost, r) /\ target' = target
      BY <1>1, <1>3, <1>16, <2>1, <2>2, <2>3 DEF Dispatch, gdb_write_regs, gdb_send_packet, gdb_putc, WrittenRegs
    <2>5. /\ stub' \in StubType /\ stub'.pc = "ack" /\ stub'.then = "loop"
          /\ stub'.pending = stub.pending /\ stub'.regs = new /\ stub'.tx = r
      BY <1>7, <2>3, <2>4 DEF SendPacket
    <2>6. /\ NewRegs(r, cmd, host.regs) \subseteq {new} /\ NewMem(r, cmd, host.mem) \subseteq {mem}
          /\ host.mem \subseteq {mem}
      BY <1>6, <1>16, <2>1, <2>2 DEF NewRegs, NewMem
    <2>7. r.op \notin {"+", "-"}
      BY <2>1
    <2> QED
      BY <1>1, <1>2, <1>3, <1>5, <1>7, <1>16, <2>2, <2>4, <2>5, <2>6, <2>7, RepliedInLoop
  <1>17. CASE cmd.op = "D"
    <2>1. PICK r \in Char : r = Chr("OK") /\ r.op = "OK"
      BY Chars
    <2>2. stub' = SendPacket(stub, r, "resume") /\ toHost' = Append(toHost, r) /\ target' = target
      BY <1>1, <1>3, <1>17, <2>1 DEF Dispatch, gdb_send_packet, gdb_putc
    <2>3. /\ stub' \in StubType /\ stub'.pc = "ack" /\ stub'.then = "resume"
          /\ stub'.pending = stub.pending /\ stub'.regs = regs /\ stub'.tx = r
      BY <1>5, <1>7, <2>2 DEF SendPacket
    <2>4. Types'
      <3>1. toHost' \in Seq(Char)
        BY <1>0, <2>2, Grow DEF Types
      <3> QED
        BY <1>0, <1>1, <2>1, <2>2, <2>3, <3>1 DEF Types
    <2>5. Leaving'
      BY <1>1, <1>2, <1>3, <1>4, <1>5, <1>6, <1>17, <2>2, <2>3 DEF Leaving, Knows, Obeying
    <2>6. Answers(r)'
      BY <1>1, <1>3, <1>17, <2>1 DEF Answers, NewPc
    <2> QED
      BY <1>1, <1>2, <1>3, <1>4, <1>17, <2>2, <2>3, <2>4, <2>5, <2>6, Replied
  <1>18. CASE cmd.op \in {"c", "s"}
    <2>1. PICK b \in BOOLEAN : b = (cmd.op = "s")
      OBVIOUS
    <2>2. PICK new : new = [regs EXCEPT !.tf = b]
      OBVIOUS
    <2>3. new \in Regs
      BY <1>5, <2>2 DEF Regs
    <2>4. /\ stub' = [stub EXCEPT !.pc = "run", !.regs = new] /\ target' = [target EXCEPT !.regs = new]
          /\ toHost' = toHost
      <3>1. CASE cmd.op = "s"
        <4>1. b = TRUE
          BY <2>1, <3>1
        <4> QED
          BY <1>1, <1>3, <1>5, <2>2, <3>1, <4>1 DEF Dispatch, gdb_step, Leave, gdb_apply
      <3>2. CASE cmd.op = "c"
        <4>1. b = FALSE
          BY <2>1, <3>2
        <4> QED
          BY <1>1, <1>3, <1>5, <2>2, <3>2, <4>1 DEF Dispatch, gdb_continue, Leave, gdb_apply
      <3> QED
        BY <1>18, <3>1, <3>2
    <2>5. /\ stub'.pc = "run" /\ stub'.pending = stub.pending /\ stub'.tx = stub.tx
          /\ stub' \in StubType /\ target' \in Target
      BY <1>7, <2>3, <2>4
    <2>6. Types'
      BY <1>0, <1>1, <2>4, <2>5 DEF Types
    <2> QED
      BY <1>1, <1>2, <1>3, <1>4, <1>18, <2>4, <2>5, <2>6, Resumed
  <1> QED
    BY <1>4, <1>10, <1>11, <1>12, <1>13, <1>14, <1>15, <1>16, <1>17, <1>18

-------------------------------------------------------------------------------
(* The kernel runs and stops.                                               *)

LEMMA RunPhase ==
    ASSUME GInv, stub.pc = "run"
    PROVE  /\ stub.pending = NoChr /\ ~InLoop
           /\ ~Idle /\ ~Obeying
           /\ Sent => Fresh /\ (OnlyAcks \/ OnLine(Packet(host.cmd)))
           /\ Answered => host.cmd \in Resumes /\ IF host.pc = "breaking" THEN OnLine(<<CtrlC>>) ELSE OnlyAcks
           /\ Detached => OnlyAcks
  <1>1. ~InLoop /\ ~Leaving
    BY DEF InLoop, Leaving
  <1>2. ~Idle /\ ~Obeying
    BY <1>1 DEF Idle, Obeying
  <1>3. Sent => stub.pending = NoChr /\ Fresh /\ (OnlyAcks \/ OnLine(Packet(host.cmd)))
    BY <1>1 DEF Sent, Reading, Fresh
  <1>4. Answered => /\ stub.pending = NoChr /\ host.cmd \in Resumes
                    /\ IF host.pc = "breaking" THEN OnLine(<<CtrlC>>) ELSE OnlyAcks
    BY <1>1 DEF Answered, Obeyed
  <1>5. Detached => stub.pending = NoChr /\ OnlyAcks
    BY <1>1 DEF Detached
  <1> QED
    BY <1>1, <1>2, <1>3, <1>4, <1>5 DEF GInv, Phase

(* The kernel stops, and the stub tells the host. *)
LEMMA Stopped ==
    ASSUME GInv, stub.pc = "run", Types', InLoop', host' = host,
           NEW r \in Char, r = Chr("S"), stub'.tx = r, toHost' = Append(toHost, r),
           Answered \/ Detached => OnlyAcks',
           Sent => OnlyAcks' \/ OnLine(Packet(host.cmd))'
    PROVE  GInv'
  <1>0. Types /\ Phase /\ toHost \in Seq(Char)
    BY DEF GInv, Types
  <1>1. r.op = "S"
    BY Chars
  <1>2. ~InLoop
    BY RunPhase
  <1>3. Right \subseteq Right' /\ HostAcked' = HostAcked
    BY <1>2, RightKept DEF HostAcked
  <1>4. Quiet(toHost) => Quiet(toHost')
    BY <1>0, <1>1, QuietLine
  <1>5. ~Idle /\ ~Obeying
    BY RunPhase
  <1>6. ASSUME Sent PROVE Sent'
    <2>1. Fresh
      BY <1>6, RunPhase
    <2>2. KnowsBut'
      BY <2>1 DEF Fresh, KnowsBut
    <2>3. Reading'
      BY <1>6 DEF Reading
    <2> QED
      BY <1>4, <1>6, <2>2, <2>3 DEF Sent
  <1>7. Detached => Detached'
    BY <1>4 DEF Detached
  <1>8. ASSUME Answered PROVE Answered'
    <2>1. host.cmd \in Resumes /\ host.cmd.op # "?"
      BY <1>8, RunPhase, ResumeOps
    <2>2. Answers(r)'
      BY <1>1, <2>1 DEF Answers, NewRegs, NewMem
    <2>3. Obeyed'
      BY <1>8, <2>1, <2>2 DEF Obeyed
    <2>4. r \in Right'
      BY <2>2 DEF Right
    <2>5. CASE host.pc = "sent" /\ \E k \in 1 .. Len(toHost) : Marked(toHost, k, Right)
      <3>1. PICK k \in 1 .. Len(toHost) : Marked(toHost, k, Right)
        BY <2>5
      <3>2. k \in 1 .. Len(toHost') /\ Marked(toHost', k, Right')
        BY <1>0, <1>3, <2>4, <3>1, MarkedLine
      <3> QED
        BY <2>3, <2>5, <3>2 DEF Answered
    <2>6. CASE (host.pc = HostAcked \/ (host.pc = "breaking" /\ host.cmd.op = "c")) /\ All(toHost, Right)
      <3>1. All(toHost', Right')
        BY <1>0, <1>3, <2>4, <2>6, AllLine
      <3> QED
        BY <1>3, <2>3, <2>6, <3>1 DEF Answered
    <2> QED
      BY <1>8, <2>5, <2>6 DEF Answered
  <1> QED
    BY <1>0, <1>5, <1>6, <1>7, <1>8 DEF GInv, Phase

LEMMA ExecuteStep ==
    ASSUME Orderly, GInv, Execute
    PROVE  GInv'
  <1>0. Types /\ Phase /\ toHost \in Seq(Char) /\ toStub \in Seq(Char)
    BY DEF GInv, Types
  <1>1. stub.pc = "run" /\ toStub' = toStub /\ host' = host
    BY DEF Execute, Running
  <1>2. PICK w \in Words, m \in Words, bp \in BOOLEAN :
          /\ target' = [regs |-> [target.regs EXCEPT !.w = w], mem |-> m]
          /\ IF target.regs.tf \/ bp
             THEN /\ RaceCtrlC \/ \A i \in 1 .. Len(toStub) : toStub[i] # CtrlC
                  /\ gdb_main(NoChr, target'.regs)
             ELSE UNCHANGED <<stub, ier, toHost>>
    BY DEF Execute
  <1>3. PICK regs : regs = [target.regs EXCEPT !.w = w]
    OBVIOUS
  <1>a. target.regs \in Regs /\ w \in Byte /\ m \in Byte
    BY <1>0, GdbAssumption DEF Types, Byte
  <1>4. regs \in Regs /\ m \in Byte
    BY <1>3, <1>a DEF Regs
  <1>5. target' = [regs |-> regs, mem |-> m] /\ target'.regs = regs /\ target' \in [regs : Regs, mem : Byte]
    BY <1>2, <1>3, <1>4
  <1>6. OnlyAcks <=> OnlyAcks'
    BY <1>1 DEF OnlyAcks
  <1>7. OnLine(Packet(host.cmd)) <=> OnLine(Packet(host.cmd))'
    BY <1>1 DEF OnLine
  <1>8. CASE ~(target.regs.tf \/ bp)
    <2>1. stub' = stub /\ toHost' = toHost
      BY <1>2, <1>8
    <2>2. Types'
      BY <1>0, <1>1, <1>5, <2>1 DEF Types
    <2>3. ~InLoop /\ ~Idle /\ ~Obeying /\ stub.pending = NoChr
      BY <1>1, RunPhase
    <2>4. Right \subseteq Right' /\ HostAcked' = HostAcked
      BY <1>1, <2>3, RightKept DEF HostAcked
    <2>5. ASSUME Sent PROVE Sent'
      <3>1. Fresh /\ (OnlyAcks \/ OnLine(Packet(host.cmd)))
        BY <1>1, <2>5, RunPhase
      <3>2. Fresh' /\ KnowsBut'
        BY <1>1, <2>1, <3>1 DEF Fresh, KnowsBut
      <3>3. Reading'
        BY <1>6, <1>7, <3>1, <3>2 DEF Reading
      <3> QED
        BY <1>1, <2>1, <2>5, <3>2, <3>3 DEF Sent
    <2>6. ASSUME Detached PROVE Detached'
      BY <1>1, <1>6, <2>1, <2>3, <2>6 DEF Detached
    <2>7. ASSUME Answered PROVE Answered'
      <3>1. host.cmd \in Resumes /\ IF host.pc = "breaking" THEN OnLine(<<CtrlC>>) ELSE OnlyAcks
        BY <1>1, <2>7, RunPhase
      <3>2. OnLine(<<CtrlC>>) <=> OnLine(<<CtrlC>>)'
        BY <1>1 DEF OnLine
      <3>3. Obeyed'
        BY <1>1, <1>6, <2>1, <2>3, <3>1, <3>2 DEF Obeyed
      <3>4. CASE host.pc = "sent" /\ \E k \in 1 .. Len(toHost) : Marked(toHost, k, Right)
        <4>1. PICK k \in 1 .. Len(toHost) : Marked(toHost, k, Right)
          BY <3>4
        <4>2. k \in 1 .. Len(toHost') /\ Marked(toHost', k, Right')
          BY <1>0, <2>1, <2>4, <4>1, MarkedLine
        <4> QED
          BY <1>1, <3>3, <3>4, <4>2 DEF Answered
      <3>5. CASE (host.pc = HostAcked \/ (host.pc = "breaking" /\ host.cmd.op = "c")) /\ All(toHost, Right)
        <4>1. All(toHost', Right')
          BY <1>0, <2>1, <2>4, <3>5, AllLine
        <4> QED
          BY <1>1, <2>4, <3>3, <3>5, <4>1 DEF Answered
      <3> QED
        BY <2>7, <3>4, <3>5 DEF Answered
    <2> QED
      BY <1>0, <2>2, <2>3, <2>5, <2>6, <2>7 DEF GInv, Phase
  <1>9. CASE target.regs.tf \/ bp
    <2>1. (\A i \in 1 .. Len(toStub) : toStub[i] # CtrlC) /\ gdb_main(NoChr, regs)
      BY <1>2, <1>5, <1>9 DEF Orderly
    <2>2. PICK r \in Char : r = Chr("S") /\ r.op = "S"
      BY Chars
    <2>3. toHost' = Append(toHost, r) /\ stub' = SendPacket(gdb_init(NoChr, regs), r, "loop")
      <3>1. NoChr \in {NoChr, CtrlC} /\ NoChr.op # "$"
        BY Chars
      <3> QED
        BY <2>1, <2>2, <3>1 DEF gdb_main, gdb_send_packet, gdb_putc
    <2>4. PICK e \in Char : e = Chr("empty")
      BY Chars
    <2>5. stub' = [pc |-> "ack", then |-> "loop", pending |-> NoChr, cmd |-> NoChr, regs |-> regs, tx |-> r]
      BY <2>3, <2>4 DEF SendPacket, gdb_init
    <2>6. Types'
      <3>1. toHost' \in Seq(Char)
        BY <1>0, <2>3, Grow
      <3>2. stub' \in [pc : {"run", "start", "body", "sum", "obey", "ack"},
                       then : {"loop", "start", "resume", "leave"},
                       pending : Char, cmd : Char, regs : Regs, tx : Char]
        BY <1>4, <2>5, Chars
      <3>3. stub'.tx = r
        BY <2>5
      <3> QED
        BY <1>0, <1>1, <1>5, <2>2, <3>1, <3>2, <3>3 DEF Types
    <2>7. InLoop' /\ stub'.tx = r
      BY <2>5 DEF InLoop
    <2>8. ~OnLine(<<CtrlC>>)
      <3>1. PICK mid \in Seq(Char) : mid = <<CtrlC>> /\ Len(mid) = 1 /\ mid[1] = CtrlC
        BY Chars, Packets
      <3>2. ASSUME NEW k \in 0 .. Len(toStub), Around(toStub, k, mid) PROVE FALSE
        <4>1. k + 1 \in 1 .. Len(toStub) /\ toStub[k + 1] = CtrlC
          BY <1>0, <3>1, <3>2, LenProperties DEF Around
        <4> QED
          BY <2>1, <4>1
      <3> QED
        BY <3>1, <3>2 DEF OnLine
    <2>9. Answered \/ Detached => OnlyAcks'
      BY <1>1, <1>6, <2>8, RunPhase
    <2>10. Sent => OnlyAcks' \/ OnLine(Packet(host.cmd))'
      BY <1>1, <1>6, <1>7, RunPhase
    <2> QED
      BY <1>1, <2>2, <2>3, <2>6, <2>7, <2>9, <2>10, Stopped
  <1> QED
    BY <1>8, <1>9

LEMMA InterruptedStep ==
    ASSUME GInv, com_interrupt
    PROVE  GInv'
  <1>0. Types /\ Phase /\ toHost \in Seq(Char) /\ toStub \in Seq(Char)
    BY DEF GInv, Types
  <1>1. /\ stub.pc = "run" /\ toStub # <<>> /\ toStub' = Tail(toStub)
        /\ target' = target /\ host' = host
        /\ gdb_main(Head(toStub), target.regs)
    BY DEF com_interrupt, Running
  <1>2. PICK c \in Char, regs \in Regs : c = Head(toStub) /\ regs = target.regs
    BY <1>0, <1>1, Shrink DEF Types
  <1>3. toStub' \in Seq(Char)
    BY <1>0, <1>1, LineShrink
  <1>4. CASE c \in Acks
    <2>1. c.op \in {"+", "-"} /\ c \notin {NoChr, CtrlC}
      BY <1>4, AckChars
    <2>2. stub' = stub /\ toHost' = toHost
      BY <1>1, <1>2, <2>1 DEF gdb_main
    <2> QED
      BY <1>1, <1>2, <2>1, <2>2, NoiseAck
  <1>5. CASE c \notin Acks
    <2>1. ~OnlyAcks
      BY <1>0, <1>1, <1>2, <1>5, LineShrink
    <2>2. CASE Sent
      <3>1. Fresh /\ OnLine(Packet(host.cmd))
        BY <1>1, <2>1, <2>2, RunPhase
      <3>2. c = Chr("$") /\ Around(toStub', 0, Next3(host.cmd))
        <4>1. PICK p \in Seq(Char) : /\ p = Packet(host.cmd) /\ p # <<>> /\ Head(p) = Chr("$")
                                     /\ Tail(p) = Next3(host.cmd)
          BY <1>0, Packets DEF Types
        <4> QED
          BY <1>0, <1>1, <1>2, <1>5, <3>1, <4>1, LineShrink
      <3>3. stub' = gdb_init(c, regs) /\ toHost' = toHost
        <4>1. c.op = "$" /\ c \notin {NoChr, CtrlC}
          BY <3>2, Chars
        <4> QED
          BY <1>1, <1>2, <4>1 DEF gdb_main
      <3>4. PICK e \in Char : e = Chr("empty") /\ e.op = "empty"
        BY Chars
      <3>5. stub' = [pc |-> "start", then |-> "loop", pending |-> c, cmd |-> NoChr, regs |-> regs, tx |-> e]
        BY <3>3, <3>4 DEF gdb_init
      <3>6. Types'
        <4>1. stub' \in [pc : {"run", "start", "body", "sum", "obey", "ack"},
                         then : {"loop", "start", "resume", "leave"},
                         pending : Char, cmd : Char, regs : Regs, tx : Char]
          BY <1>2, <3>4, <3>5, Chars
        <4>2. stub'.tx = e
          BY <3>5
        <4> QED
          BY <1>0, <1>1, <1>3, <3>3, <3>4, <4>1, <4>2 DEF Types
      <3>7. stub'.pc = "start" /\ stub'.pending = Chr("$")
        BY <3>2, <3>5
      <3>8. Reading'
        BY <1>1, <3>2, <3>7 DEF Reading
      <3>9. KnowsBut'
        BY <1>1, <3>1 DEF Fresh, KnowsBut
      <3>10. Sent'
        BY <1>1, <2>2, <3>3, <3>8, <3>9 DEF Sent
      <3> QED
        BY <3>6, <3>10 DEF GInv, Phase
    <2>3. CASE ~Sent
      <3>1. Answered /\ OnLine(<<CtrlC>>)
        BY <1>0, <1>1, <2>1, <2>3, RunPhase DEF Phase
      <3>2. c = CtrlC /\ OnlyAcks'
        <4>1. PICK mid \in Seq(Char) : mid = <<CtrlC>> /\ mid # <<>> /\ Head(mid) = CtrlC /\ Tail(mid) = <<>>
          BY Chars, Packets
        <4>2. c = Head(mid) /\ Around(toStub', 0, Tail(mid))
          BY <1>0, <1>1, <1>2, <1>5, <3>1, <4>1, LineShrink
        <4> QED
          BY <4>1, <4>2 DEF OnlyAcks
      <3>3. PICK r \in Char : r = Chr("S") /\ r.op = "S"
        BY Chars
      <3>4. toHost' = Append(toHost, r) /\ stub' = SendPacket(gdb_init(NoChr, regs), r, "loop")
        <4>1. c \in {NoChr, CtrlC} /\ c.op # "$"
          BY <3>2, Chars
        <4> QED
          BY <1>1, <1>2, <3>3, <4>1 DEF gdb_main, gdb_send_packet, gdb_putc
      <3>5. PICK e \in Char : e = Chr("empty")
        BY Chars
      <3>6. stub' = [pc |-> "ack", then |-> "loop", pending |-> NoChr, cmd |-> NoChr, regs |-> regs, tx |-> r]
        BY <3>4, <3>5 DEF SendPacket, gdb_init
      <3>7. Types'
        <4>1. toHost' \in Seq(Char)
          BY <1>0, <3>4, Grow
        <4>2. stub' \in [pc : {"run", "start", "body", "sum", "obey", "ack"},
                         then : {"loop", "start", "resume", "leave"},
                         pending : Char, cmd : Char, regs : Regs, tx : Char]
          BY <1>2, <3>3, <3>6, Chars
        <4>3. stub'.tx = r
          BY <3>6
        <4> QED
          BY <1>0, <1>1, <1>3, <3>3, <4>1, <4>2, <4>3 DEF Types
      <3>8. InLoop' /\ stub'.tx = r
        BY <3>6 DEF InLoop
      <3> QED
        BY <1>1, <2>3, <3>2, <3>3, <3>4, <3>7, <3>8, Stopped
    <2> QED
      BY <2>2, <2>3
  <1> QED
    BY <1>4, <1>5

-------------------------------------------------------------------------------
(* The invariant.                                                           *)

LEMMA InitInv == Init => GInv
  <1> SUFFICES ASSUME Init PROVE GInv
    OBVIOUS
  <1>1. PICK w \in Words, m \in Words : target = [regs |-> [w |-> w, tf |-> FALSE], mem |-> m]
    BY DEF Init
  <1>2. PICK regs \in Regs : regs = [w |-> w, tf |-> FALSE]
    BY GdbAssumption DEF Regs, Byte
  <1>3. target = [regs |-> regs, mem |-> m] /\ target.regs = regs /\ target \in [regs : Regs, mem : Byte]
    BY <1>1, <1>2, GdbAssumption DEF Byte
  <1>4. PICK e \in Char : e = Chr("empty") /\ e.op = "empty"
    BY Chars
  <1>5. stub = [pc |-> "run", then |-> "loop", pending |-> NoChr, cmd |-> NoChr, regs |-> regs, tx |-> e]
    BY <1>3, <1>4 DEF Init, gdb_init
  <1>6. stub \in [pc : {"run", "start", "body", "sum", "obey", "ack"},
                  then : {"loop", "start", "resume", "leave"},
                  pending : Char, cmd : Char, regs : Regs, tx : Char]
    BY <1>4, <1>5, Chars
  <1>7. host = [pc |-> "detached", cmd |-> NoChr, regs |-> {}, mem |-> {}] /\ toStub = <<>> /\ toHost = <<>>
    BY DEF Init
  <1>8. /\ host \in [pc : {"detached", "idle", "sent", "await", "running", "breaking"},
                     cmd : Char, regs : SUBSET Regs, mem : SUBSET Byte]
        /\ host.pc = "detached"
    BY <1>7, Chars
  <1>9. stub.tx = e /\ stub.pc = "run" /\ stub.pending = NoChr
    BY <1>5
  <1>10. Types
    BY <1>3, <1>4, <1>6, <1>7, <1>8, <1>9, AcksFew DEF Types
  <1>11. OnlyAcks /\ Quiet(toHost)
    BY <1>7, AcksFew DEF OnlyAcks, Quiet
  <1> QED
    BY <1>8, <1>9, <1>10, <1>11 DEF GInv, Phase, Detached

LEMMA NextInv ==
    ASSUME Orderly, GInv, [Next]_vars
    PROVE  GInv'
  <1>1. CASE HostCommand
    BY <1>1, CommandStep
  <1>2. CASE HostAttach
    BY <1>2, AttachStep
  <1>3. CASE HostInterrupt
    BY <1>3, InterruptStep
  <1>4. CASE HostReceive
    BY <1>4, ReceiveStep
  <1>5. CASE HostTimeout
    BY <1>5, TimeoutStep
  <1>6. CASE Noise
    BY <1>6, NoiseStep
  <1>7. CASE gdb_recv_ack
    BY <1>7, RecvAckStep
  <1>8. CASE gdb_recv_ack_timeout
    BY <1>8, RecvAckTimeoutStep
  <1>9. CASE RecvStart
    BY <1>9, RecvStartStep
  <1>10. CASE RecvBody
    BY <1>10, RecvBodyStep
  <1>11. CASE RecvSum
    BY <1>11, RecvSumStep
  <1>12. CASE Obey
    BY <1>12, ObeyStep
  <1>13. CASE Execute
    BY <1>13, ExecuteStep
  <1>14. CASE com_interrupt
    BY <1>14, InterruptedStep
  <1>15. CASE UNCHANGED vars
    <2>1. stub' = stub /\ target' = target /\ host' = host /\ toStub' = toStub /\ toHost' = toHost
      BY <1>15 DEF vars
    <2>2. Types
      BY DEF GInv
    <2>3. toStub' \in Seq(Char) /\ (OnlyAcks => OnlyAcks') /\ (OnLine(<<CtrlC>>) => OnLine(<<CtrlC>>)')
      BY <2>1, <2>2 DEF Types, OnlyAcks, OnLine
    <2>4. Sent => Reading'
      BY <2>1, <2>2, ReplyLine DEF Sent
    <2> QED
      BY <2>1, <2>3, <2>4, CommandLine
  <1> QED
    BY <1>1, <1>2, <1>3, <1>4, <1>5, <1>6, <1>7, <1>8, <1>9, <1>10, <1>11, <1>12, <1>13, <1>14, <1>15
       DEF Next

LEMMA InvHolds == Orderly => (Spec => []GInv)
  <1> SUFFICES ASSUME Orderly PROVE Spec => []GInv
    OBVIOUS
  <1>1. GInv /\ [Next]_vars => GInv'
    BY NextInv
  <1> QED
    BY <1>1, InitInv, PTL DEF Spec

(* While GDB holds the kernel stopped it is stopped, and the registers and
   the memory it shows are the ones the kernel will resume with, however many
   packets and acknowledgements were lost, garbled or sent twice by
   gdb_send_packet and gdb_handle_nack: for every number of losses, as long as
   the commands themselves arrive whole and ^C does not cross a breakpoint. *)
THEOREM HostIsRight == Orderly => (Spec => []HostKnows)
  <1> SUFFICES ASSUME Orderly PROVE Spec => []HostKnows
    OBVIOUS
  <1>1. ASSUME GInv PROVE HostKnows
    <2>1. ASSUME host.pc = "idle" PROVE InLoop /\ Knows
      BY <1>1, <2>1 DEF GInv, Phase, Idle, Sent, Obeying, Answered, Detached, HostAcked
    <2> QED
      BY <2>1 DEF HostKnows, InLoop, Knows, Running
  <1> QED
    BY <1>1, InvHolds, PTL

-------------------------------------------------------------------------------
(* Leaving the stub.                                                        *)

(* What ResumedAsTold says of the step. *)
Told ==
    /\ host.cmd \in Resumes /\ host.pc # "idle"
    /\ target'.regs.tf = (host.cmd.op = "s")
    /\ \A r \in host.regs : target'.regs.w = r.w
    /\ host.mem \subseteq {target'.mem}

(* gdb_apply gives the kernel the registers the host knows, but for the trap
   flag. *)
LEMMA Applied ==
    ASSUME Types, Knows, host.cmd \in Resumes, host.pc # "idle",
           NEW tf \in BOOLEAN, tf = (host.cmd.op = "s"),
           target' = [target EXCEPT !.regs = [stub.regs EXCEPT !.tf = tf]]
    PROVE  Told
  <1>1. PICK regs \in Regs : regs = stub.regs
    BY DEF Types
  <1>2. PICK new : new = [regs EXCEPT !.tf = tf]
    OBVIOUS
  <1>3. new.w = regs.w /\ new.tf = tf
    BY <1>2 DEF Regs
  <1>4. target'.regs = new /\ target'.mem = target.mem
    BY <1>1, <1>2 DEF Types
  <1> QED
    BY <1>1, <1>3, <1>4 DEF Told, Knows

LEMMA ReturnTold ==
    ASSUME GInv, stub.pc = "ack", NEW s, s.then = stub.then, s.regs = stub.regs,
           Return(s), stub'.pc = "run", Leaving \/ s = [stub EXCEPT !.pending = s.pending]
    PROVE  Told
  <1>0. Types
    BY DEF GInv
  <1>1. InLoop \/ Leaving
    BY LoopPhase
  <1>2. CASE InLoop
    <2>1. stub' = [s EXCEPT !.pc = "start"]
      BY <1>2 DEF Return, InLoop
    <2>2. s = [stub EXCEPT !.pending = s.pending]
      BY <1>2 DEF InLoop, Leaving
    <2>3. PICK p : p = s.pending
      OBVIOUS
    <2>4. stub'.pc = "start"
      BY <1>0, <2>1, <2>2, <2>3 DEF Types
    <2> QED
      BY <2>4
  <1>3. CASE Leaving
    <2>1. target' = [target EXCEPT !.regs = [stub.regs EXCEPT !.tf = FALSE]]
      BY <1>3 DEF Return, gdb_continue, Leave, gdb_apply, Leaving
    <2>2. host.pc # "idle"
      BY <1>3 DEF GInv, Phase, Idle, Sent, Obeying, Answered, Detached, HostAcked, InLoop, Leaving
    <2>3. FALSE = (host.cmd.op = "s")
      BY <1>3 DEF Leaving
    <2> QED
      BY <1>0, <1>3, <2>1, <2>2, <2>3, Applied DEF Leaving
  <1> QED
    BY <1>1, <1>2, <1>3

LEMMA ObeyTold ==
    ASSUME GInv, Obey, stub'.pc = "run"
    PROVE  Told
  <1>0. Types /\ Phase
    BY DEF GInv
  <1>1. stub.pc = "obey" /\ Dispatch(stub)
    BY DEF Obey
  <1>2. Obeying
    BY <1>0, <1>1 DEF Phase, Idle, Sent, Reading, Fresh, Answered, Obeyed, Leaving, Detached, InLoop
  <1>3. PICK cmd \in Given : cmd = host.cmd /\ cmd = stub.cmd
    BY <1>0, <1>2 DEF Obeying, HostAcked, Types
  <1>4. cmd.op \in {"c", "s"}
    <2>1. ASSUME NEW s \in {stub, [stub EXCEPT !.regs = [w |-> decode_hex(stub.cmd.w), tf |-> stub.cmd.tf]]},
                 NEW r, NEW then, gdb_send_packet(s, r, then)
          PROVE  FALSE
      <3>1. PICK new : new = [w |-> decode_hex(stub.cmd.w), tf |-> stub.cmd.tf]
        OBVIOUS
      <3>2. s = stub \/ s = [stub EXCEPT !.regs = new]
        BY <2>1, <3>1
      <3>3. stub' = [s EXCEPT !.tx = r, !.pc = "ack", !.then = then]
        BY <2>1 DEF gdb_send_packet, SendPacket
      <3>4. stub'.pc = "ack"
        BY <1>0, <3>2, <3>3 DEF Types
      <3> QED
        BY <3>4
    <2>2. cmd.op \in {"?", "g", "m", "m!", "unknown", "c", "s", "D", "M", "M!", "G"}
      BY GivenFields
    <2>3. cmd.op # "?" /\ cmd.op # "D" /\ cmd.op # "unknown"
      BY <1>1, <1>3, <2>1 DEF Dispatch
    <2>4. cmd.op # "g"
      BY <1>1, <1>3, <2>1 DEF Dispatch, gdb_read_regs
    <2>5. cmd.op # "G"
      BY <1>1, <1>3, <2>1 DEF Dispatch, gdb_write_regs
    <2>6. cmd.op \notin {"m", "m!"}
      BY <1>1, <1>3, <2>1 DEF Dispatch, gdb_read_mem
    <2>7. cmd.op \notin {"M", "M!"}
      BY <1>1, <1>3, <2>1 DEF Dispatch, gdb_write_mem
    <2> QED
      BY <2>2, <2>3, <2>4, <2>5, <2>6, <2>7
  <1>5. host.pc # "idle" /\ Knows /\ cmd \in Resumes
    BY <1>2, <1>3, <1>4, GivenFields DEF Obeying, KnowsBut, Knows, HostAcked
  <1>6. PICK b \in BOOLEAN : b = (cmd.op = "s")
    OBVIOUS
  <1>7. target' = [target EXCEPT !.regs = [stub.regs EXCEPT !.tf = b]]
    <2>1. CASE cmd.op = "s"
      <3>1. b = TRUE
        BY <1>6, <2>1
      <3> QED
        BY <1>1, <1>3, <2>1, <3>1 DEF Dispatch, gdb_step, Leave, gdb_apply
    <2>2. CASE cmd.op = "c"
      <3>1. b = FALSE
        BY <1>6, <2>2
      <3> QED
        BY <1>1, <1>3, <2>2, <3>1 DEF Dispatch, gdb_continue, Leave, gdb_apply
    <2> QED
      BY <1>4, <2>1, <2>2
  <1> QED
    BY <1>0, <1>3, <1>5, <1>6, <1>7, Applied

LEMMA RecvAckTold ==
    ASSUME GInv, gdb_recv_ack, stub'.pc = "run"
    PROVE  Told
  <1>0. Types
    BY DEF GInv
  <1>1. stub.pc = "ack"
    BY DEF gdb_recv_ack
  <1>2. PICK c : CASE c.op = "+" -> Return(Taken) /\ UNCHANGED toHost
                   [] c.op = "-" -> gdb_handle_nack(Taken, stub.then) /\ UNCHANGED <<ier, target>>
                   [] OTHER -> Return([stub EXCEPT !.pending = c]) /\ UNCHANGED toHost
    BY DEF gdb_recv_ack
  <1>3. PICK t : t = Taken
    OBVIOUS
  <1>4. t = [stub EXCEPT !.pending = NoChr]
    BY <1>3 DEF Taken
  <1>5. CASE c.op = "+"
    <2>1. Return(t)
      BY <1>2, <1>3, <1>5
    <2>2. t.then = stub.then /\ t.regs = stub.regs /\ t = [stub EXCEPT !.pending = t.pending]
      BY <1>0, <1>4 DEF Types
    <2> QED
      BY <1>1, <2>1, <2>2, ReturnTold
  <1>6. CASE c.op = "-"
    <2>1. stub' = [t EXCEPT !.tx = t.tx, !.pc = "ack", !.then = stub.then]
      BY <1>2, <1>3, <1>6 DEF gdb_handle_nack, gdb_send_packet, SendPacket
    <2>2. stub'.pc = "ack"
      BY <1>0, <1>4, <2>1 DEF Types
    <2> QED
      BY <2>2
  <1>7. CASE c.op \notin {"+", "-"}
    <2>1. PICK s : s = [stub EXCEPT !.pending = c]
      OBVIOUS
    <2>2. Return(s)
      BY <1>2, <1>7, <2>1
    <2>3. s.then = stub.then /\ s.regs = stub.regs /\ s = [stub EXCEPT !.pending = s.pending]
      BY <1>0, <2>1 DEF Types
    <2> QED
      BY <1>1, <2>2, <2>3, ReturnTold
  <1> QED
    BY <1>5, <1>6, <1>7

(* No other step of the stub leaves it. *)
LEMMA ReadsStay ==
    ASSUME GInv, RecvStart \/ RecvBody \/ RecvSum
    PROVE  stub'.pc # "run"
  <1>0. Types
    BY DEF GInv
  <1>1. CASE RecvStart
    <2>1. PICK c : CASE c.op = "$" -> stub' = [Taken EXCEPT !.pc = "body"] /\ UNCHANGED toHost
                     [] c.op = "^C" -> gdb_send_packet(Taken, Chr("S"), "leave")
                     [] c.op = "-" -> gdb_handle_nack(Taken, "start")
                     [] OTHER -> stub' = Taken /\ UNCHANGED toHost
      BY <1>1 DEF RecvStart
    <2>2. PICK t : t = Taken
      OBVIOUS
    <2>3. t = [stub EXCEPT !.pending = NoChr] /\ stub.pc = "start"
      BY <1>1, <2>2 DEF Taken, RecvStart
    <2>4. \/ stub' = [t EXCEPT !.pc = "body"]
          \/ stub' = [t EXCEPT !.tx = Chr("S"), !.pc = "ack", !.then = "leave"]
          \/ stub' = [t EXCEPT !.tx = t.tx, !.pc = "ack", !.then = "start"]
          \/ stub' = t
      BY <2>1, <2>2 DEF gdb_handle_nack, gdb_send_packet, SendPacket
    <2> QED
      BY <1>0, <2>3, <2>4 DEF Types
  <1>2. CASE RecvBody
    <2>1. PICK c : CASE c.op = "#" -> stub' = [stub EXCEPT !.pc = "sum"] /\ UNCHANGED <<ier, target, toHost>>
                     [] c.op = "oversized" -> Eof(stub)
                     [] OTHER -> stub' = [stub EXCEPT !.cmd = c] /\ UNCHANGED <<ier, target, toHost>>
      BY <1>2 DEF RecvBody
    <2>2. \/ stub' = [stub EXCEPT !.pc = "sum"]
          \/ stub' = [stub EXCEPT !.tx = Chr("E"), !.pc = "ack", !.then = "leave"]
          \/ stub' = [stub EXCEPT !.cmd = c]
      BY <2>1 DEF Eof, gdb_send_packet, SendPacket
    <2>3. stub.pc = "body"
      BY <1>2 DEF RecvBody
    <2> QED
      BY <1>0, <2>2, <2>3 DEF Types
  <1>3. CASE RecvSum
    <2>1. \E pc \in {"obey", "start"} : stub' = [stub EXCEPT !.pc = pc]
      BY <1>3 DEF RecvSum
    <2> QED
      BY <1>0, <2>1 DEF Types
  <1> QED
    BY <1>1, <1>2, <1>3

(* The kernel leaves the stub only on a command that says so, with the registers and
   the memory the host last saw or wrote, and the trap flag exactly when it
   was told to step: gdb_step, gdb_continue and the end of gdb_detach are the
   only ways out. *)
THEOREM KernelResumesAsTold == Orderly => (Spec => ResumedAsTold)
  <1> SUFFICES ASSUME Orderly PROVE Spec => ResumedAsTold
    OBVIOUS
  <1>1. ASSUME GInv, [Next]_vars, ~Running, Running' PROVE Told
    <2>1. stub'.pc = "run" /\ stub.pc # "run"
      BY <1>1 DEF Running
    <2>2. stub' # stub
      BY <2>1
    <2>3. CASE gdb_recv_ack
      BY <1>1, <2>1, <2>3, RecvAckTold
    <2>4. CASE gdb_recv_ack_timeout
      <3>1. stub.pc = "ack" /\ Return(stub)
        BY <2>4 DEF gdb_recv_ack_timeout
      <3>2. stub = [stub EXCEPT !.pending = stub.pending]
        BY <1>1 DEF GInv, Types
      <3> QED
        BY <1>1, <2>1, <3>1, <3>2, ReturnTold
    <2>5. CASE Obey
      BY <1>1, <2>1, <2>5, ObeyTold
    <2>6. ~(RecvStart \/ RecvBody \/ RecvSum)
      BY <1>1, <2>1, ReadsStay
    <2>7. ~HostCommand /\ ~HostAttach /\ ~HostInterrupt /\ ~HostReceive /\ ~HostTimeout /\ ~Noise
      BY <2>2 DEF HostCommand, HostAttach, HostInterrupt, HostReceive, HostTimeout, Noise
    <2>8. ~Execute /\ ~com_interrupt
      BY <1>1 DEF Execute, com_interrupt
    <2>9. ~UNCHANGED vars
      BY <2>2 DEF vars
    <2> QED
      BY <1>1, <2>3, <2>4, <2>5, <2>6, <2>7, <2>8, <2>9 DEF Next
  <1>2. GInv /\ [Next]_vars => [~Running /\ Running' =>
            /\ host.cmd \in Resumes /\ host.pc # "idle"
            /\ target'.regs.tf = (host.cmd.op = "s")
            /\ \A r \in host.regs : target'.regs.w = r.w
            /\ host.mem \subseteq {target'.mem}]_vars
    BY <1>1 DEF Told
  <1> QED
    BY <1>2, InvHolds, PTL DEF Spec, ResumedAsTold
===============================================================================
