---------------------------- MODULE SerialProofs ----------------------------
(***************************************************************************)
(* Proofs about SerialTty.tla and the operators it is made of (Uart.tla,   *)
(* Serial.tla, NTty.tla), for every size of the buffers and FIFOs, every   *)
(* set of termios flags and whatever the peer sends and the task writes.   *)
(***************************************************************************)
EXTENDS SerialTty, SequenceTheorems, TLAPS

Fields == {"open", "throttled", "stopped", "hw_stopped", "termios", "rx", "com_open",
           "com_tty", "tx", "xchar", "acc", "ier", "fifo", "tmo", "oe", "rts", "thr",
           "thri", "over", "wire", "told", "cts", "dcts", "irr"}

Machine(m) == Fields \subseteq DOMAIN m

(* n is m but for the fields F. *)
Same(m, n, F) == Machine(n) /\ \A f \in Fields \ F : n[f] = m[f]

Text == Seq(Nat)

(* The queues within their bounds, the wire and the queue what was accepted. *)
Sound(m) ==
    /\ Machine(m)
    /\ m.ier \subseteq Source
    /\ m.rx \in Text /\ Len(m.rx) <= TTY_BUFFER_SIZE
    /\ m.tx \in Text /\ Len(m.tx) <= TX_SIZE
    /\ m.acc \in Text /\ m.wire \in Text /\ m.wire \o m.tx = m.acc
    /\ m.fifo \in Text /\ Len(m.fifo) <= FIFO_DEPTH
    /\ m.tmo => m.fifo # <<>>
    /\ m.thr \in 0 .. FIFO_DEPTH
    /\ m.xchar \in {NUL, START_CHAR, STOP_CHAR}

(* Something to send and nothing that holds it back: the interrupt is enabled. *)
Armed(m) == m.tx # <<>> /\ ~m.stopped /\ ~m.hw_stopped => "THRE" \in m.ier

-----------------------------------------------------------------------------
(* Sequences. *)
LEMMA Cut ==
    ASSUME NEW s \in Text, NEW n \in Nat, n <= Len(s)
    PROVE  /\ SubSeq(s, 1, n) \in Text /\ Len(SubSeq(s, 1, n)) = n
           /\ SubSeq(s, n + 1, Len(s)) \in Text
           /\ Len(SubSeq(s, n + 1, Len(s))) = Len(s) - n
           /\ SubSeq(s, 1, n) \o SubSeq(s, n + 1, Len(s)) = s
  <1>1. \A i \in 1 .. Len(s) : s[i] \in Nat
    BY DEF Text
  <1>2. /\ SubSeq(s, 1, n) \in Text /\ Len(SubSeq(s, 1, n)) = n
        /\ \A i \in 1 .. n : SubSeq(s, 1, n)[i] = s[i]
    <2>1. \A i \in 1 .. n : s[i] \in Nat
      BY <1>1
    <2> QED
      BY <2>1, SubSeqProperties DEF Text
  <1>3. /\ SubSeq(s, n + 1, Len(s)) \in Text
        /\ Len(SubSeq(s, n + 1, Len(s))) = Len(s) - n
        /\ \A i \in 1 .. Len(s) - n : SubSeq(s, n + 1, Len(s))[i] = s[n + i]
    <2>1. \A i \in n + 1 .. Len(s) : s[i] \in Nat
      BY <1>1
    <2>2. n + 1 \in Int /\ Len(s) \in Int
      BY DEF Text
    <2> QED
      BY <2>1, <2>2, SubSeqProperties DEF Text
  <1>4. SubSeq(s, 1, n) \o SubSeq(s, n + 1, Len(s)) = SubSeq(s, 1, Len(s))
    <2>1. Len(s) \in Nat /\ s \in Seq(Nat)
      BY DEF Text
    <2>2. 1 \in 1 .. Len(s) + 1 /\ n \in 1 - 1 .. Len(s) /\ Len(s) \in n .. Len(s)
      BY <2>1
    <2> QED
      BY <2>1, <2>2, ConcatAdjacentSubSeq
  <1>5. SubSeq(s, 1, Len(s)) = s
    BY SubSeqFull DEF Text
  <1> QED
    BY <1>2, <1>3, <1>4, <1>5

LEMMA Associative ==
    ASSUME NEW T, NEW a \in Seq(T), NEW b \in Seq(T), NEW c \in Seq(T)
    PROVE  (a \o b) \o c = a \o (b \o c)
  OBVIOUS

Regroups(a, b, c) == (a \o b) \o c = a \o (b \o c)

LEMMA Join ==
    /\ \A a, b, c \in Text : Regroups(a, b, c)
    /\ \A a, b \in Text : a \o b \in Text /\ Len(a \o b) = Len(a) + Len(b)
  <1>1. \A a, b, c \in Text : Regroups(a, b, c)
    BY Associative, SMTT(30) DEF Text, Regroups
  <1>2. \A a, b \in Text : a \o b \in Text /\ Len(a \o b) = Len(a) + Len(b)
    BY ConcatProperties, Zenon DEF Text
  <1> QED
    BY <1>1, <1>2

LEMMA Ends ==
    /\ \A s \in Text, c \in Nat : /\ Append(s, c) \in Text /\ Append(s, c) # <<>>
                                  /\ Len(Append(s, c)) = Len(s) + 1
    /\ \A s \in Text : s # <<>> => /\ Head(s) \in Nat /\ Tail(s) \in Text
                                   /\ Len(Tail(s)) = Len(s) - 1
  <1>1. \A s \in Text, c \in Nat : /\ Append(s, c) \in Text /\ Append(s, c) # <<>>
                                   /\ Len(Append(s, c)) = Len(s) + 1
    BY AppendProperties DEF Text
  <1>2. \A s \in Text : s # <<>> => /\ Head(s) \in Nat /\ Tail(s) \in Text
                                    /\ Len(Tail(s)) = Len(s) - 1
    BY HeadTailProperties DEF Text
  <1> QED
    BY <1>1, <1>2

LEMMA Empty ==
    /\ <<>> \in Text /\ Len(<<>>) = 0 /\ <<>> \o <<>> = <<>>
    /\ \A s \in Text : (Len(s) = 0 <=> s = <<>>) /\ Len(s) \in Nat
  BY DEF Text

-----------------------------------------------------------------------------
(* Registers. *)
LEMMA LatchSame ==
    ASSUME NEW m, NEW n, Machine(n)
    PROVE  Same(n, Latch(m, n), {"irr"})
  BY DEF Latch, Same, Machine, Fields

LEMMA SameTrans ==
    ASSUME NEW a, NEW b, NEW c, NEW F, NEW G, Same(a, b, F), Same(b, c, G)
    PROVE  Same(a, c, F \cup G)
  BY DEF Same

LEMMA Enable ==
    ASSUME NEW m, Machine(m)
    PROVE  /\ Same(m, tx_enable(m), {"ier", "thri", "irr"})
           /\ tx_enable(m).ier = m.ier \cup {"THRE"}
  BY DEF tx_enable, write_IER, Latch, Same, Machine, Fields

LEMMA Disable ==
    ASSUME NEW m, Machine(m)
    PROVE  /\ Same(m, tx_disable(m), {"ier", "thri", "irr"})
           /\ tx_disable(m).ier = m.ier \ {"THRE"}
  BY DEF tx_disable, write_IER, Latch, Same, Machine, Fields

LEMMA Flush ==
    ASSUME NEW m, Machine(m)
    PROVE  /\ Same(m, serial_flush(m), {"ier", "thri", "irr"})
           /\ serial_flush(m).ier \in {m.ier, m.ier \cup {"THRE"}}
           /\ Armed(serial_flush(m))
  <1>1. Same(m, m, {"ier", "thri", "irr"})
    BY DEF Same, Machine
  <1> QED
    BY <1>1, Enable DEF serial_flush, Same, Fields, Armed

-----------------------------------------------------------------------------
(* The driver.  Sizes are not zero and the characters of the model are numbers. *)
LEMMA Sizes ==
    /\ TX_SIZE \in Nat /\ XMIT_MAX \in Nat \ {0} /\ FIFO_DEPTH \in Nat \ {0}
    /\ RCVR_TRIG \in Nat \ {0} /\ TTY_BUFFER_SIZE \in Nat /\ TTY_THROTTLE_THRESH \in Nat
    /\ TTY_THROTTLE_THRESH <= TTY_BUFFER_SIZE
    /\ Bufs \subseteq Text /\ Input \subseteq Nat
  BY SerialAssumption, UartAssumption, NTtyAssumption, SerialTtyAssumption DEF Text

(* Arming, disarming and whatever else only touches the interrupt lines. *)
LEMMA InterruptSound ==
    ASSUME NEW m, NEW n, Sound(m), n.ier \subseteq Source,
           Same(m, n, {"ier", "thri", "irr"})
    PROVE  Sound(n)
  BY DEF Sound, Same, Fields

LEMMA WriteSound ==
    ASSUME NEW m, Sound(m), NEW buf \in Text
    PROVE  /\ Sound(serial_write(m, buf))
           /\ Same(m, serial_write(m, buf), {"tx", "acc", "ier", "thri", "irr"})
           /\ Armed(serial_write(m, buf))
           /\ serial_write_count(m, buf) \in Nat /\ serial_write_count(m, buf) <= Len(buf)
  <1> DEFINE n == serial_write_count(m, buf)
             s == SubSeq(buf, 1, n)
             w == [m EXCEPT !.tx = @ \o s, !.acc = @ \o s]
  <1>1. n \in Nat /\ n <= Len(buf) /\ n <= TX_SIZE - Len(m.tx)
    BY Sizes, Empty DEF Sound, serial_write_count, serial_write_room, Least
  <1>2. s \in Text /\ Len(s) = n
    BY <1>1, Cut
  <1> HIDE DEF n, s
  <1>3. /\ m.tx \o s \in Text /\ Len(m.tx \o s) <= TX_SIZE
        /\ m.acc \o s \in Text /\ m.wire \o (m.tx \o s) = m.acc \o s
    <2>1. m.tx \in Text /\ m.wire \in Text /\ m.acc \in Text /\ m.wire \o m.tx = m.acc
      BY DEF Sound
    <2>2. /\ m.tx \o s \in Text /\ Len(m.tx \o s) = Len(m.tx) + Len(s)
          /\ m.acc \o s \in Text /\ Regroups(m.wire, m.tx, s)
      BY <1>2, <2>1, Join
    <2>3. Len(m.tx) + Len(s) <= TX_SIZE
      BY <1>1, <1>2, <2>1, Empty, Sizes
    <2> QED
      BY <2>1, <2>2, <2>3 DEF Regroups
  <1>4. /\ Sound(w) /\ Same(m, w, {"tx", "acc"})
    BY <1>3 DEF Sound, Same, Machine, Fields
  <1>5. serial_write(m, buf) = serial_flush(w)
    BY DEF serial_write, n, s
  <1> HIDE DEF w
  <1>6. /\ Same(w, serial_flush(w), {"ier", "thri", "irr"})
        /\ serial_flush(w).ier \in {w.ier, w.ier \cup {"THRE"}}
        /\ Armed(serial_flush(w))
    BY <1>4, Flush DEF Sound
  <1>7. Sound(serial_flush(w))
    BY <1>4, <1>6, InterruptSound DEF Sound, Source
  <1>8. Same(m, serial_flush(w), {"tx", "acc", "ier", "thri", "irr"})
    BY <1>4, <1>6 DEF Same
  <1> QED
    BY <1>1, <1>5, <1>6, <1>7, <1>8 DEF n

(* Throttling and unthrottling the peer. *)
Told(m, n, c) ==
    /\ Sound(n)
    /\ Same(m, n, {"xchar", "rts", "ier", "thri", "irr"})
    /\ Armed(m) => Armed(n)
    /\ n.xchar = IF "IXOFF" \in m.termios THEN c ELSE m.xchar
    /\ n.rts = IF "CRTSCTS" \in m.termios THEN c = START_CHAR ELSE m.rts

LEMMA ThrottleTells ==
    ASSUME NEW m, Sound(m)
    PROVE  Told(m, serial_throttle(m), STOP_CHAR) /\ Told(m, serial_unthrottle(m), START_CHAR)
  <1>1. ASSUME NEW c \in {START_CHAR, STOP_CHAR}, NEW b \in BOOLEAN, b <=> c = START_CHAR,
               NEW x, x = IF "IXOFF" \in m.termios THEN tx_enable([m EXCEPT !.xchar = c]) ELSE m
        PROVE  Told(m, IF "CRTSCTS" \in m.termios THEN [x EXCEPT !.rts = b] ELSE x, c)
    <2> DEFINE y == [m EXCEPT !.xchar = c]
    <2>1. Sound(y) /\ Same(m, y, {"xchar"}) /\ y.xchar = c
      BY DEF Sound, Same, Machine, Fields
    <2> HIDE DEF y
    <2>2. Same(y, tx_enable(y), {"ier", "thri", "irr"}) /\ tx_enable(y).ier = y.ier \cup {"THRE"}
      BY <2>1, Enable DEF Sound
    <2>3. Sound(tx_enable(y))
      BY <2>1, <2>2, InterruptSound DEF Sound, Source
    <2>4. /\ Sound(x) /\ Same(m, x, {"xchar", "ier", "thri", "irr"})
          /\ x.ier \in {m.ier, m.ier \cup {"THRE"}}
          /\ x.xchar = IF "IXOFF" \in m.termios THEN c ELSE m.xchar
      <3>1. CASE "IXOFF" \in m.termios
        BY <1>1, <2>1, <2>2, <2>3, <3>1 DEF Same, Fields, y
      <3>2. CASE "IXOFF" \notin m.termios
        BY <1>1, <3>2 DEF Same, Sound
      <3> QED
        BY <3>1, <3>2
    <2> DEFINE z == IF "CRTSCTS" \in m.termios THEN [x EXCEPT !.rts = b] ELSE x
    <2>5. /\ Same(x, z, {"rts"}) /\ Sound(z)
          /\ z.rts = IF "CRTSCTS" \in m.termios THEN b ELSE x.rts
      BY <2>4 DEF Sound, Same, Machine, Fields
    <2> HIDE DEF z
    <2>6. /\ Same(m, z, {"xchar", "rts", "ier", "thri", "irr"})
          /\ z.ier = x.ier /\ z.xchar = x.xchar /\ x.rts = m.rts
      BY <2>4, <2>5 DEF Same, Fields
    <2>7. Armed(m) => Armed(z)
      BY <2>4, <2>6 DEF Armed, Same, Fields
    <2> QED
      BY <1>1, <2>4, <2>5, <2>6, <2>7 DEF Told, z
  <1>2. START_CHAR # STOP_CHAR
    BY DEF START_CHAR, STOP_CHAR
  <1> QED
    BY <1>1, <1>2 DEF serial_throttle, serial_unthrottle

(* The peer's last word, sent or waiting to be sent. *)
Word(m) == IF m.xchar # NUL THEN m.xchar ELSE m.told

LEMMA ModemSound ==
    ASSUME NEW m, Sound(m)
    PROVE  /\ Sound(check_modem_status(m))
           /\ Same(m, check_modem_status(m), {"dcts", "hw_stopped", "ier", "thri", "irr"})
           /\ Armed(m) /\ (m.hw_stopped => check_modem_status(m).hw_stopped)
                 => Armed(check_modem_status(m))
           /\ "CRTSCTS" \notin m.termios
                 => check_modem_status(m).hw_stopped = m.hw_stopped
  <1> DEFINE r == read_MSR(m)
             on == [r EXCEPT !.hw_stopped = FALSE]
             off == [r EXCEPT !.hw_stopped = TRUE]
  <1>1. Same(m, r, {"dcts", "irr"})
    BY DEF Sound, read_MSR, Latch, Same, Machine, Fields
  <1> HIDE DEF r
  <1>2. /\ Same(r, on, {"hw_stopped"}) /\ on.hw_stopped = FALSE
        /\ Same(r, off, {"hw_stopped"}) /\ off.hw_stopped = TRUE
    BY <1>1 DEF Same, Machine, Fields
  <1> HIDE DEF on, off
  <1>3. Sound(r) /\ Sound(on) /\ Sound(off)
    BY <1>1, <1>2, ZenonT(60) DEF Sound, Same, Fields
  <1>4. /\ Same(on, tx_disable(on), {"ier", "thri", "irr"})
        /\ tx_disable(on).ier = on.ier \ {"THRE"}
        /\ Same(off, tx_enable(off), {"ier", "thri", "irr"})
        /\ tx_enable(off).ier = off.ier \cup {"THRE"}
    BY <1>3, Enable, Disable DEF Sound
  <1>5. Sound(tx_disable(on)) /\ Sound(tx_enable(off))
    BY <1>3, <1>4, InterruptSound, ZenonT(60) DEF Sound, Source
  <1> DEFINE P(n) == /\ Sound(n)
                     /\ Same(m, n, {"dcts", "hw_stopped", "ier", "thri", "irr"})
                     /\ Armed(m) /\ (m.hw_stopped => n.hw_stopped) => Armed(n)
                     /\ "CRTSCTS" \notin m.termios => n.hw_stopped = m.hw_stopped
  <1>6. P(r)
    BY <1>1, <1>3 DEF Same, Armed, Fields
  <1>7. m.hw_stopped /\ "CRTSCTS" \in m.termios => P(tx_disable(on))
    BY <1>1, <1>2, <1>4, <1>5 DEF Same, Armed, Fields
  <1>8. "CRTSCTS" \in m.termios => P(tx_enable(off))
    BY <1>1, <1>2, <1>4, <1>5 DEF Same, Armed, Fields
  <1>9. check_modem_status(m) =
            CASE "CRTSCTS" \notin m.termios -> r
              [] "CRTSCTS" \in m.termios /\ m.hw_stopped /\ m.cts -> tx_disable(on)
              [] "CRTSCTS" \in m.termios /\ ~m.hw_stopped /\ ~m.cts -> tx_enable(off)
              [] OTHER -> r
    BY DEF check_modem_status, r, on, off
  <1> HIDE DEF P
  <1>10. P(check_modem_status(m))
    BY <1>6, <1>7, <1>8, <1>9
  <1> QED
    BY <1>10 DEF P

LEMMA XcharSound ==
    ASSUME NEW m, Sound(m)
    PROVE  /\ Sound(send_xchar(m)) /\ Word(send_xchar(m)) = Word(m)
           /\ Same(m, send_xchar(m), {"xchar", "told", "thr", "over", "thri", "irr"})
  <1>1. CASE m.xchar = NUL
    BY <1>1 DEF send_xchar, Same, Sound
  <1>2. CASE m.xchar # NUL
    <2> DEFINE y == [m EXCEPT !.told = m.xchar, !.xchar = NUL]
    <2>1. Sound(y) /\ Same(m, y, {"told", "xchar"}) /\ y.told = m.xchar /\ y.xchar = NUL
      BY DEF Sound, Same, Machine, Fields
    <2>2. send_xchar(m) = write_TX(y, <<m.xchar>>)
      BY <1>2 DEF send_xchar
    <2> HIDE DEF y
    <2>3. /\ Same(y, write_TX(y, <<m.xchar>>), {"thr", "over", "thri", "irr"})
          /\ write_TX(y, <<m.xchar>>).thr = Least(FIFO_DEPTH, y.thr + Len(<<m.xchar>>))
      BY <2>1 DEF Sound, Same, Machine, Fields, write_TX, Latch
    <2>4. Least(FIFO_DEPTH, y.thr + Len(<<m.xchar>>)) \in 0 .. FIFO_DEPTH
      BY <2>1, Sizes DEF Sound, Least
    <2>5. Sound(write_TX(y, <<m.xchar>>))
      BY <2>1, <2>3, <2>4 DEF Sound, Same, Fields
    <2> QED
      BY <1>2, <2>1, <2>2, <2>3, <2>5 DEF Same, Fields, Word
  <1> QED
    BY <1>1, <1>2

LEMMA SendSound ==
    ASSUME NEW m, Sound(m)
    PROVE  /\ Sound(send_chars(m)) /\ Word(send_chars(m)) = Word(m)
           /\ Same(m, send_chars(m), {"tx", "wire", "xchar", "told", "thr", "over",
                                      "thri", "irr", "ier"})
           /\ Armed(m) => Armed(send_chars(m))
           /\ m.stopped => send_chars(m).wire = m.wire
  <1> DEFINE x == send_xchar(m)
             n == Least(XMIT_MAX, Len(x.tx))
             s == SubSeq(x.tx, 1, n)
             rest == SubSeq(x.tx, n + 1, Len(x.tx))
             v == [x EXCEPT !.tx = SubSeq(@, n + 1, Len(@)), !.wire = @ \o s]
             y == write_TX(v, s)
  <1>1. /\ Sound(x) /\ Word(x) = Word(m)
        /\ Same(m, x, {"xchar", "told", "thr", "over", "thri", "irr"})
    BY XcharSound
  <1>2. send_chars(m) = IF x.tx = <<>> \/ x.stopped \/ x.hw_stopped THEN tx_disable(x)
                        ELSE IF y.tx = <<>> THEN tx_disable(y) ELSE y
    BY DEF send_chars
  <1> HIDE DEF x
  <1>3. n \in Nat /\ n <= Len(x.tx) /\ x.tx \in Text
    BY <1>1, Sizes, Empty, SMTT(30) DEF Sound, Least
  <1> HIDE DEF n
  <1>4. /\ s \in Text /\ rest \in Text /\ Len(s) = n /\ Len(rest) = Len(x.tx) - n
        /\ s \o rest = x.tx
    BY <1>3, Cut
  <1>5. v = [x EXCEPT !.tx = rest, !.wire = x.wire \o s]
    BY DEF v
  <1> HIDE DEF s, rest, v
  <1>6. /\ x.wire \o s \in Text /\ (x.wire \o s) \o rest = x.acc
    <2>1. x.wire \in Text /\ x.wire \o x.tx = x.acc
      BY <1>1 DEF Sound
    <2>2. Regroups(x.wire, s, rest) /\ x.wire \o s \in Text
      BY <1>4, <2>1, Join
    <2> QED
      BY <1>4, <2>1, <2>2 DEF Regroups
  <1>7. /\ Sound(v) /\ Same(x, v, {"tx", "wire"})
    <2>1. Len(rest) <= TX_SIZE
      BY <1>1, <1>3, <1>4, Empty, Sizes DEF Sound
    <2> QED
      BY <1>1, <1>4, <1>5, <1>6, <2>1 DEF Sound, Same, Machine, Fields
  <1>8. /\ Same(v, y, {"thr", "over", "thri", "irr"})
        /\ y.thr = Least(FIFO_DEPTH, v.thr + Len(s))
    BY <1>7 DEF Sound, Same, Machine, Fields, write_TX, Latch
  <1>9. Least(FIFO_DEPTH, v.thr + Len(s)) \in 0 .. FIFO_DEPTH
    BY <1>3, <1>4, <1>7, Sizes DEF Sound, Least
  <1>10. Sound(y)
    BY <1>7, <1>8, <1>9 DEF Sound, Same, Fields
  <1>11. Word(y) = Word(m)
    BY <1>1, <1>7, <1>8 DEF Word, Same, Fields
  <1>12. /\ Same(m, y, {"tx", "wire", "xchar", "told", "thr", "over", "thri", "irr"})
    BY <1>1, <1>7, <1>8 DEF Same
  <1> HIDE DEF y
  <1>13. /\ Same(x, tx_disable(x), {"ier", "thri", "irr"})
         /\ tx_disable(x).ier = x.ier \ {"THRE"}
         /\ Same(y, tx_disable(y), {"ier", "thri", "irr"})
         /\ tx_disable(y).ier = y.ier \ {"THRE"}
    BY <1>1, <1>10, Disable DEF Sound
  <1>14. Sound(tx_disable(x)) /\ Sound(tx_disable(y))
    BY <1>1, <1>10, <1>13, InterruptSound, ZenonT(30) DEF Sound
  <1> DEFINE F == {"tx", "wire", "xchar", "told", "thr", "over", "thri", "irr", "ier"}
  <1>15. CASE x.tx = <<>> \/ x.stopped \/ x.hw_stopped
    <2>1. Same(m, tx_disable(x), F) /\ Word(tx_disable(x)) = Word(m)
      BY <1>1, <1>13 DEF Same, Word, Fields
    <2>2. Armed(tx_disable(x)) /\ tx_disable(x).wire = m.wire
      BY <1>1, <1>13, <1>15 DEF Same, Armed, Fields
    <2> QED
      BY <1>2, <1>14, <1>15, <2>1, <2>2
  <1>16. CASE ~(x.tx = <<>> \/ x.stopped \/ x.hw_stopped)
    <2>1. /\ Same(m, y, F) /\ Same(m, tx_disable(y), F)
          /\ Word(tx_disable(y)) = Word(m)
      BY <1>11, <1>12, <1>13 DEF Same, Word, Fields
    <2>2. ~m.stopped /\ m.tx # <<>> /\ ~m.hw_stopped
      BY <1>1, <1>16 DEF Same, Fields
    <2>3. Armed(m) => Armed(y)
      BY <1>12, <2>2 DEF Same, Armed, Fields
    <2>4. y.tx = <<>> => Armed(tx_disable(y))
      BY <1>13 DEF Same, Armed, Fields
    <2> QED
      BY <1>2, <1>10, <1>11, <1>14, <1>16, <2>1, <2>2, <2>3, <2>4
  <1> QED
    BY <1>15, <1>16

-----------------------------------------------------------------------------
(* The line discipline. *)

(* Whether the peer was stopped by what was received, and that it was recorded. *)
Throttles(m, n) ==
    \/ /\ n.throttled = m.throttled /\ n.xchar = m.xchar /\ n.rts = m.rts
       /\ m.rx # <<>> => n.rx # <<>>
    \/ /\ n.throttled /\ n.rx # <<>>
       /\ "IXOFF" \in m.termios \/ n.xchar = m.xchar
       /\ "CRTSCTS" \in m.termios \/ n.rts = m.rts

Received == {"tx", "acc", "ier", "thri", "irr", "stopped", "rx", "throttled", "xchar", "rts"}

LEMMA OutputChars ==
    ASSUME NEW m, NEW c \in Nat
    PROVE  /\ opost_chars(m, c) \in Text /\ opost_chars(m, c) # <<>>
           /\ CaretForm(c) \in Nat /\ icrnl(m, c) \in Nat
           /\ <<c>> \in Text /\ <<CARET, CaretForm(c)>> \in Text /\ <<BEL>> \in Text
  <1>1. CaretForm(c) \in Nat /\ icrnl(m, c) \in Nat
    BY DEF CaretForm, icrnl, NL, CR
  <1>2. /\ <<NL>> \in Text /\ <<CR, NL>> \in Text /\ <<c>> \in Text /\ <<BEL>> \in Text
        /\ <<NL>> # <<>> /\ <<CR, NL>> # <<>> /\ <<c>> # <<>>
        /\ <<CARET, CaretForm(c)>> \in Text
    BY <1>1 DEF Text, NL, CR, BEL, CARET
  <1>3. opost_chars(m, c) \in {<<NL>>, <<CR, NL>>, <<c>>}
    BY DEF opost_chars
  <1> QED
    BY <1>1, <1>2, <1>3

(* An echo is a write or nothing. *)
LEMMA EchoSound ==
    ASSUME NEW m, Sound(m), NEW c \in Nat
    PROVE  /\ Sound(echo(m, c)) /\ Same(m, echo(m, c), {"tx", "acc", "ier", "thri", "irr"})
           /\ Armed(m) => Armed(echo(m, c))
  <1>1. echo(m, c) = m \/ \E b \in Text : echo(m, c) = serial_write(m, b)
    BY OutputChars DEF echo, opost
  <1>2. CASE echo(m, c) = m
    BY <1>2 DEF Sound, Same
  <1>3. CASE \E b \in Text : echo(m, c) = serial_write(m, b)
    BY <1>3, WriteSound
  <1> QED
    BY <1>1, <1>2, <1>3

LEMMA StoreSound ==
    ASSUME NEW m, Sound(m), NEW c \in Nat
    PROVE  /\ Sound(recv_store(m, c)) /\ Throttles(m, recv_store(m, c))
           /\ Same(m, recv_store(m, c), {"ier", "thri", "irr", "rx", "throttled", "xchar", "rts"})
           /\ Armed(m) => Armed(recv_store(m, c))
  <1> DEFINE new == IF Len(m.rx) < TTY_BUFFER_SIZE THEN Append(m.rx, c) ELSE m.rx
             put == [m EXCEPT !.rx = new]
             fl == serial_flush(put)
             set == [fl EXCEPT !.throttled = TRUE]
  <1>1. recv_store(m, c) = IF TTY_BUFFER_SIZE - Len(fl.rx) < TTY_THROTTLE_THRESH
                           THEN throttle_tty(fl) ELSE fl
    BY DEF recv_store, n_tty_recv_room
  <1>2. /\ new \in Text /\ Len(new) <= TTY_BUFFER_SIZE /\ (m.rx # <<>> => new # <<>>)
    <2>1. /\ Append(m.rx, c) \in Text /\ Append(m.rx, c) # <<>>
          /\ Len(Append(m.rx, c)) = Len(m.rx) + 1
      BY Ends DEF Sound
    <2> QED
      BY <2>1, Sizes, Empty DEF Sound
  <1> HIDE DEF new
  <1>3. Sound(put) /\ Same(m, put, {"rx"}) /\ put.rx = new
    BY <1>2 DEF Sound, Same, Machine, Fields
  <1> HIDE DEF put
  <1>4. /\ Same(put, fl, {"ier", "thri", "irr"})
        /\ fl.ier \in {put.ier, put.ier \cup {"THRE"}} /\ Armed(fl)
    BY <1>3, Flush DEF Sound
  <1> HIDE DEF fl
  <1>5. Sound(fl) /\ fl.rx = new /\ fl.throttled = m.throttled /\ fl.xchar = m.xchar
        /\ fl.rts = m.rts /\ fl.termios = m.termios
        /\ Same(m, fl, {"ier", "thri", "irr", "rx"})
    <2>1. Sound(fl)
      BY <1>3, <1>4, InterruptSound DEF Sound, Source
    <2> QED
      BY <1>3, <1>4, <2>1 DEF Same, Fields
  <1>6. Throttles(m, fl)
    BY <1>2, <1>5 DEF Throttles
  <1>7. Sound(set) /\ Same(fl, set, {"throttled"}) /\ set.throttled
    BY <1>5 DEF Sound, Same, Machine, Fields
  <1>8. throttle_tty(fl) = IF fl.throttled THEN fl ELSE serial_throttle(set)
    BY DEF throttle_tty
  <1> HIDE DEF set
  <1>9. Told(set, serial_throttle(set), STOP_CHAR)
    BY <1>7, ThrottleTells
  <1>10. Armed(serial_throttle(set))
    BY <1>4, <1>7, <1>9 DEF Told, Armed, Same, Fields
  <1>11. /\ serial_throttle(set).throttled /\ serial_throttle(set).rx = new
         /\ "IXOFF" \in m.termios \/ serial_throttle(set).xchar = m.xchar
         /\ "CRTSCTS" \in m.termios \/ serial_throttle(set).rts = m.rts
         /\ Same(m, serial_throttle(set), {"ier", "thri", "irr", "rx", "throttled", "xchar", "rts"})
    BY <1>5, <1>7, <1>9 DEF Told, Same, Fields
  <1>12. TTY_BUFFER_SIZE - Len(new) < TTY_THROTTLE_THRESH => new # <<>>
    BY <1>2, Empty, Sizes
  <1>13. Sound(serial_throttle(set))
    BY <1>9 DEF Told
  <1>14. Same(m, fl, {"ier", "thri", "irr", "rx", "throttled", "xchar", "rts"})
    BY <1>5 DEF Same
  <1>15. new # <<>> => Throttles(m, serial_throttle(set))
    BY <1>11 DEF Throttles
  <1> QED
    BY <1>1, <1>4, <1>5, <1>6, <1>8, <1>10, <1>11, <1>12, <1>13, <1>14, <1>15

LEMMA StartStop ==
    ASSUME NEW m, Sound(m)
    PROVE  /\ Sound(start_tty(m)) /\ Same(m, start_tty(m), {"stopped", "ier", "thri", "irr"})
           /\ Armed(m) => Armed(start_tty(m))
           /\ Sound(stop_tty(m)) /\ Same(m, stop_tty(m), {"stopped", "ier", "thri", "irr"})
           /\ Armed(stop_tty(m)) /\ stop_tty(m).stopped
  <1> DEFINE on == [m EXCEPT !.stopped = FALSE]
             off == [m EXCEPT !.stopped = TRUE]
  <1>1. /\ Sound(on) /\ Same(m, on, {"stopped"})
        /\ Sound(off) /\ Same(m, off, {"stopped"}) /\ off.stopped
    BY DEF Sound, Same, Machine, Fields
  <1>2. /\ start_tty(m) = IF m.stopped THEN IF on.tx # <<>> THEN tx_enable(on) ELSE on ELSE m
        /\ stop_tty(m) = IF m.stopped THEN m ELSE tx_disable(off)
    BY DEF start_tty, stop_tty, serial_start, serial_stop
  <1> HIDE DEF on, off
  <1>3. /\ Same(on, tx_enable(on), {"ier", "thri", "irr"})
        /\ tx_enable(on).ier = on.ier \cup {"THRE"}
        /\ Same(off, tx_disable(off), {"ier", "thri", "irr"})
        /\ tx_disable(off).ier = off.ier \ {"THRE"}
    BY <1>1, Enable, Disable DEF Sound
  <1>4. Sound(tx_enable(on)) /\ Sound(tx_disable(off))
    BY <1>1, <1>3, InterruptSound DEF Sound, Source
  <1> DEFINE F == {"stopped", "ier", "thri", "irr"}
  <1>5. Same(m, m, F) /\ Same(m, on, F) /\ Same(m, tx_enable(on), F) /\ Same(m, tx_disable(off), F)
    BY <1>1, <1>3 DEF Same, Sound
  <1>6. Armed(tx_enable(on)) /\ Armed(tx_disable(off)) /\ tx_disable(off).stopped
    BY <1>1, <1>3 DEF Same, Armed, Fields
  <1>7. on.tx = <<>> => Armed(on)
    BY DEF Armed
  <1>8. m.stopped => Armed(m)
    BY DEF Armed
  <1> QED
    BY <1>1, <1>2, <1>4, <1>5, <1>6, <1>7, <1>8

LEMMA RecvSound ==
    ASSUME NEW m, Sound(m), NEW c \in Nat
    PROVE  /\ Sound(n_tty_recv(m, c)) /\ Throttles(m, n_tty_recv(m, c))
           /\ Same(m, n_tty_recv(m, c), Received)
           /\ Armed(m) => Armed(n_tty_recv(m, c))
           /\ "IXON" \in m.termios /\ c = STOP_CHAR => n_tty_recv(m, c).stopped
           /\ m.stopped /\ ~("IXON" \in m.termios /\ c = START_CHAR)
                 => n_tty_recv(m, c).stopped
  <1> DEFINE d == icrnl(m, c)
             e == echo(m, d)
             start == "IXON" \in m.termios /\ c = START_CHAR
             stop == "IXON" \in m.termios /\ c = STOP_CHAR
             P(n) == /\ Sound(n) /\ Throttles(m, n) /\ Same(m, n, Received)
                     /\ Armed(m) => Armed(n)
                     /\ stop => n.stopped
                     /\ m.stopped /\ ~start => n.stopped
  <1>1. d \in Nat /\ <<BEL>> \in Text
    BY OutputChars
  <1>2. n_tty_recv(m, c) =
            CASE start -> start_tty(m)
              [] stop -> stop_tty(m)
              [] OTHER -> IF "ECHO" \notin m.termios THEN recv_store(m, d)
                          ELSE IF n_tty_recv_room(m) <= 1 THEN write_char(m, BEL)
                          ELSE recv_store(e, d)
    BY DEF n_tty_recv
  <1> HIDE DEF d
  <1>3. Sound(e) /\ Same(m, e, {"tx", "acc", "ier", "thri", "irr"}) /\ (Armed(m) => Armed(e))
    BY <1>1, EchoSound
  <1> HIDE DEF e
  <1>4. ~(start /\ stop)
    BY DEF START_CHAR, STOP_CHAR
  <1>5. start => P(start_tty(m))
    BY <1>4, StartStop DEF Throttles, Same, Fields, Received
  <1>6. P(stop_tty(m))
    BY StartStop DEF Throttles, Same, Fields, Received
  <1>7. ~stop => P(recv_store(m, d))
    BY <1>1, StoreSound DEF Same, Fields, Received
  <1>8. ~stop => P(write_char(m, BEL))
    BY <1>1, WriteSound DEF Same, Fields, Received, write_char, Throttles
  <1>9. ~stop => P(recv_store(e, d))
    <2> DEFINE n == recv_store(e, d)
    <2>1. /\ Sound(n) /\ Throttles(e, n) /\ (Armed(e) => Armed(n))
          /\ Same(e, n, {"ier", "thri", "irr", "rx", "throttled", "xchar", "rts"})
      BY <1>1, <1>3, StoreSound
    <2> HIDE DEF n
    <2>2. /\ e.throttled = m.throttled /\ e.xchar = m.xchar /\ e.rts = m.rts
          /\ e.rx = m.rx /\ e.termios = m.termios /\ n.stopped = m.stopped
      BY <1>3, <2>1 DEF Same, Fields
    <2>3. Throttles(m, n)
      BY <2>1, <2>2 DEF Throttles
    <2>4. Same(m, n, Received)
      BY <1>3, <2>1 DEF Same, Received
    <2> QED
      BY <1>3, <2>1, <2>2, <2>3, <2>4 DEF n
  <1> HIDE DEF P, start, stop
  <1>10. P(n_tty_recv(m, c))
    BY <1>2, <1>5, <1>6, <1>7, <1>8, <1>9
  <1> QED
    BY <1>10 DEF P, start, stop

-----------------------------------------------------------------------------
(* The UART. *)
LEMMA RegisterSound ==
    ASSUME NEW m, Sound(m)
    PROVE  /\ Sound(read_IIR(m)) /\ Same(m, read_IIR(m), {"thri", "irr"})
           /\ Sound(read_LSR(m)) /\ Same(m, read_LSR(m), {"oe", "irr"})
           /\ Sound(ToggleCts(m)) /\ Same(m, ToggleCts(m), {"cts", "dcts", "irr"})
           /\ m.fifo # <<>> => /\ Sound(ReceiveTimeout(m))
                               /\ Same(m, ReceiveTimeout(m), {"tmo", "irr"})
           /\ m.thr > 0 => /\ Sound(Transmit(m))
                           /\ Same(m, Transmit(m), {"thr", "thri", "irr"})
  <1>1. Sound(read_IIR(m)) /\ Same(m, read_IIR(m), {"thri", "irr"})
    <2>1. Same(m, read_IIR(m), {"thri", "irr"})
      BY DEF Sound, Same, Machine, Fields, read_IIR, Latch
    <2> QED
      BY <2>1 DEF Sound, Same, Fields
  <1>2. Sound(read_LSR(m)) /\ Same(m, read_LSR(m), {"oe", "irr"})
    <2>1. Same(m, read_LSR(m), {"oe", "irr"})
      BY DEF Sound, Same, Machine, Fields, read_LSR, Latch
    <2> QED
      BY <2>1 DEF Sound, Same, Fields
  <1>3. Sound(ToggleCts(m)) /\ Same(m, ToggleCts(m), {"cts", "dcts", "irr"})
    <2>1. Same(m, ToggleCts(m), {"cts", "dcts", "irr"})
      BY DEF Sound, Same, Machine, Fields, ToggleCts, Latch
    <2> QED
      BY <2>1 DEF Sound, Same, Fields
  <1>4. ASSUME m.fifo # <<>>
        PROVE  Sound(ReceiveTimeout(m)) /\ Same(m, ReceiveTimeout(m), {"tmo", "irr"})
    <2>1. Same(m, ReceiveTimeout(m), {"tmo", "irr"})
      BY DEF Sound, Same, Machine, Fields, ReceiveTimeout, Latch
    <2> QED
      BY <1>4, <2>1 DEF Sound, Same, Fields
  <1>5. ASSUME m.thr > 0
        PROVE  Sound(Transmit(m)) /\ Same(m, Transmit(m), {"thr", "thri", "irr"})
    <2>1. Same(m, Transmit(m), {"thr", "thri", "irr"}) /\ Transmit(m).thr = m.thr - 1
      BY DEF Sound, Same, Machine, Fields, Transmit, Latch
    <2>2. m.thr - 1 \in 0 .. FIFO_DEPTH
      BY <1>5, Sizes DEF Sound
    <2> QED
      BY <2>1, <2>2 DEF Sound, Same, Fields
  <1> QED
    BY <1>1, <1>2, <1>3, <1>4, <1>5

LEMMA FifoSound ==
    ASSUME NEW m, Sound(m)
    PROVE  /\ \A c \in Nat : /\ Sound(Receive(m, c)) /\ Receive(m, c).fifo # <<>>
                             /\ Same(m, Receive(m, c), {"fifo", "oe", "irr"})
           /\ m.fifo # <<>> => /\ Sound(read_RX(m)) /\ Head(m.fifo) \in Nat
                               /\ Same(m, read_RX(m), {"fifo", "tmo", "irr"})
  <1>1. m.fifo \in Text /\ Len(m.fifo) <= FIFO_DEPTH
    BY DEF Sound
  <1>2. ASSUME NEW c \in Nat
        PROVE  /\ Sound(Receive(m, c)) /\ Receive(m, c).fifo # <<>>
               /\ Same(m, Receive(m, c), {"fifo", "oe", "irr"})
    <2> DEFINE f == IF Len(m.fifo) < FIFO_DEPTH THEN Append(m.fifo, c) ELSE m.fifo
    <2>1. f \in Text /\ f # <<>> /\ Len(f) <= FIFO_DEPTH
      <3>1. /\ Append(m.fifo, c) \in Text /\ Append(m.fifo, c) # <<>>
            /\ Len(Append(m.fifo, c)) = Len(m.fifo) + 1 /\ Len(m.fifo) \in Nat
            /\ Len(m.fifo) = 0 <=> m.fifo = <<>>
        BY <1>1, Ends, Empty, Zenon
      <3>2. FIFO_DEPTH \in Nat \ {0}
        BY Sizes
      <3>3. CASE Len(m.fifo) < FIFO_DEPTH
        BY <3>1, <3>2, <3>3
      <3>4. CASE ~(Len(m.fifo) < FIFO_DEPTH)
        BY <1>1, <3>1, <3>2, <3>4
      <3> QED
        BY <3>3, <3>4
    <2>2. Same(m, Receive(m, c), {"fifo", "oe", "irr"}) /\ Receive(m, c).fifo = f
      BY DEF Sound, Same, Machine, Fields, Receive, Latch
    <2> HIDE DEF f
    <2> QED
      BY <2>1, <2>2 DEF Sound, Same, Fields
  <1>3. ASSUME m.fifo # <<>>
        PROVE  /\ Sound(read_RX(m)) /\ Head(m.fifo) \in Nat
               /\ Same(m, read_RX(m), {"fifo", "tmo", "irr"})
    <2>1. /\ Head(m.fifo) \in Nat /\ Tail(m.fifo) \in Text /\ Len(Tail(m.fifo)) <= FIFO_DEPTH
      <3>1. /\ Head(m.fifo) \in Nat /\ Tail(m.fifo) \in Text
            /\ Len(Tail(m.fifo)) = Len(m.fifo) - 1 /\ Len(m.fifo) \in Nat
        BY <1>1, <1>3, Ends, Empty, Zenon
      <3> QED
        BY <1>1, <3>1, Sizes
    <2>2. /\ Same(m, read_RX(m), {"fifo", "tmo", "irr"}) /\ read_RX(m).fifo = Tail(m.fifo)
          /\ read_RX(m).tmo = FALSE
      BY DEF Sound, Same, Machine, Fields, read_RX, Latch
    <2> QED
      BY <2>1, <2>2 DEF Sound, Same, Fields
  <1> QED
    BY <1>2, <1>3

(* Opening the port, successfully or not. *)
LEMMA OpenSound ==
    ASSUME NEW m, Sound(m)
    PROVE  /\ Sound(tty_open_internal(m)) /\ Armed(tty_open_internal(m))
           /\ tty_open_internal(m).open /\ ~tty_open_internal(m).throttled
           /\ tty_open_internal(m).rts /\ tty_open_internal(m).xchar = NUL
           /\ tty_open_internal(m).told = m.told /\ tty_open_internal(m).wire = <<>>
           /\ tty_open_internal(m).termios = DefaultTermios
           /\ ~tty_open_internal(m).hw_stopped /\ tty_open_eio(m).termios = DefaultTermios
           /\ Sound(tty_open_eio(m)) /\ Armed(tty_open_eio(m)) /\ tty_open_eio(m).wire = <<>>
           /\ Same(m, tty_open_eio(m), {"termios", "rx", "tx", "xchar", "acc", "wire", "ier"})
           /\ tty_open_eio(m).xchar = NUL
  <1> DEFINE a == [m EXCEPT !.termios = DefaultTermios]
             b == n_tty_open(a)
             c == serial_open(b)
             d == [c EXCEPT !.open = TRUE, !.throttled = FALSE, !.stopped = FALSE,
                            !.hw_stopped = FALSE]
             e == serial_open_eio(b)
  <1>1. Sound(a) /\ Same(m, a, {"termios"}) /\ a.termios = DefaultTermios
    BY DEF Sound, Same, Machine, Fields
  <1> HIDE DEF a
  <1>2. Sound(b) /\ Same(a, b, {"rx"})
    <2>1. Same(a, b, {"rx"}) /\ b.rx = <<>>
      BY <1>1 DEF Sound, Same, Machine, Fields, n_tty_open
    <2>2. <<>> \in Text /\ Len(<<>>) <= TTY_BUFFER_SIZE
      BY Empty, Sizes
    <2> HIDE DEF b
    <2> QED
      BY <1>1, <2>1, <2>2 DEF Sound, Same, Fields
  <1> HIDE DEF b
  <1>3. 0 \in 0 .. FIFO_DEPTH /\ 0 <= FIFO_DEPTH /\ 0 <= TX_SIZE
    BY Sizes
  <1>4. /\ Sound(c) /\ c.tx = <<>> /\ c.wire = <<>> /\ c.xchar = NUL /\ c.rts /\ c.told = b.told
        /\ c.termios = b.termios
    <2>1. /\ Machine(c) /\ c.tx = <<>> /\ c.wire = <<>> /\ c.acc = <<>> /\ c.xchar = NUL
          /\ c.rts = TRUE /\ c.told = b.told /\ c.ier = {"RDA", "RLS", "MS"} /\ c.fifo = <<>>
          /\ c.tmo = FALSE /\ c.thr = 0 /\ c.rx = b.rx /\ c.termios = b.termios
      BY <1>2 DEF Sound, Machine, Fields, serial_open
    <2> HIDE DEF c
    <2> QED
      BY <1>2, <1>3, <2>1, Empty DEF Sound, Source
  <1> HIDE DEF c
  <1>5. /\ Sound(d) /\ d.open /\ ~d.throttled /\ ~d.hw_stopped
        /\ Same(c, d, {"open", "throttled", "stopped", "hw_stopped"})
    BY <1>4 DEF Sound, Same, Machine, Fields
  <1>6. tty_open_internal(m) = d /\ tty_open_eio(m) = e
    BY DEF tty_open_internal, tty_open_eio, a, b, c
  <1>7. /\ Same(b, e, {"tx", "xchar", "acc", "wire", "ier"}) /\ e.tx = <<>> /\ e.wire = <<>>
        /\ e.acc = <<>> /\ e.xchar = NUL /\ e.ier = {}
    BY <1>2 DEF Sound, Same, Machine, Fields, serial_open_eio
  <1> HIDE DEF d, e
  <1>8. Sound(e)
    BY <1>2, <1>3, <1>7, Empty DEF Sound, Same, Fields
  <1>9. /\ d.rts /\ d.xchar = NUL /\ d.told = m.told /\ d.wire = <<>> /\ d.tx = <<>>
        /\ d.termios = DefaultTermios /\ e.termios = DefaultTermios
    BY <1>1, <1>2, <1>4, <1>5, <1>7 DEF Same, Fields
  <1>10. Same(m, e, {"termios", "rx", "tx", "xchar", "acc", "wire", "ier"})
    BY <1>1, <1>2, <1>7 DEF Same
  <1> QED
    BY <1>5, <1>6, <1>7, <1>8, <1>9, <1>10 DEF Armed

-----------------------------------------------------------------------------
(* The inductive invariants. *)

TaskFields == {"pc", "fd", "n", "buf", "out", "nonblock"}
IsrFields == {"pc", "id", "thre", "count", "npass"}
HistFields == {"arrived", "lost", "got", "calls", "cts", "said", "flow"}

(* The machine is sound, and the handler reads the receiver only with data in it. *)
SInv ==
    /\ Sound(k)
    /\ TaskFields \subseteq DOMAIN task /\ IsrFields \subseteq DOMAIN isr
    /\ HistFields \subseteq DOMAIN hist
    /\ task.pc \in TaskPc /\ isr.pc \in IsrPc
    /\ task.buf \in Text /\ task.out \in Text
    /\ task.pc = "write_char" => task.buf # <<>> /\ task.out # <<>>
    /\ isr.pc = "rx" \/ (isr.pc = "lsr" /\ isr.id \in {"RDA", "TIMEOUT"}) => k.fifo # <<>>

(* Nothing happens on a port before it was opened. *)
OInv ==
    /\ k.com_open \/ isr.pc # "idle" \/ task.fd \/ task.pc # "user" => k.open
    /\ ~k.open => hist.flow = NUL /\ ~k.throttled /\ k.told = NUL /\ k.xchar = NUL

(* Output is stopped from the peer's XOFF to its XON. *)
FInv == hist.flow = STOP_CHAR => k.stopped

(* A peer that was stopped is released by the reader, and input is throttled *)
(* only while there is something to read or the reader is about to look.     *)
Peer ==
    /\ Word(k) = STOP_CHAR => /\ "IXOFF" \in k.termios
                              /\ k.throttled \/ task.pc = "read_unthrottle_driver"
    /\ k.open /\ ~k.rts => /\ "CRTSCTS" \in k.termios
                           /\ k.throttled \/ task.pc = "read_unthrottle_driver"
    /\ k.throttled => k.rx # <<>> \/ task.pc \in {"read_room", "read_unthrottle"}

(* TCSETS does not drop a kind of flow control while the peer is held by it. *)
FlowKept == k.throttled => k.termios \cap {"IXOFF", "CRTSCTS"} \subseteq k.termios'

(* CTS, once it has stopped the output, does not come back. *)
CtsHeld == k.hw_stopped => k.hw_stopped'

(* No termios that can be installed has CRTSCTS. *)
NoRtsCts == \A t \in TermiosChoices \cup {DefaultTermios} : "CRTSCTS" \notin t

(* Then CTS never stops the output. *)
CtsFree == "CRTSCTS" \notin k.termios /\ ~k.hw_stopped

(* What the step of an action shows. *)
Good ==
    /\ SInv' /\ OInv'
    /\ FInv => FInv'
    /\ Peer /\ FlowKept => Peer'
    /\ Armed(k) /\ CtsHeld => Armed(k')
    /\ NoRtsCts /\ CtsFree => CtsFree'
    /\ k.stopped => k'.wire = k.wire \/ k'.wire = <<>>

Devices == {"irr", "thri", "oe", "fifo", "tmo", "thr", "over", "cts", "dcts", "ier", "tx",
            "acc", "wire", "hw_stopped", "com_tty", "com_open"}

(* A step that leaves flow control alone. *)
LEMMA Calm ==
    ASSUME OInv, Same(k, k', Devices), k'.com_open => k.com_open,
           "CRTSCTS" \notin k.termios => k'.hw_stopped = k.hw_stopped,
           hist'.flow = hist.flow, isr'.pc # "idle" => k.open, task'.fd => k.open,
           \/ task'.pc = task.pc
           \/ /\ k.open
              /\ task.pc \notin {"read_room", "read_unthrottle", "read_unthrottle_driver"}
    PROVE  OInv' /\ (FInv => FInv') /\ (Peer => Peer') /\ (CtsFree => CtsFree')
  <1>1. /\ k'.open = k.open /\ k'.throttled = k.throttled /\ k'.told = k.told
        /\ k'.xchar = k.xchar /\ k'.stopped = k.stopped /\ k'.termios = k.termios
        /\ k'.rts = k.rts /\ k'.rx = k.rx
    BY DEF Same, Fields, Devices
  <1>2. OInv'
    BY <1>1 DEF OInv
  <1>3. FInv => FInv'
    BY <1>1 DEF FInv
  <1>4. Word(k)' = Word(k)
    BY <1>1 DEF Word
  <1>5. Peer => Peer'
    BY <1>1, <1>4 DEF Peer
  <1>6. CtsFree => CtsFree'
    BY <1>1 DEF CtsFree
  <1> QED
    BY <1>2, <1>3, <1>5, <1>6

(* The interrupt enables and the output queue are as they were. *)
LEMMA Quiet ==
    ASSUME Same(k, k', Devices \ {"ier", "tx", "hw_stopped", "wire"})
    PROVE  (Armed(k) => Armed(k')) /\ k'.wire = k.wire
  BY DEF Same, Fields, Devices, Armed

LEMMA BootSound == Sound(Boot)
  <1>1. /\ Machine(Boot) /\ Boot.rx = <<>> /\ Boot.tx = <<>> /\ Boot.acc = <<>>
        /\ Boot.wire = <<>> /\ Boot.fifo = <<>> /\ Boot.tmo = FALSE /\ Boot.thr = 0
        /\ Boot.xchar = NUL /\ Boot.ier = {}
    BY DEF Boot, Machine, Fields
  <1>2. 0 \in 0 .. FIFO_DEPTH /\ 0 <= FIFO_DEPTH /\ 0 <= TX_SIZE /\ 0 <= TTY_BUFFER_SIZE
    BY Sizes
  <1> QED
    BY <1>1, <1>2, Empty DEF Sound

LEMMA InitGood == Init => SInv /\ OInv /\ FInv /\ Peer /\ Armed(k) /\ (NoRtsCts => CtsFree)
  <1> SUFFICES ASSUME Init
               PROVE  SInv /\ OInv /\ FInv /\ Peer /\ Armed(k) /\ (NoRtsCts => CtsFree)
    OBVIOUS
  <1>1. /\ Boot.tx = <<>> /\ Boot.open = FALSE /\ Boot.throttled = FALSE /\ Boot.told = NUL
        /\ Boot.xchar = NUL /\ Boot.com_open = FALSE /\ Boot.stopped = FALSE
        /\ Boot.hw_stopped = FALSE /\ Boot.termios = {}
    BY DEF Boot
  <1>2. /\ Sound(k) /\ Armed(k) /\ ~k.throttled /\ k.xchar = NUL /\ k.told = NUL
        /\ IF Opened THEN k.open /\ k.rts ELSE ~k.open /\ ~k.com_open
        /\ ~k.hw_stopped /\ k.termios \in {{}, DefaultTermios}
    <2>1. CASE Opened
      BY <1>1, <2>1, BootSound, OpenSound DEF Init
    <2>2. CASE ~Opened
      BY <1>1, <2>2, BootSound DEF Init, Armed
    <2> QED
      BY <2>1, <2>2
  <1>3. /\ TaskFields \subseteq DOMAIN task /\ IsrFields \subseteq DOMAIN isr
        /\ HistFields \subseteq DOMAIN hist
        /\ task.pc = "user" /\ isr.pc = "idle" /\ task.fd = Opened
        /\ task.buf = <<>> /\ task.out = <<>> /\ hist.flow = NUL
    BY DEF Init, TaskFields, IsrFields, HistFields
  <1>4. SInv
    BY <1>2, <1>3, Empty DEF SInv, TaskPc, IsrPc
  <1>5. OInv
    BY <1>2, <1>3, SerialTtyAssumption DEF OInv
  <1>6. NUL # STOP_CHAR
    BY DEF NUL, STOP_CHAR
  <1>7. FInv /\ Peer
    BY <1>2, <1>3, <1>6 DEF FInv, Peer, Word
  <1> QED
    BY <1>2, <1>4, <1>5, <1>7 DEF NoRtsCts, CtsFree

(* A system call counts itself and leaves the rest of the history alone. *)
LEMMA CallHist ==
    ASSUME SInv, NEW name, Call(name)
    PROVE  /\ HistFields \subseteq DOMAIN hist' /\ hist'.flow = hist.flow
           /\ isr.pc = "idle" /\ task.pc = "user"
  BY DEF SInv, HistFields, Call, Task

LEMMA HwGood ==
    ASSUME SInv, OInv, HwNext
    PROVE  Good
  <1>1. ASSUME NEW F, F \subseteq Devices \ {"ier", "tx", "hw_stopped", "wire", "com_open"},
               Same(k, k', F), Sound(k'), k.fifo # <<>> => k'.fifo # <<>>,
               UNCHANGED <<task, isr>>, HistFields \subseteq DOMAIN hist', hist'.flow = hist.flow
        PROVE  Good
    <2>1. Same(k, k', Devices) /\ Same(k, k', Devices \ {"ier", "tx", "hw_stopped", "wire"})
      BY <1>1 DEF Same
    <2>2. k'.com_open = k.com_open /\ k'.hw_stopped = k.hw_stopped
      BY <1>1 DEF Same, Fields
    <2>3. SInv'
      BY <1>1 DEF SInv
    <2>4. OInv' /\ (FInv => FInv') /\ (Peer => Peer') /\ (CtsFree => CtsFree')
      <3>1. /\ isr'.pc # "idle" => k.open
            /\ task'.fd => k.open
            /\ task'.pc = task.pc
        BY <1>1 DEF OInv
      <3> QED
        BY <1>1, <2>1, <2>2, <3>1, Calm
    <2>5. (Armed(k) => Armed(k')) /\ k'.wire = k.wire
      BY <2>1, Quiet
    <2> QED
      BY <2>3, <2>4, <2>5 DEF Good
  <1>2. CASE HwReceive
    <2>1. PICK c \in Input : k' = Receive(k, c)
      BY <1>2 DEF HwReceive
    <2>2. c \in Nat
      BY Sizes
    <2>3. Sound(k') /\ k'.fifo # <<>> /\ Same(k, k', {"fifo", "oe", "irr"})
      BY <2>1, <2>2, FifoSound DEF SInv
    <2>4. UNCHANGED <<task, isr>> /\ HistFields \subseteq DOMAIN hist' /\ hist'.flow = hist.flow
      BY <1>2 DEF HwReceive, SInv, HistFields
    <2>5. {"fifo", "oe", "irr"} \subseteq Devices \ {"ier", "tx", "hw_stopped", "wire", "com_open"}
      BY DEF Devices
    <2> QED
      BY <1>1, <2>3, <2>4, <2>5
  <1>3. CASE HwTimeout
    <2>1. Sound(k') /\ Same(k, k', {"tmo", "irr"})
      BY <1>3, RegisterSound DEF HwTimeout, SInv
    <2>2. k'.fifo = k.fifo
      BY <2>1 DEF Same, Fields
    <2>3. {"tmo", "irr"} \subseteq Devices \ {"ier", "tx", "hw_stopped", "wire", "com_open"}
      BY DEF Devices
    <2> QED
      BY <1>1, <1>3, <2>1, <2>2, <2>3 DEF HwTimeout, SInv
  <1>4. CASE HwTransmit
    <2>1. Sound(k') /\ Same(k, k', {"thr", "thri", "irr"})
      BY <1>4, RegisterSound DEF HwTransmit, SInv
    <2>2. k'.fifo = k.fifo
      BY <2>1 DEF Same, Fields
    <2>3. {"thr", "thri", "irr"} \subseteq Devices \ {"ier", "tx", "hw_stopped", "wire", "com_open"}
      BY DEF Devices
    <2> QED
      BY <1>1, <1>4, <2>1, <2>2, <2>3 DEF HwTransmit, SInv
  <1>5. CASE HwCts
    <2>1. Sound(k') /\ Same(k, k', {"cts", "dcts", "irr"})
      BY <1>5, RegisterSound DEF HwCts, SInv
    <2>2. k'.fifo = k.fifo
      BY <2>1 DEF Same, Fields
    <2>3. {"cts", "dcts", "irr"} \subseteq Devices \ {"ier", "tx", "hw_stopped", "wire", "com_open"}
      BY DEF Devices
    <2>4. UNCHANGED <<task, isr>> /\ HistFields \subseteq DOMAIN hist' /\ hist'.flow = hist.flow
      BY <1>5 DEF HwCts, SInv, HistFields
    <2> QED
      BY <1>1, <2>1, <2>2, <2>3, <2>4
  <1> QED
    BY <1>2, <1>3, <1>4, <1>5 DEF HwNext

LEMMA IsrGood ==
    ASSUME SInv, OInv, IsrNext
    PROVE  Good
  <1>1. UNCHANGED task
    BY DEF IsrNext, IrqEnter, IsrIir, IsrLsr, IsrRx, IsrRxLsr, IsrMsr, IsrTx, IsrPass
  (* The steps that leave flow control and the transmitter alone. *)
  <1>2. ASSUME NEW F, F \subseteq Devices \ {"ier", "tx", "hw_stopped", "wire", "com_open"},
               Same(k, k', F), Sound(k'), IsrFields \subseteq DOMAIN isr', isr'.pc \in IsrPc,
               isr'.pc # "idle" => k.open, hist' = hist,
               isr'.pc = "rx" \/ (isr'.pc = "lsr" /\ isr'.id \in {"RDA", "TIMEOUT"})
                  => k'.fifo # <<>>
        PROVE  Good
    <2>1. Same(k, k', Devices) /\ Same(k, k', Devices \ {"ier", "tx", "hw_stopped", "wire"})
      BY <1>2 DEF Same
    <2>2. k'.com_open = k.com_open /\ k'.hw_stopped = k.hw_stopped
      BY <1>2 DEF Same, Fields
    <2>3. SInv'
      BY <1>1, <1>2 DEF SInv
    <2>4. OInv' /\ (FInv => FInv') /\ (Peer => Peer') /\ (CtsFree => CtsFree')
      <3>1. (task'.fd => k.open) /\ task'.pc = task.pc /\ hist'.flow = hist.flow
        BY <1>1, <1>2 DEF OInv
      <3> QED
        BY <1>2, <2>1, <2>2, <3>1, Calm
    <2>5. (Armed(k) => Armed(k')) /\ k'.wire = k.wire
      BY <2>1, Quiet
    <2> QED
      BY <2>3, <2>4, <2>5 DEF Good
  <1>3. /\ Sound(k) /\ IsrFields \subseteq DOMAIN isr
        /\ IIR(k) \in {"RDA", "TIMEOUT"} => k.fifo # <<>>
    <2>1. Sound(k) /\ IsrFields \subseteq DOMAIN isr
      BY DEF SInv
    <2>2. IIR(k) \in {"RDA", "TIMEOUT"} => Len(k.fifo) >= RCVR_TRIG \/ k.tmo
      BY DEF IIR
    <2>3. Len(k.fifo) >= RCVR_TRIG => k.fifo # <<>>
      BY <2>1, Sizes, Empty DEF Sound
    <2> QED
      BY <2>1, <2>2, <2>3 DEF Sound
  <1> DEFINE Still == Devices \ {"ier", "tx", "hw_stopped", "wire", "com_open"}
  <1>4. {"irr"} \subseteq Still /\ {"thri", "irr"} \subseteq Still /\ {"oe", "irr"} \subseteq Still
        /\ {"fifo", "tmo", "irr"} \subseteq Still
    BY DEF Devices
  <1>5. CASE IrqEnter
    <2>1. Same(k, k', {"irr"})
      BY <1>3, <1>5 DEF IrqEnter, Sound, Same, Machine, Fields
    <2>2. Sound(k')
      BY <1>3, <2>1 DEF Sound, Same, Fields
    <2>3. /\ IsrFields \subseteq DOMAIN isr' /\ isr'.pc = IF k.com_open THEN "iir" ELSE "idle"
          /\ hist' = hist
      BY <1>3, <1>5 DEF IrqEnter, IsrFields
    <2> QED
      BY <1>2, <1>4, <2>1, <2>2, <2>3 DEF OInv, IsrPc
  <1>6. CASE IsrIir
    <2>1. Sound(k') /\ Same(k, k', {"thri", "irr"})
      BY <1>3, <1>6, RegisterSound DEF IsrIir
    <2>2. /\ IsrFields \subseteq DOMAIN isr' /\ isr'.id = IIR(k)
          /\ isr'.pc = IF IIR(k) = "NONE" THEN "idle" ELSE "lsr"
          /\ hist' = hist /\ k.open
      BY <1>3, <1>6 DEF IsrIir, Isr, IsrFields, OInv
    <2>3. k'.fifo = k.fifo
      BY <2>1 DEF Same, Fields
    <2> QED
      BY <1>2, <1>3, <1>4, <2>1, <2>2, <2>3 DEF IsrPc
  <1>7. CASE IsrLsr
    <2>1. Sound(k') /\ Same(k, k', {"oe", "irr"})
      BY <1>3, <1>7, RegisterSound DEF IsrLsr
    <2>2. /\ IsrFields \subseteq DOMAIN isr' /\ isr'.id = isr.id
          /\ isr'.pc = IF isr.id \in {"RDA", "TIMEOUT"} \/ k.fifo # <<>> THEN "rx" ELSE "msr"
          /\ hist' = hist /\ k.open /\ isr.pc = "lsr"
      BY <1>3, <1>7 DEF IsrLsr, Isr, IsrFields, OInv
    <2>3. k'.fifo = k.fifo
      BY <2>1 DEF Same, Fields
    <2>4. isr.id \in {"RDA", "TIMEOUT"} => k.fifo # <<>>
      BY <2>2 DEF SInv
    <2> QED
      BY <1>2, <1>4, <2>1, <2>2, <2>3, <2>4 DEF IsrPc
  <1>8. CASE IsrRxLsr
    <2>1. Sound(k') /\ Same(k, k', {"oe", "irr"})
      BY <1>3, <1>8, RegisterSound DEF IsrRxLsr
    <2>2. /\ IsrFields \subseteq DOMAIN isr'
          /\ isr'.pc = IF k.fifo # <<>> /\ isr.count > 0 THEN "rx" ELSE "msr"
          /\ hist' = hist /\ k.open
      BY <1>3, <1>8 DEF IsrRxLsr, Isr, IsrFields, OInv
    <2>3. k'.fifo = k.fifo
      BY <2>1 DEF Same, Fields
    <2> QED
      BY <1>2, <1>4, <2>1, <2>2, <2>3 DEF IsrPc
  <1>9. CASE IsrPass
    <2>1. /\ Sound(k') /\ Same(k, k', {"thri", "irr"})
      <3>1. k' = k \/ k' = read_IIR(k)
        BY <1>9 DEF IsrPass
      <3>2. Same(k, k, {"thri", "irr"})
        BY <1>3 DEF Same, Sound
      <3> QED
        BY <1>3, <3>1, <3>2, RegisterSound
    <2>2. /\ IsrFields \subseteq DOMAIN isr' /\ isr'.pc \in {"idle", "lsr"}
          /\ isr'.pc = "lsr" => isr'.id = IIR(k)
          /\ hist' = hist /\ k.open
      BY <1>3, <1>9 DEF IsrPass, Isr, IsrFields, OInv
    <2>3. k'.fifo = k.fifo
      BY <2>1 DEF Same, Fields
    <2> QED
      BY <1>2, <1>3, <1>4, <2>1, <2>2, <2>3 DEF IsrPc
  <1>10. CASE IsrMsr
    <2>1. /\ IsrFields \subseteq DOMAIN isr' /\ isr'.pc \in {"tx", "pass", "null"}
          /\ hist' = hist /\ k.open
          /\ k' = k \/ k' = check_modem_status(k)
      BY <1>3, <1>10 DEF IsrMsr, Isr, IsrFields, OInv
    <2>2. /\ Sound(k') /\ Same(k, k', {"dcts", "hw_stopped", "ier", "thri", "irr"})
          /\ Armed(k) /\ CtsHeld => Armed(k')
          /\ "CRTSCTS" \notin k.termios => k'.hw_stopped = k.hw_stopped
      <3>1. Same(k, k, {"dcts", "hw_stopped", "ier", "thri", "irr"})
        BY <1>3 DEF Same, Sound
      <3> QED
        BY <1>3, <2>1, <3>1, ModemSound DEF CtsHeld
    <2>3. Same(k, k', Devices) /\ k'.com_open = k.com_open /\ k'.wire = k.wire
      BY <2>2 DEF Same, Devices, Fields
    <2>4. SInv'
      BY <1>1, <2>1, <2>2 DEF SInv, IsrPc
    <2>5. OInv' /\ (FInv => FInv') /\ (Peer => Peer') /\ (CtsFree => CtsFree')
      <3>1. (task'.fd => k.open) /\ task'.pc = task.pc /\ hist'.flow = hist.flow
        BY <1>1, <2>1 DEF OInv
      <3> QED
        BY <2>1, <2>2, <2>3, <3>1, Calm
    <2> QED
      BY <2>2, <2>3, <2>4, <2>5 DEF Good
  <1>11. CASE IsrTx
    <2>1. /\ IsrFields \subseteq DOMAIN isr' /\ isr'.pc = "pass" /\ hist' = hist /\ k.open
          /\ k' = send_chars(k)
      BY <1>3, <1>11 DEF IsrTx, Isr, IsrFields, OInv
    <2>2. /\ Sound(k') /\ Word(k)' = Word(k) /\ (Armed(k) => Armed(k'))
          /\ Same(k, k', {"tx", "wire", "xchar", "told", "thr", "over", "thri", "irr", "ier"})
          /\ k.stopped => k'.wire = k.wire
      BY <1>3, <2>1, SendSound DEF Word
    <2>3. /\ k'.open = k.open /\ k'.throttled = k.throttled /\ k'.stopped = k.stopped
          /\ k'.termios = k.termios /\ k'.rts = k.rts /\ k'.rx = k.rx
          /\ k'.hw_stopped = k.hw_stopped
      BY <2>2 DEF Same, Fields
    <2>4. SInv'
      BY <1>1, <2>1, <2>2 DEF SInv, IsrPc
    <2>5. OInv' /\ (FInv => FInv')
      BY <1>1, <2>1, <2>3 DEF OInv, FInv
    <2>6. (Peer => Peer') /\ (CtsFree => CtsFree')
      BY <1>1, <2>2, <2>3 DEF Peer, CtsFree
    <2> QED
      BY <2>2, <2>4, <2>5, <2>6 DEF Good
  <1>12. CASE IsrRx
    <2> DEFINE c == Head(k.fifo)
               r == read_RX(k)
               m == n_tty_recv(r, c)
    <2>1. isr.pc = "rx" /\ k.open /\ k.fifo # <<>>
      BY <1>12 DEF IsrRx, Isr, OInv, SInv
    <2>2. Sound(r) /\ c \in Nat /\ Same(k, r, {"fifo", "tmo", "irr"})
      BY <1>3, <2>1, FifoSound
    <2>3. \/ k' = r /\ hist' = hist /\ isr' = [isr EXCEPT !.pc = "null"]
          \/ k' = r /\ hist' = hist /\ isr' = [isr EXCEPT !.pc = "spin"]
          \/ /\ k' = m /\ isr' = [isr EXCEPT !.pc = "rx_lsr", !.count = @ - 1]
             /\ hist' = IF "IXON" \in k.termios /\ c \in {START_CHAR, STOP_CHAR}
                        THEN [hist EXCEPT !.flow = c]
                        ELSE [hist EXCEPT !.lost = IF m.rx = k.rx THEN @ \cup {c} ELSE @]
      BY <1>12 DEF IsrRx
    <2> HIDE DEF c, r
    <2>4. /\ Sound(m) /\ Throttles(r, m) /\ Same(r, m, Received) /\ (Armed(r) => Armed(m))
          /\ "IXON" \in r.termios /\ c = STOP_CHAR => m.stopped
          /\ r.stopped /\ ~("IXON" \in r.termios /\ c = START_CHAR) => m.stopped
      BY <2>2, RecvSound
    <2> HIDE DEF m
    <2>5. CASE k' = r /\ hist' = hist /\ isr'.pc \in {"null", "spin"}
                                     /\ IsrFields \subseteq DOMAIN isr'
      BY <1>2, <1>4, <2>1, <2>2, <2>5 DEF IsrPc
    <2>6. ASSUME k' = m, isr' = [isr EXCEPT !.pc = "rx_lsr", !.count = @ - 1],
                 hist' = IF "IXON" \in k.termios /\ c \in {START_CHAR, STOP_CHAR}
                         THEN [hist EXCEPT !.flow = c]
                         ELSE [hist EXCEPT !.lost = IF m.rx = k.rx THEN @ \cup {c} ELSE @]
          PROVE  Good
      <3>1. /\ r.throttled = k.throttled /\ r.xchar = k.xchar /\ r.rts = k.rts /\ r.rx = k.rx
            /\ r.termios = k.termios /\ r.stopped = k.stopped /\ r.open = k.open
            /\ r.told = k.told /\ r.wire = k.wire /\ r.com_open = k.com_open
            /\ r.tx = k.tx /\ r.ier = k.ier /\ r.hw_stopped = k.hw_stopped
        BY <2>2 DEF Same, Fields
      <3>2. /\ m.termios = k.termios /\ m.open = k.open /\ m.told = k.told /\ m.wire = k.wire
            /\ m.com_open = k.com_open /\ m.hw_stopped = k.hw_stopped
        BY <2>4, <3>1 DEF Same, Fields, Received
      <3>3. /\ HistFields \subseteq DOMAIN hist'
            /\ hist'.flow = IF "IXON" \in k.termios /\ c \in {START_CHAR, STOP_CHAR}
                            THEN c ELSE hist.flow
        BY <2>6 DEF SInv, HistFields
      <3>4. IsrFields \subseteq DOMAIN isr' /\ isr'.pc = "rx_lsr"
        BY <1>3, <2>6 DEF IsrFields
      <3>5. SInv'
        BY <1>1, <2>4, <2>6, <3>3, <3>4 DEF SInv, IsrPc
      <3>6. OInv'
        BY <1>1, <2>1, <2>6, <3>2 DEF OInv
      <3>7. FInv => FInv'
        BY <2>4, <2>6, <3>1, <3>3 DEF FInv
      <3>8. Armed(k) => Armed(k')
        BY <2>4, <2>6, <3>1 DEF Armed
      <3>9. Peer => Peer'
        <4> SUFFICES ASSUME Peer PROVE Peer'
          OBVIOUS
        <4>1. CASE m.throttled = k.throttled /\ m.xchar = k.xchar /\ m.rts = k.rts
                   /\ (k.rx # <<>> => m.rx # <<>>)
          BY <1>1, <2>6, <3>2, <4>1 DEF Peer, Word
        <4>2. CASE /\ m.throttled /\ m.rx # <<>>
                   /\ "IXOFF" \in k.termios \/ m.xchar = k.xchar
                   /\ "CRTSCTS" \in k.termios \/ m.rts = k.rts
          BY <1>1, <2>6, <3>2, <4>2 DEF Peer, Word
        <4> QED
          BY <2>4, <3>1, <4>1, <4>2 DEF Throttles
      <3>10. CtsFree => CtsFree'
        BY <2>6, <3>2 DEF CtsFree
      <3> QED
        BY <2>6, <3>2, <3>5, <3>6, <3>7, <3>8, <3>9, <3>10 DEF Good
    <2> QED
      BY <1>3, <2>3, <2>5, <2>6 DEF IsrFields
  <1> QED
    BY <1>5, <1>6, <1>7, <1>8, <1>9, <1>10, <1>11, <1>12 DEF IsrNext

(* The steps of the task that leave flow control alone: what they owe. *)
LEMMA TaskCalm ==
    ASSUME SInv, OInv, Sound(k'), Same(k, k', Devices), k'.com_open => k.com_open,
           k'.fifo = k.fifo, k'.wire = k.wire, Armed(k) /\ CtsHeld => Armed(k'),
           k'.hw_stopped = k.hw_stopped,
           HistFields \subseteq DOMAIN hist', hist'.flow = hist.flow,
           isr' = isr, isr.pc = "idle",
           TaskFields \subseteq DOMAIN task', task'.pc \in TaskPc, task'.fd => k.open,
           task'.buf \in Text, task'.out \in Text,
           task'.pc = "write_char" => task'.buf # <<>> /\ task'.out # <<>>,
           \/ task'.pc = task.pc
           \/ /\ k.open
              /\ task.pc \notin {"read_room", "read_unthrottle", "read_unthrottle_driver"}
    PROVE  Good
  <1>1. SInv'
    BY DEF SInv
  <1>2. isr'.pc # "idle" => k.open
    OBVIOUS
  <1>3. OInv' /\ (FInv => FInv') /\ (Peer => Peer') /\ (CtsFree => CtsFree')
    BY <1>2, Calm
  <1> QED
    BY <1>1, <1>3 DEF Good

LEMMA UnchangedMachine ==
    ASSUME SInv, k' = k
    PROVE  /\ Sound(k') /\ Same(k, k', Devices) /\ k'.com_open = k.com_open
           /\ k'.fifo = k.fifo /\ k'.wire = k.wire /\ (Armed(k) => Armed(k'))
           /\ k'.hw_stopped = k.hw_stopped
  BY DEF SInv, Sound, Same

LEMMA WriteMachine ==
    ASSUME SInv, NEW b \in Text, k' = serial_flush(k) \/ k' = serial_write(k, b)
    PROVE  /\ Sound(k') /\ Same(k, k', Devices) /\ k'.com_open = k.com_open
           /\ k'.fifo = k.fifo /\ k'.wire = k.wire /\ Armed(k')
           /\ k'.hw_stopped = k.hw_stopped
  <1>1. Sound(k) /\ Machine(k)
    BY DEF SInv, Sound
  <1>2. CASE k' = serial_flush(k)
    <2>1. /\ Same(k, k', {"ier", "thri", "irr"}) /\ Armed(k')
          /\ k'.ier \in {k.ier, k.ier \cup {"THRE"}}
      BY <1>1, <1>2, Flush
    <2>2. Sound(k')
      BY <1>1, <2>1, InterruptSound DEF Sound, Source
    <2> QED
      BY <2>1, <2>2 DEF Same, Devices, Fields
  <1>3. CASE k' = serial_write(k, b)
    <2>1. Sound(k') /\ Same(k, k', {"tx", "acc", "ier", "thri", "irr"}) /\ Armed(k')
      BY <1>1, <1>3, WriteSound
    <2> QED
      BY <2>1 DEF Same, Devices, Fields
  <1> QED
    BY <1>2, <1>3

LEMMA OpenCloseGood ==
    ASSUME SInv, OInv, SysOpenAgain \/ SysOpen \/ SysOpenFails \/ SysClose \/ CloseTty \/ CloseOpen
    PROVE  Good
  <1>0. /\ Sound(k) /\ TaskFields \subseteq DOMAIN task /\ HistFields \subseteq DOMAIN hist
        /\ task.pc \in TaskPc /\ task.buf \in Text /\ task.out \in Text
        /\ task.pc = "write_char" => task.buf # <<>> /\ task.out # <<>>
    BY DEF SInv
  <1>1. CASE SysOpenAgain
    <2>1. /\ k' = k /\ isr' = isr /\ task' = [task EXCEPT !.fd = TRUE] /\ k.open /\ Call("open")
      BY <1>1 DEF SysOpenAgain
    <2>2. /\ TaskFields \subseteq DOMAIN task' /\ task'.pc = task.pc
          /\ task'.buf = task.buf /\ task'.out = task.out
      BY <1>0, <2>1 DEF TaskFields
    <2> QED
      BY <1>0, <2>1, <2>2, CallHist, UnchangedMachine, TaskCalm
  <1>2. CASE SysOpen
    <2>1. /\ k' = tty_open_internal(k) /\ isr' = isr /\ task' = [task EXCEPT !.fd = TRUE]
          /\ ~k.open /\ Call("open")
      BY <1>2 DEF SysOpen
    <2>2. /\ TaskFields \subseteq DOMAIN task' /\ task'.pc = task.pc
          /\ task'.buf = task.buf /\ task'.out = task.out
      BY <1>0, <2>1 DEF TaskFields
    <2>3. /\ HistFields \subseteq DOMAIN hist' /\ hist'.flow = NUL
          /\ isr.pc = "idle" /\ task.pc = "user"
      BY <2>1, CallHist DEF OInv
    <2>4. /\ Sound(k') /\ Armed(k') /\ k'.open /\ ~k'.throttled /\ k'.rts /\ k'.xchar = NUL
          /\ k'.told = NUL /\ k'.wire = <<>> /\ k'.termios = DefaultTermios /\ ~k'.hw_stopped
      BY <1>0, <2>1, OpenSound DEF OInv
    <2>5. SInv'
      BY <1>0, <2>1, <2>2, <2>3, <2>4 DEF SInv
    <2>6. OInv'
      BY <2>4 DEF OInv
    <2>7. FInv' /\ Peer'
      <3>1. NUL # STOP_CHAR
        BY DEF NUL, STOP_CHAR
      <3> QED
        BY <2>3, <2>4, <3>1 DEF FInv, Peer, Word
    <2> QED
      BY <2>4, <2>5, <2>6, <2>7 DEF Good, NoRtsCts, CtsFree
  <1>3. CASE SysOpenFails
    <2>1. /\ k' = tty_open_eio(k) /\ isr' = isr /\ task' = task /\ ~k.open /\ Call("open")
      BY <1>3 DEF SysOpenFails
    <2>2. /\ HistFields \subseteq DOMAIN hist' /\ hist'.flow = NUL
          /\ isr.pc = "idle" /\ task.pc = "user"
      BY <2>1, CallHist DEF OInv
    <2>3. /\ Sound(k') /\ Armed(k') /\ k'.wire = <<>> /\ k'.xchar = NUL
          /\ k'.termios = DefaultTermios
          /\ Same(k, k', {"termios", "rx", "tx", "xchar", "acc", "wire", "ier"})
      BY <1>0, <2>1, OpenSound
    <2>4. /\ k'.open = k.open /\ k'.throttled = k.throttled /\ k'.told = k.told
          /\ k'.com_open = k.com_open /\ k'.hw_stopped = k.hw_stopped
      BY <2>3 DEF Same, Fields
    <2>5. SInv'
      BY <1>0, <2>1, <2>2, <2>3 DEF SInv
    <2>6. OInv'
      BY <2>1, <2>2, <2>3, <2>4 DEF OInv
    <2>7. FInv' /\ Peer'
      <3>1. NUL # STOP_CHAR
        BY DEF NUL, STOP_CHAR
      <3>2. ~k'.open /\ ~k'.throttled /\ k'.told = NUL
        BY <2>1, <2>4 DEF OInv
      <3> QED
        BY <2>2, <2>3, <3>1, <3>2 DEF FInv, Peer, Word
    <2> QED
      BY <2>3, <2>4, <2>5, <2>6, <2>7 DEF Good, NoRtsCts, CtsFree
  <1>4. CASE SysClose
    <2>1. /\ k' = serial_flush(k) /\ isr' = isr /\ task' = [task EXCEPT !.pc = "close_tty"]
          /\ k.open /\ Call("close")
      BY <1>4 DEF SysClose, Goto, OInv
    <2>2. /\ TaskFields \subseteq DOMAIN task' /\ task'.pc = "close_tty"
          /\ task'.buf = task.buf /\ task'.out = task.out
      BY <1>0, <2>1 DEF TaskFields
    <2>3. "close_tty" \in TaskPc /\ "close_tty" # "write_char"
      BY DEF TaskPc
    <2> QED
      BY <1>0, <2>1, <2>2, <2>3, CallHist, WriteMachine, TaskCalm
  <1>5. CASE CloseTty
    <2>1. /\ k' = [k EXCEPT !.com_tty = FALSE] /\ isr' = isr /\ hist' = hist
          /\ task' = [task EXCEPT !.pc = "close_open"]
          /\ k.open /\ isr.pc = "idle" /\ task.pc = "close_tty"
      BY <1>5 DEF CloseTty, Goto, Task, OInv
    <2>2. /\ TaskFields \subseteq DOMAIN task' /\ task'.pc = "close_open"
          /\ task'.buf = task.buf /\ task'.out = task.out
      BY <1>0, <2>1 DEF TaskFields
    <2>3. "close_open" \in TaskPc /\ "close_open" # "write_char"
      BY DEF TaskPc
    <2>4. Same(k, k', {"com_tty"})
      BY <1>0, <2>1 DEF Sound, Same, Machine, Fields
    <2>5. /\ Sound(k') /\ Same(k, k', Devices) /\ k'.com_open = k.com_open
          /\ k'.fifo = k.fifo /\ k'.wire = k.wire /\ (Armed(k) => Armed(k'))
          /\ k'.hw_stopped = k.hw_stopped
      BY <1>0, <2>4 DEF Sound, Same, Devices, Fields, Armed
    <2> QED
      BY <1>0, <2>1, <2>2, <2>3, <2>5, TaskCalm
  <1>6. CASE CloseOpen
    <2>1. /\ k' = [k EXCEPT !.com_open = FALSE] /\ isr' = isr /\ hist' = hist
          /\ task' = [task EXCEPT !.pc = "user", !.fd = FALSE]
          /\ k.open /\ isr.pc = "idle" /\ task.pc = "close_open"
      BY <1>6 DEF CloseOpen, Task, OInv
    <2>2. /\ TaskFields \subseteq DOMAIN task' /\ task'.pc = "user" /\ ~task'.fd
          /\ task'.buf = task.buf /\ task'.out = task.out
      BY <1>0, <2>1 DEF TaskFields
    <2>3. "user" \in TaskPc /\ "user" # "write_char"
      BY DEF TaskPc
    <2>4. Same(k, k', {"com_open"}) /\ ~k'.com_open
      BY <1>0, <2>1 DEF Sound, Same, Machine, Fields
    <2>5. /\ Sound(k') /\ Same(k, k', Devices)
          /\ k'.fifo = k.fifo /\ k'.wire = k.wire /\ (Armed(k) => Armed(k'))
          /\ k'.hw_stopped = k.hw_stopped
      BY <1>0, <2>4 DEF Sound, Same, Devices, Fields, Armed
    <2> QED
      BY <1>0, <2>1, <2>2, <2>3, <2>4, <2>5, TaskCalm
  <1> QED
    BY <1>1, <1>2, <1>3, <1>4, <1>5, <1>6

LEMMA ReadGood ==
    ASSUME SInv, OInv,
           SysRead \/ ReadGet \/ ReadWouldBlock \/ ReadRoom \/ ReadUnthrottle \/ ReadUnthrottleDriver
    PROVE  Good
  <1>0. /\ Sound(k) /\ TaskFields \subseteq DOMAIN task /\ HistFields \subseteq DOMAIN hist
        /\ task.pc \in TaskPc /\ task.buf \in Text /\ task.out \in Text
        /\ task.pc = "write_char" => task.buf # <<>> /\ task.out # <<>>
    BY DEF SInv
  <1>1. /\ {"user", "read", "read_room", "read_unthrottle", "read_unthrottle_driver"} \subseteq TaskPc
        /\ \A n : ReadLoop(n) \in {"user", "read"}
    BY DEF TaskPc, ReadLoop
  <1>2. CASE SysRead
    <2>1. /\ k' = k /\ isr' = isr /\ hist' = hist /\ isr.pc = "idle" /\ task.pc = "user" /\ k.open
          /\ TaskFields \subseteq DOMAIN task' /\ task'.pc = "read" /\ task'.fd = task.fd
          /\ task'.buf = task.buf /\ task'.out = task.out
      BY <1>0, <1>2 DEF SysRead, Task, TaskFields, OInv
    <2> QED
      BY <1>0, <1>1, <2>1, UnchangedMachine, TaskCalm
  <1>3. CASE ReadWouldBlock
    <2>1. /\ k' = k /\ isr' = isr /\ hist' = hist /\ isr.pc = "idle" /\ task.pc = "read" /\ k.open
          /\ TaskFields \subseteq DOMAIN task' /\ task'.pc = "user" /\ task'.fd = task.fd
          /\ task'.buf = task.buf /\ task'.out = task.out
      BY <1>0, <1>3 DEF ReadWouldBlock, Task, Goto, TaskFields, OInv
    <2> QED
      BY <1>0, <1>1, <2>1, UnchangedMachine, TaskCalm
  (* The reader moves on in its loop: what is left to show about flow control. *)
  <1>4. ASSUME Sound(k'), Same(k, k', {"rx", "throttled", "xchar", "rts", "ier", "thri", "irr"}),
               Armed(k) => Armed(k'), isr' = isr, isr.pc = "idle", k.open,
               HistFields \subseteq DOMAIN hist', hist'.flow = hist.flow,
               TaskFields \subseteq DOMAIN task', task'.pc \in TaskPc \ {"write_char"},
               task'.buf = task.buf, task'.out = task.out, Peer => Peer'
        PROVE  Good
    <2>1. /\ k'.open = k.open /\ k'.stopped = k.stopped /\ k'.wire = k.wire
          /\ k'.hw_stopped = k.hw_stopped /\ k'.termios = k.termios
      BY <1>4 DEF Same, Fields
    <2>2. SInv'
      BY <1>0, <1>4 DEF SInv
    <2>3. OInv' /\ (FInv => FInv') /\ (CtsFree => CtsFree')
      BY <1>4, <2>1 DEF OInv, FInv, CtsFree
    <2> QED
      BY <1>4, <2>1, <2>2, <2>3 DEF Good
  <1>5. CASE ReadGet
    <2>1. /\ k' = [k EXCEPT !.rx = Tail(k.rx)] /\ isr' = isr /\ isr.pc = "idle"
          /\ task.pc = "read" /\ k.open /\ k.rx # <<>>
          /\ TaskFields \subseteq DOMAIN task' /\ task'.pc = "read_room"
          /\ task'.buf = task.buf /\ task'.out = task.out
          /\ HistFields \subseteq DOMAIN hist' /\ hist'.flow = hist.flow
      BY <1>0, <1>5 DEF ReadGet, Task, TaskFields, HistFields, OInv
    <2>2. Tail(k.rx) \in Text /\ Len(Tail(k.rx)) <= TTY_BUFFER_SIZE
      <3>1. k.rx \in Text /\ Len(k.rx) <= TTY_BUFFER_SIZE
        BY <1>0 DEF Sound
      <3>2. Tail(k.rx) \in Text /\ Len(Tail(k.rx)) = Len(k.rx) - 1 /\ Len(k.rx) \in Nat
        BY <2>1, <3>1, Ends, Empty, Zenon
      <3> QED
        BY <3>1, <3>2, Sizes
    <2>3. Same(k, k', {"rx"}) /\ k'.rx = Tail(k.rx)
      BY <1>0, <2>1 DEF Sound, Same, Machine, Fields
    <2>4. Sound(k') /\ (Armed(k) => Armed(k'))
      BY <1>0, <2>2, <2>3 DEF Sound, Same, Fields, Armed
    <2>5. /\ k'.throttled = k.throttled /\ k'.xchar = k.xchar /\ k'.told = k.told
          /\ k'.rts = k.rts /\ k'.open = k.open /\ k'.termios = k.termios
          /\ Same(k, k', {"rx", "throttled", "xchar", "rts", "ier", "thri", "irr"})
      BY <2>3 DEF Same, Fields
    <2>6. Peer => Peer'
      BY <2>1, <2>5 DEF Peer, Word
    <2>7. "read_room" \in TaskPc \ {"write_char"}
      BY <1>1
    <2> QED
      BY <1>4, <2>1, <2>4, <2>5, <2>6, <2>7
  <1>6. CASE ReadRoom
    <2>1. /\ k' = k /\ isr' = isr /\ hist' = hist /\ isr.pc = "idle" /\ task.pc = "read_room" /\ k.open
          /\ TaskFields \subseteq DOMAIN task'
          /\ task'.pc = IF HasRoom(k) THEN "read_unthrottle" ELSE ReadLoop(task.n)
          /\ task'.buf = task.buf /\ task'.out = task.out
      BY <1>0, <1>6 DEF ReadRoom, Task, Goto, TaskFields, OInv
    <2>2. k.rx = <<>> => HasRoom(k)
      BY Empty, Sizes DEF HasRoom, n_tty_recv_room
    <2>3. Peer => Peer'
      BY <2>1, <2>2 DEF Peer, Word
    <2>4. task'.pc \in TaskPc \ {"write_char"}
      BY <1>1, <2>1
    <2>5. Same(k, k', {"rx", "throttled", "xchar", "rts", "ier", "thri", "irr"})
      BY <1>0, <2>1 DEF Sound, Same
    <2> QED
      BY <1>0, <1>4, <2>1, <2>3, <2>4, <2>5
  <1>7. CASE ReadUnthrottle
    <2>1. /\ k' = [k EXCEPT !.throttled = FALSE] /\ isr' = isr /\ hist' = hist /\ isr.pc = "idle"
          /\ task.pc = "read_unthrottle" /\ k.open
          /\ TaskFields \subseteq DOMAIN task'
          /\ task'.pc = IF k.throttled THEN "read_unthrottle_driver" ELSE ReadLoop(task.n)
          /\ task'.buf = task.buf /\ task'.out = task.out
      BY <1>0, <1>7 DEF ReadUnthrottle, Task, Goto, TaskFields, OInv
    <2>2. Same(k, k', {"throttled"}) /\ ~k'.throttled
      BY <1>0, <2>1 DEF Sound, Same, Machine, Fields
    <2>3. Sound(k') /\ (Armed(k) => Armed(k'))
      BY <1>0, <2>2 DEF Sound, Same, Fields, Armed
    <2>4. /\ k'.xchar = k.xchar /\ k'.told = k.told
          /\ k'.rts = k.rts /\ k'.open = k.open /\ k'.termios = k.termios
          /\ Same(k, k', {"rx", "throttled", "xchar", "rts", "ier", "thri", "irr"})
      BY <2>2 DEF Same, Fields
    <2>5. Peer => Peer'
      BY <2>1, <2>2, <2>4 DEF Peer, Word
    <2>6. task'.pc \in TaskPc \ {"write_char"}
      BY <1>1, <2>1
    <2> QED
      BY <1>0, <1>4, <2>1, <2>3, <2>4, <2>5, <2>6
  <1>8. CASE ReadUnthrottleDriver
    <2>1. /\ k' = serial_unthrottle(k) /\ isr' = isr /\ hist' = hist /\ isr.pc = "idle"
          /\ task.pc = "read_unthrottle_driver" /\ k.open
          /\ TaskFields \subseteq DOMAIN task' /\ task'.pc = ReadLoop(task.n)
          /\ task'.buf = task.buf /\ task'.out = task.out
      BY <1>0, <1>8 DEF ReadUnthrottleDriver, Task, Goto, TaskFields, OInv
    <2>2. Told(k, k', START_CHAR)
      BY <1>0, <2>1, ThrottleTells
    <2>3. /\ Sound(k') /\ (Armed(k) => Armed(k'))
          /\ Same(k, k', {"xchar", "rts", "ier", "thri", "irr"})
          /\ k'.xchar = IF "IXOFF" \in k.termios THEN START_CHAR ELSE k.xchar
          /\ k'.rts = IF "CRTSCTS" \in k.termios THEN TRUE ELSE k.rts
      BY <2>2 DEF Told
    <2>4. /\ k'.throttled = k.throttled /\ k'.told = k.told /\ k'.rx = k.rx
          /\ k'.open = k.open /\ k'.termios = k.termios
          /\ Same(k, k', {"rx", "throttled", "xchar", "rts", "ier", "thri", "irr"})
      BY <2>3 DEF Same, Fields
    <2>5. START_CHAR # STOP_CHAR /\ START_CHAR # NUL
      BY DEF START_CHAR, STOP_CHAR, NUL
    <2>6. Peer => Peer'
      BY <2>1, <2>3, <2>4, <2>5 DEF Peer, Word
    <2>7. task'.pc \in TaskPc \ {"write_char"}
      BY <1>1, <2>1
    <2> QED
      BY <1>0, <1>4, <2>1, <2>3, <2>4, <2>6, <2>7
  <1> QED
    BY <1>2, <1>3, <1>5, <1>6, <1>7, <1>8

LEMMA WriteGood ==
    ASSUME SInv, OInv,
           SysWrite \/ WriteOpost \/ WriteChar \/ WriteRaw \/ WriteDone \/ WriteFlush
    PROVE  Good
  <1>0. /\ Sound(k) /\ TaskFields \subseteq DOMAIN task /\ HistFields \subseteq DOMAIN hist
        /\ task.pc \in TaskPc /\ task.buf \in Text /\ task.out \in Text
        /\ task.pc = "write_char" => task.buf # <<>> /\ task.out # <<>>
    BY DEF SInv
  <1>1. {"user", "write", "write_char", "write_flush"} \subseteq TaskPc /\ <<>> \in Text
    BY Empty DEF TaskPc
  <1>2. CASE SysWrite
    <2>1. PICK b \in Bufs : task' = [task EXCEPT !.pc = "write", !.buf = b]
      BY <1>2 DEF SysWrite
    <2>2. /\ k' = k /\ isr' = isr /\ Call("write") /\ k.open
          /\ TaskFields \subseteq DOMAIN task' /\ task'.pc = "write" /\ task'.fd = task.fd
          /\ task'.buf = b /\ task'.out = task.out
      BY <1>0, <1>2, <2>1 DEF SysWrite, TaskFields, OInv
    <2>3. b \in Text
      BY Sizes
    <2> QED
      BY <1>0, <1>1, <2>2, <2>3, CallHist, UnchangedMachine, TaskCalm
  <1>3. CASE WriteOpost
    <2> DEFINE c == Head(task.buf)
    <2>1. /\ k' = k /\ isr' = isr /\ hist' = hist /\ isr.pc = "idle" /\ task.pc = "write" /\ k.open
          /\ task.buf # <<>>
          /\ task' = IF opost_fits(k, c)
                     THEN [task EXCEPT !.pc = "write_char", !.out = opost_chars(k, c)]
                     ELSE [task EXCEPT !.pc = "write_flush"]
      BY <1>3 DEF WriteOpost, Task, OInv
    <2>2. c \in Nat
      BY <1>0, <2>1, Ends, Zenon
    <2> HIDE DEF c
    <2>3. opost_chars(k, c) \in Text /\ opost_chars(k, c) # <<>>
      BY <2>2, OutputChars
    <2>4. /\ TaskFields \subseteq DOMAIN task' /\ task'.fd = task.fd /\ task'.buf = task.buf
          /\ \/ task'.pc = "write_char" /\ task'.out = opost_chars(k, c)
             \/ task'.pc = "write_flush" /\ task'.out = task.out
      BY <1>0, <2>1 DEF TaskFields
    <2> QED
      BY <1>0, <1>1, <2>1, <2>3, <2>4, UnchangedMachine, TaskCalm
  <1>4. CASE WriteChar
    <2> DEFINE c == Head(task.out)
    <2>1. /\ k' = serial_write(k, <<c>>) /\ isr' = isr /\ isr.pc = "idle"
          /\ task.pc = "write_char" /\ k.open
          /\ task' = IF Len(task.out) > 1 THEN [task EXCEPT !.out = Tail(task.out)]
                     ELSE [task EXCEPT !.out = <<>>, !.buf = Tail(task.buf), !.pc = "write"]
          /\ HistFields \subseteq DOMAIN hist' /\ hist'.flow = hist.flow
      BY <1>0, <1>4 DEF WriteChar, write_char, Task, HistFields, OInv
    <2>2. /\ c \in Nat /\ Tail(task.out) \in Text /\ Len(Tail(task.out)) = Len(task.out) - 1
          /\ Tail(task.buf) \in Text /\ Len(task.out) \in Nat
      BY <1>0, <2>1, Ends, Empty, Zenon
    <2>3. Len(task.out) > 1 => Tail(task.out) # <<>>
      <3>1. \A n \in Nat : n > 1 => n - 1 # 0
        OBVIOUS
      <3>2. Len(<<>>) = 0
        BY Empty
      <3> QED
        BY <2>2, <3>1, <3>2, Zenon
    <2> HIDE DEF c
    <2>4. <<c>> \in Text
      BY <2>2, OutputChars
    <2>5. /\ TaskFields \subseteq DOMAIN task' /\ task'.fd = task.fd
          /\ \/ task'.pc = task.pc /\ task'.out = Tail(task.out) /\ task'.out # <<>>
                /\ task'.buf = task.buf
             \/ task'.pc = "write" /\ task'.out = <<>> /\ task'.buf = Tail(task.buf)
      <3>1. CASE Len(task.out) > 1
        BY <1>0, <2>1, <2>3, <3>1 DEF TaskFields
      <3>2. CASE ~(Len(task.out) > 1)
        BY <1>0, <2>1, <3>2 DEF TaskFields
      <3> QED
        BY <3>1, <3>2
    <2>6. task'.fd => k.open
      BY <2>1
    <2>7. /\ Sound(k') /\ Same(k, k', Devices) /\ k'.com_open = k.com_open
          /\ k'.fifo = k.fifo /\ k'.wire = k.wire /\ Armed(k') /\ k'.hw_stopped = k.hw_stopped
      BY <2>1, <2>4, WriteMachine
    <2> QED
      BY <1>0, <1>1, <2>1, <2>2, <2>5, <2>6, <2>7, TaskCalm
  <1>5. CASE WriteRaw
    <2> DEFINE n == serial_write_count(k, task.buf)
    <2>1. /\ k' = serial_write(k, task.buf) /\ isr' = isr /\ isr.pc = "idle"
          /\ task.pc = "write" /\ k.open
          /\ TaskFields \subseteq DOMAIN task' /\ task'.pc = task.pc /\ task'.fd = task.fd
          /\ task'.buf = SubSeq(task.buf, n + 1, Len(task.buf)) /\ task'.out = task.out
          /\ HistFields \subseteq DOMAIN hist' /\ hist'.flow = hist.flow
      BY <1>0, <1>5 DEF WriteRaw, Task, TaskFields, HistFields, OInv
    <2>2. n \in Nat /\ n <= Len(task.buf)
      BY <1>0, WriteSound
    <2> HIDE DEF n
    <2>3. task'.buf \in Text
      BY <1>0, <2>1, <2>2, Cut
    <2>4. task'.fd => k.open
      BY <2>1
    <2>5. /\ Sound(k') /\ Same(k, k', Devices) /\ k'.com_open = k.com_open
          /\ k'.fifo = k.fifo /\ k'.wire = k.wire /\ Armed(k') /\ k'.hw_stopped = k.hw_stopped
      BY <1>0, <2>1, WriteMachine
    <2>6. task'.pc \in TaskPc /\ task'.pc # "write_char"
      BY <1>0, <2>1
    <2> QED
      BY <1>0, <2>1, <2>3, <2>4, <2>5, <2>6, TaskCalm
  <1>6. CASE WriteDone
    <2>1. /\ k' = k /\ isr' = isr /\ hist' = hist /\ isr.pc = "idle" /\ task.pc = "write" /\ k.open
          /\ TaskFields \subseteq DOMAIN task' /\ task'.pc = "write_flush" /\ task'.fd = task.fd
          /\ task'.buf = task.buf /\ task'.out = task.out
      BY <1>0, <1>6 DEF WriteDone, Goto, Task, TaskFields, OInv
    <2> QED
      BY <1>0, <1>1, <2>1, UnchangedMachine, TaskCalm
  <1>7. CASE WriteFlush
    <2>1. /\ k' = serial_flush(k) /\ isr' = isr /\ hist' = hist /\ isr.pc = "idle"
          /\ task.pc = "write_flush" /\ k.open
          /\ TaskFields \subseteq DOMAIN task' /\ task'.pc = "user" /\ task'.fd = task.fd
          /\ task'.buf = <<>> /\ task'.out = task.out
      BY <1>0, <1>7 DEF WriteFlush, Task, TaskFields, OInv
    <2> QED
      BY <1>0, <1>1, <2>1, WriteMachine, TaskCalm
  <1> QED
    BY <1>2, <1>3, <1>4, <1>5, <1>6, <1>7

LEMMA IoctlGood ==
    ASSUME SInv, OInv, SysTcsets \/ SysTiocmget
    PROVE  Good
  <1>0. /\ Sound(k) /\ TaskFields \subseteq DOMAIN task /\ IsrFields \subseteq DOMAIN isr
        /\ task.pc \in TaskPc /\ task.buf \in Text /\ task.out \in Text
    BY DEF SInv
  <1>1. CASE SysTcsets
    <2>1. PICK t \in TermiosChoices : k' = [k EXCEPT !.termios = t]
      BY <1>1 DEF SysTcsets
    <2>2. task' = task /\ isr' = isr /\ Call("tcsets") /\ k.open
      BY <1>1 DEF SysTcsets, OInv
    <2>3. /\ HistFields \subseteq DOMAIN hist' /\ hist'.flow = hist.flow
          /\ isr.pc = "idle" /\ task.pc = "user"
      BY <2>2, CallHist
    <2>4. Same(k, k', {"termios"}) /\ k'.termios = t
      BY <1>0, <2>1 DEF Sound, Same, Machine, Fields
    <2>5. Sound(k') /\ (Armed(k) => Armed(k')) /\ k'.wire = k.wire
      BY <1>0, <2>4 DEF Sound, Same, Fields, Armed
    <2>6. /\ k'.throttled = k.throttled /\ k'.told = k.told /\ k'.rx = k.rx /\ k'.xchar = k.xchar
          /\ k'.open = k.open /\ k'.rts = k.rts /\ k'.stopped = k.stopped
          /\ k'.hw_stopped = k.hw_stopped
      BY <2>4 DEF Same, Fields
    <2>7. SInv'
      BY <2>2, <2>3, <2>5 DEF SInv
    <2>8. OInv' /\ (FInv => FInv')
      BY <2>2, <2>3, <2>6 DEF OInv, FInv
    <2>9. Peer /\ FlowKept => Peer'
      BY <2>2, <2>3, <2>6 DEF Peer, FlowKept, Word
    <2> QED
      BY <2>4, <2>5, <2>6, <2>7, <2>8, <2>9 DEF Good, NoRtsCts, CtsFree
  <1>2. CASE SysTiocmget
    <2>1. /\ task' = task /\ Call("tiocmget") /\ k.open
          /\ \/ k' = check_modem_status(k) /\ isr' = isr
             \/ k' = k /\ isr' = [isr EXCEPT !.pc = "null"]
      BY <1>2 DEF SysTiocmget, OInv
    <2>2. /\ HistFields \subseteq DOMAIN hist' /\ hist'.flow = hist.flow
          /\ isr.pc = "idle" /\ task.pc = "user"
      BY <2>1, CallHist
    <2>3. IsrFields \subseteq DOMAIN isr' /\ isr'.pc \in {"idle", "null"}
      BY <1>0, <2>1, <2>2 DEF IsrFields
    <2>4. /\ Sound(k') /\ Same(k, k', {"dcts", "hw_stopped", "ier", "thri", "irr"})
          /\ Armed(k) /\ CtsHeld => Armed(k')
          /\ "CRTSCTS" \notin k.termios => k'.hw_stopped = k.hw_stopped
      <3>1. Same(k, k, {"dcts", "hw_stopped", "ier", "thri", "irr"})
        BY <1>0 DEF Same, Sound
      <3> QED
        BY <1>0, <2>1, <3>1, ModemSound DEF CtsHeld
    <2>5. Same(k, k', Devices) /\ k'.com_open = k.com_open /\ k'.wire = k.wire
      BY <2>4 DEF Same, Devices, Fields
    <2>6. SInv'
      BY <2>1, <2>2, <2>3, <2>4 DEF SInv, IsrPc
    <2>7. OInv' /\ (FInv => FInv') /\ (Peer => Peer') /\ (CtsFree => CtsFree')
      <3>1. task'.pc = task.pc
        BY <2>1
      <3> QED
        BY <2>1, <2>2, <2>4, <2>5, <3>1, Calm
    <2> QED
      BY <2>4, <2>5, <2>6, <2>7 DEF Good
  <1> QED
    BY <1>1, <1>2

LEMMA StepGood == SInv /\ OInv /\ [Next]_vars => Good
  <1> SUFFICES ASSUME SInv, OInv, [Next]_vars PROVE Good
    OBVIOUS
  <1>1. CASE Next
    BY <1>1, HwGood, IsrGood, OpenCloseGood, ReadGood, WriteGood, IoctlGood
       DEF Next, TaskNext
  <1>2. CASE UNCHANGED vars
    BY <1>2 DEF vars, Good, SInv, OInv, FInv, Peer, Word, CtsFree
  <1> QED
    BY <1>1, <1>2

-----------------------------------------------------------------------------
(* The buffers, the queues and the FIFO stay within their sizes, whatever the    *)
(* task, the handler and the peer do, and recv_chars never reads an empty FIFO.  *)
THEOREM SerialTypes == Spec => []TypeOK
  <1>1. SInv => TypeOK
    <2> SUFFICES ASSUME SInv PROVE TypeOK
      OBVIOUS
    <2>1. /\ k.ier \subseteq Source /\ k.thr \in 0 .. FIFO_DEPTH
          /\ k.rx \in Text /\ Len(k.rx) <= TTY_BUFFER_SIZE
          /\ k.tx \in Text /\ Len(k.tx) <= TX_SIZE
          /\ k.fifo \in Text /\ Len(k.fifo) <= FIFO_DEPTH
          /\ k.xchar \in {NUL, START_CHAR, STOP_CHAR}
      BY DEF SInv, Sound
    <2>2. /\ Len(k.rx) \in 0 .. TTY_BUFFER_SIZE /\ Len(k.tx) \in 0 .. TX_SIZE
          /\ Len(k.fifo) \in 0 .. FIFO_DEPTH
      BY <2>1, Empty, Sizes
    <2> QED
      BY <2>1, <2>2 DEF SInv, TypeOK
  <1>2. SInv /\ OInv /\ [Next]_vars => SInv' /\ OInv'
    BY StepGood DEF Good
  <1> QED
    BY <1>1, <1>2, InitGood, PTL DEF Spec

(* The characters that serial_write got into tx_ring are written to the UART in  *)
(* the order they went in, none skipped, repeated or made up, with the echo of   *)
(* the handler between the writes of the task and across a failed and a repeated *)
(* open.  It does not say that the ring had room for a character, nor that the   *)
(* UART's FIFO had.                                                              *)
THEOREM OutputInOrder == Spec => []OutputIntact
  <1>1. SInv => OutputIntact
    BY DEF SInv, Sound, OutputIntact
  <1>2. SInv /\ OInv /\ [Next]_vars => SInv' /\ OInv'
    BY StepGood DEF Good
  <1> QED
    BY <1>1, <1>2, InitGood, PTL DEF Spec

(* No data goes to the UART between the XOFF and the XON of the peer, also when *)
(* TCSETS clears IXON in between and when the port is closed and opened again.  *)
THEOREM XoffIsObeyed == Spec => XoffObeyed
  <1> DEFINE I == SInv /\ OInv /\ FInv
  <1>1. Init => I
    BY InitGood
  <1>2. I /\ [Next]_vars => I'
    BY StepGood DEF Good
  <1>3. I /\ I' /\ [Next]_vars => [Len(k.wire') > Len(k.wire) => hist.flow # STOP_CHAR]_vars
    <2> SUFFICES ASSUME I, I', [Next]_vars, hist.flow = STOP_CHAR
                 PROVE  ~(Len(k.wire') > Len(k.wire))
      OBVIOUS
    <2>1. k'.wire = k.wire \/ k'.wire = <<>>
      BY StepGood DEF Good, FInv
    <2>2. Len(k.wire) \in Nat /\ Len(<<>>) = 0
      BY Empty DEF SInv, Sound
    <2> QED
      BY <2>1, <2>2
  <1> QED
    BY <1>1, <1>2, <1>3, PTL DEF Spec, XoffObeyed

(* Until a CTS that had stopped the output comes back (check_modem_status then *)
(* disarms the transmitter), the transmitter interrupt is enabled whenever     *)
(* there is something to send and nothing holds it back.                       *)
THEOREM TxStaysArmed == Spec /\ [][CtsHeld]_vars => []TxArmed
  <1> DEFINE I == SInv /\ OInv /\ Armed(k)
  <1>1. I => TxArmed
    BY DEF Armed, TxArmed
  <1>2. I /\ [Next]_vars /\ [CtsHeld]_vars => I'
    <2> SUFFICES ASSUME I, [Next]_vars, [CtsHeld]_vars PROVE I'
      OBVIOUS
    <2>1. CtsHeld
      BY DEF CtsHeld, vars
    <2> QED
      BY <2>1, StepGood DEF Good
  <1> QED
    BY <1>1, <1>2, InitGood, PTL DEF Spec

(* Without CRTSCTS, which default_termios does not set, nothing is assumed of *)
(* CTS: output that XOFF does not hold back is never left disarmed.           *)
THEOREM TxArmedWithoutCts == NoRtsCts => (Spec => []TxArmed)
  <1> SUFFICES ASSUME NoRtsCts PROVE Spec => []TxArmed
    OBVIOUS
  <1> DEFINE I == SInv /\ OInv /\ Armed(k) /\ CtsFree
  <1>1. I => TxArmed
    BY DEF Armed, TxArmed
  <1>2. I /\ [Next]_vars => I'
    BY StepGood DEF Good, CtsHeld, CtsFree
  <1>3. Init => I
    BY InitGood
  <1> QED
    BY <1>1, <1>2, <1>3, PTL DEF Spec

(* A peer told to stop is not forgotten, and the reader and the peer never wait *)
(* for each other, provided TCSETS does not clear IXOFF or CRTSCTS while the    *)
(* peer is held by it (set_termios does not release it then).                   *)
THEOREM PeerReleased == Spec /\ [][FlowKept]_vars => [](PeerNotForgotten /\ NoMutualWait)
  <1> DEFINE I == SInv /\ OInv /\ Peer
  <1>1. I => PeerNotForgotten /\ NoMutualWait
    <2> SUFFICES ASSUME I PROVE PeerNotForgotten /\ NoMutualWait
      OBVIOUS
    <2>1. FlowWord = Word(k)
      BY DEF FlowWord, Word
    <2>2. PeerNotForgotten
      BY <2>1 DEF Peer, PeerNotForgotten
    <2>3. NoMutualWait
      BY <2>1 DEF Peer, OInv, NoMutualWait
    <2> QED
      BY <2>2, <2>3
  <1>2. I /\ [Next]_vars /\ [FlowKept]_vars => I'
    <2> SUFFICES ASSUME I, [Next]_vars, [FlowKept]_vars PROVE I'
      OBVIOUS
    <2>1. FlowKept
      BY DEF FlowKept, vars
    <2> QED
      BY <2>1, StepGood DEF Good
  <1> QED
    BY <1>1, <1>2, InitGood, PTL DEF Spec

(* The peer told to stop is remembered by tty->throttled or by the reader. *)
THEOREM PeerRemembered == Spec /\ [][FlowKept]_vars => []PeerNotForgotten
  BY PeerReleased, PTL

(* A read that spins on an empty buffer is not waiting for a peer that was *)
(* told to stop.                                                            *)
THEOREM NobodyWaits == Spec /\ [][FlowKept]_vars => []NoMutualWait
  BY PeerReleased, PTL


-----------------------------------------------------------------------------
(* Input: what is read, buffered and in the FIFO is what arrived. *)

Flags == TermiosChoices \cup {DefaultTermios}

(* The line discipline neither translates nor discards a character the peer *)
(* sends, and takes XON and XOFF for flow control.                          *)
PlainInput ==
    \A t \in Flags, c \in Input :
        /\ c \in {START_CHAR, STOP_CHAR} => "IXON" \in t
        /\ c = CR => "ICRNL" \notin t /\ "IGNCR" \notin t
        /\ c = NL => "INLCR" \notin t

Distinct(s) ==
    \A i, j \in DOMAIN s : i # j /\ IsData(s[i]) => s[i] # s[j]

(* Of the characters s those in l were lost, and h holds the others. *)
Keeps(h, s, l) ==
    /\ Data(h) = Data(s) \ l
    /\ InOrder(h, s)

(* Elements of the sequences that the steps make. *)
LEMMA Glue ==
    ASSUME NEW a \in Text, NEW b \in Text
    PROVE  /\ a \o b \in Text /\ DOMAIN (a \o b) = 1 .. Len(a) + Len(b)
           /\ \A i \in 1 .. Len(a) : (a \o b)[i] = a[i]
           /\ \A i \in 1 .. Len(b) : (a \o b)[Len(a) + i] = b[i]
           /\ Len(a) \in Nat /\ Len(b) \in Nat /\ DOMAIN a = 1 .. Len(a) /\ DOMAIN b = 1 .. Len(b)
  BY DEF Text

LEMMA Grow ==
    ASSUME NEW s \in Text, NEW c \in Nat
    PROVE  /\ Append(s, c) \in Text /\ DOMAIN Append(s, c) = 1 .. Len(s) + 1
           /\ \A i \in 1 .. Len(s) : Append(s, c)[i] = s[i]
           /\ Append(s, c)[Len(s) + 1] = c
           /\ Len(s) \in Nat /\ DOMAIN s = 1 .. Len(s)
  BY DEF Text

LEMMA Shrink ==
    ASSUME NEW s \in Text, s # <<>>
    PROVE  /\ Tail(s) \in Text /\ Len(s) \in Nat \ {0} /\ Len(Tail(s)) = Len(s) - 1
           /\ DOMAIN s = 1 .. Len(s) /\ DOMAIN Tail(s) = 1 .. Len(s) - 1
           /\ Head(s) = s[1] /\ Head(s) \in Nat
           /\ \A i \in 1 .. Len(s) - 1 : Tail(s)[i] = s[i + 1]
  BY DEF Text

(* A character that moves from the front of one queue to the end of another. *)
LEMMA Move ==
    ASSUME NEW a \in Text, NEW b \in Text, b # <<>>
    PROVE  Append(a, Head(b)) \o Tail(b) = a \o b
  BY DEF Text

LEMMA AppendIn ==
    ASSUME NEW a \in Text, NEW b \in Text, NEW c \in Nat
    PROVE  /\ a \o Append(b, c) = Append(a \o b, c)
  BY DEF Text

LEMMA DataGrow ==
    ASSUME NEW s \in Text, NEW c \in Nat
    PROVE  Data(Append(s, c)) = Data(s) \cup ({c} \ {START_CHAR, STOP_CHAR})
  <1> DEFINE t == Append(s, c)
  <1>1. /\ DOMAIN t = 1 .. Len(s) + 1 /\ \A i \in 1 .. Len(s) : t[i] = s[i]
        /\ t[Len(s) + 1] = c /\ Len(s) \in Nat /\ DOMAIN s = 1 .. Len(s)
    BY Grow
  <1> HIDE DEF t
  <1>2. {t[i] : i \in DOMAIN t} = {s[i] : i \in DOMAIN s} \cup {c}
    BY <1>1
  <1> QED
    BY <1>2 DEF Data, t

(* A character arrives, and is held or lost. *)
LEMMA Arrival ==
    ASSUME NEW h \in Text, NEW s \in Text, NEW l, NEW c \in Nat, Keeps(h, s, l),
           l \subseteq Data(s) \cup {START_CHAR, STOP_CHAR},
           IsData(c) => \A i \in DOMAIN s : s[i] # c
    PROVE  Keeps(Append(h, c), Append(s, c), l) /\ Keeps(h, Append(s, c), l \cup {c})
  <1> DEFINE g == Append(h, c)
             t == Append(s, c)
  <1>1. /\ DOMAIN g = 1 .. Len(h) + 1 /\ \A i \in 1 .. Len(h) : g[i] = h[i]
        /\ g[Len(h) + 1] = c /\ Len(h) \in Nat /\ DOMAIN h = 1 .. Len(h)
    BY Grow
  <1>2. /\ DOMAIN t = 1 .. Len(s) + 1 /\ \A i \in 1 .. Len(s) : t[i] = s[i]
        /\ t[Len(s) + 1] = c /\ Len(s) \in Nat /\ DOMAIN s = 1 .. Len(s)
    BY Grow
  <1> HIDE DEF g, t
  <1>3. Data(g) = Data(h) \cup ({c} \ {START_CHAR, STOP_CHAR})
    BY DataGrow DEF g
  <1>4. Data(t) = Data(s) \cup ({c} \ {START_CHAR, STOP_CHAR})
    BY DataGrow DEF t
  <1>5. c \notin Data(s) /\ (IsData(c) => c \notin l)
    BY DEF Data, IsData
  <1>6. Data(g) = Data(t) \ l /\ Data(h) = Data(t) \ (l \cup {c})
    BY <1>3, <1>4, <1>5 DEF Keeps, IsData
  <1>7. \A a, b : Before(s, a, b) => Before(t, a, b)
    BY <1>2 DEF Before
  <1>8. InOrder(h, t)
    BY <1>7 DEF Keeps, InOrder
  <1>9. ASSUME NEW i \in 1 .. Len(h), IsData(h[i]), IsData(c) PROVE Before(t, h[i], c)
    <2>1. h[i] \in Data(s)
      BY <1>1, <1>9 DEF Keeps, Data, IsData
    <2>2. PICK p \in 1 .. Len(s) : s[p] = h[i]
      BY <1>2, <2>1 DEF Data
    <2>3. p \in DOMAIN t /\ Len(s) + 1 \in DOMAIN t /\ p < Len(s) + 1 /\ t[p] = h[i]
      BY <1>2, <2>2
    <2> QED
      BY <1>2, <2>3 DEF Before
  <1>10. InOrder(g, t)
    <2> SUFFICES ASSUME NEW i \in 1 .. Len(h) + 1, NEW j \in 1 .. Len(h) + 1, i < j,
                        IsData(g[i]), IsData(g[j])
                 PROVE  Before(t, g[i], g[j])
      BY <1>1 DEF InOrder
    <2>1. CASE j = Len(h) + 1
      <3>1. i \in 1 .. Len(h) /\ g[i] = h[i] /\ g[j] = c
        BY <1>1, <2>1
      <3> QED
        BY <1>9, <3>1
    <2>2. CASE j # Len(h) + 1
      <3>1. i \in 1 .. Len(h) /\ j \in 1 .. Len(h) /\ g[i] = h[i] /\ g[j] = h[j]
        BY <1>1, <2>2
      <3> QED
        BY <1>1, <1>8, <3>1 DEF InOrder
    <2> QED
      BY <2>1, <2>2
  <1> QED
    BY <1>6, <1>8, <1>10 DEF Keeps, g, t

(* A character is dropped from the front of the FIFO. *)
LEMMA Dropped ==
    ASSUME NEW a \in Text, NEW f \in Text, f # <<>>, NEW s \in Text, NEW l,
           Keeps(a \o f, s, l), Distinct(s)
    PROVE  /\ Keeps(a \o Tail(f), s, l \cup {Head(f)})
           /\ ~IsData(Head(f)) => Keeps(a \o Tail(f), s, l)
  <1> DEFINE h == a \o f
             g == a \o Tail(f)
             n == Len(a)
             c == Head(f)
             Old(i) == IF i <= n THEN i ELSE i + 1
  <1>1. /\ Len(a) \in Nat /\ Len(f) \in Nat /\ DOMAIN h = 1 .. n + Len(f)
        /\ \A i \in 1 .. n : h[i] = a[i]
        /\ \A i \in 1 .. Len(f) : h[n + i] = f[i]
    BY Glue
  <1>2. /\ Tail(f) \in Text /\ Len(f) \in Nat \ {0} /\ Len(Tail(f)) = Len(f) - 1
        /\ c = f[1] /\ \A i \in 1 .. Len(f) - 1 : Tail(f)[i] = f[i + 1]
    BY Shrink
  <1>3. /\ DOMAIN g = 1 .. n + Len(Tail(f))
        /\ \A i \in 1 .. n : g[i] = a[i]
        /\ \A i \in 1 .. Len(Tail(f)) : g[n + i] = Tail(f)[i]
    BY <1>2, Glue
  <1> DEFINE z == n + Len(f)
  <1>4. z \in Nat \ {0} /\ n + 1 \in 1 .. z /\ DOMAIN h = 1 .. z /\ DOMAIN g = 1 .. z - 1
        /\ h[n + 1] = c
    BY <1>1, <1>2, <1>3
  <1>5. \A i \in 1 .. z - 1 : g[i] = h[Old(i)] /\ Old(i) \in 1 .. z /\ Old(i) # n + 1
    <2> SUFFICES ASSUME NEW i \in 1 .. z - 1
                 PROVE  g[i] = h[Old(i)] /\ Old(i) \in 1 .. z /\ Old(i) # n + 1
      OBVIOUS
    <2>1. CASE i <= n
      BY <1>1, <1>3, <2>1
    <2>2. CASE ~(i <= n)
      <3>1. i - n \in 1 .. Len(f) - 1 /\ i = n + (i - n) /\ i + 1 = n + (i - n + 1)
            /\ i - n + 1 \in 1 .. Len(f)
        BY <1>1, <1>2, <2>2
      <3>2. g[n + (i - n)] = Tail(f)[i - n] /\ Tail(f)[i - n] = f[i - n + 1]
            /\ h[n + (i - n + 1)] = f[i - n + 1]
        BY <1>1, <1>2, <1>3, <3>1
      <3>3. g[i] = h[i + 1]
        BY <3>1, <3>2
      <3> QED
        BY <1>1, <2>2, <3>3
    <2> QED
      BY <2>1, <2>2
  <1>6. \A j \in 1 .. z : j # n + 1 => \E i \in 1 .. z - 1 : Old(i) = j
    <2> SUFFICES ASSUME NEW j \in 1 .. z, j # n + 1
                 PROVE  \E i \in 1 .. z - 1 : Old(i) = j
      OBVIOUS
    <2>1. CASE j <= n
      BY <1>1, <1>2, <2>1
    <2>2. CASE ~(j <= n)
      <3>1. j - 1 \in 1 .. z - 1 /\ ~(j - 1 <= n) /\ (j - 1) + 1 = j
        BY <1>1, <1>2, <2>2
      <3> QED
        BY <3>1
    <2> QED
      BY <2>1, <2>2
  <1>7. \A i, j \in 1 .. z - 1 : i < j => Old(i) < Old(j)
    BY <1>1, <1>2
  <1> HIDE DEF g, h, z, Old, c, n
  <1>8. Data(h) = Data(s) \ l /\ InOrder(h, s)
    BY DEF Keeps, h
  <1>9. \A j \in 1 .. z : j # n + 1 /\ IsData(c) => h[j] # c
    <2> SUFFICES ASSUME NEW j \in 1 .. z, j # n + 1, IsData(c), h[j] = c PROVE FALSE
      OBVIOUS
    <2>1. j < n + 1 \/ n + 1 < j
      BY <1>1, <1>4 DEF n
    <2>2. Before(s, c, c)
      BY <1>4, <1>8, <2>1 DEF InOrder
    <2>3. PICK p \in DOMAIN s, q \in DOMAIN s : p < q /\ s[p] = c /\ s[q] = c
      BY <2>2 DEF Before
    <2>4. p # q
      <3>1. DOMAIN s = 1 .. Len(s) /\ Len(s) \in Nat
        BY DEF Text
      <3> QED
        BY <2>3, <3>1
    <2> QED
      BY <2>3, <2>4 DEF Distinct
  <1>10. Data(g) = Data(h) \ {c}
    <2>1. ASSUME NEW x \in Data(g) PROVE x \in Data(h) \ {c}
      <3>1. PICK i \in 1 .. z - 1 : x = g[i]
        BY <1>4, <2>1 DEF Data
      <3>2. x = h[Old(i)] /\ Old(i) \in DOMAIN h /\ Old(i) # n + 1 /\ x \notin {START_CHAR, STOP_CHAR}
        BY <1>4, <1>5, <2>1, <3>1 DEF Data
      <3>3. x # c
        BY <1>4, <1>9, <3>2 DEF IsData
      <3> QED
        BY <3>2, <3>3 DEF Data
    <2>2. ASSUME NEW x \in Data(h), x # c PROVE x \in Data(g)
      <3>1. PICK j \in 1 .. z : x = h[j] /\ j # n + 1
        BY <1>4, <2>2 DEF Data
      <3>2. PICK i \in 1 .. z - 1 : Old(i) = j
        BY <1>6, <3>1
      <3>3. x = g[i] /\ i \in DOMAIN g
        BY <1>4, <1>5, <3>1, <3>2
      <3> QED
        BY <2>2, <3>3 DEF Data
    <2> QED
      BY <2>1, <2>2
  <1>11. InOrder(g, s)
    <2> SUFFICES ASSUME NEW i \in 1 .. z - 1, NEW j \in 1 .. z - 1, i < j,
                        IsData(g[i]), IsData(g[j])
                 PROVE  Before(s, g[i], g[j])
      BY <1>4 DEF InOrder
    <2>1. /\ g[i] = h[Old(i)] /\ g[j] = h[Old(j)] /\ Old(i) < Old(j)
          /\ Old(i) \in DOMAIN h /\ Old(j) \in DOMAIN h
      BY <1>4, <1>5, <1>7
    <2> QED
      BY <1>8, <2>1 DEF InOrder
  <1>12. ~IsData(c) => c \notin Data(h)
    BY DEF IsData, Data
  <1> QED
    BY <1>8, <1>10, <1>11, <1>12 DEF Keeps, g, c

-----------------------------------------------------------------------------
(* What the line discipline does to the input buffer. *)
LEMMA ThrottleRx ==
    ASSUME NEW m, Machine(m)
    PROVE  Machine(serial_throttle(m)) /\ serial_throttle(m).rx = m.rx
  <1> DEFINE y == [m EXCEPT !.xchar = STOP_CHAR]
             x == IF "IXOFF" \in m.termios THEN tx_enable(y) ELSE m
  <1>1. Machine(y) /\ y.rx = m.rx
    BY DEF Machine, Fields
  <1> HIDE DEF y
  <1>2. Same(y, tx_enable(y), {"ier", "thri", "irr"})
    BY <1>1, Enable
  <1>3. Machine(x) /\ x.rx = m.rx
    BY <1>1, <1>2 DEF Same, Fields
  <1>4. serial_throttle(m) = IF "CRTSCTS" \in m.termios THEN [x EXCEPT !.rts = FALSE] ELSE x
    BY DEF serial_throttle, y
  <1> HIDE DEF x
  <1> QED
    BY <1>3, <1>4 DEF Machine, Fields

LEMMA StoreRx ==
    ASSUME NEW m, Machine(m), NEW c
    PROVE  recv_store(m, c).rx \in {m.rx, Append(m.rx, c)}
  <1> DEFINE new == IF Len(m.rx) < TTY_BUFFER_SIZE THEN Append(m.rx, c) ELSE m.rx
             put == [m EXCEPT !.rx = new]
             fl == serial_flush(put)
             set == [fl EXCEPT !.throttled = TRUE]
  <1>1. \/ recv_store(m, c) = fl
        \/ recv_store(m, c) = serial_throttle(set)
    BY DEF recv_store, throttle_tty
  <1>2. new \in {m.rx, Append(m.rx, c)}
    OBVIOUS
  <1> HIDE DEF new
  <1>3. Machine(put) /\ put.rx = new
    BY DEF Machine, Fields
  <1> HIDE DEF put
  <1>4. Machine(fl) /\ fl.rx = new
    BY <1>3, Flush DEF Same, Fields
  <1> HIDE DEF fl
  <1>5. Machine(set) /\ set.rx = new
    BY <1>4 DEF Machine, Fields
  <1> HIDE DEF set
  <1>6. serial_throttle(set).rx = new
    BY <1>5, ThrottleRx
  <1> QED
    BY <1>1, <1>2, <1>4, <1>6

LEMMA RecvRx ==
    ASSUME NEW m, Sound(m), NEW c \in Nat
    PROVE  /\ "IXON" \in m.termios /\ c \in {START_CHAR, STOP_CHAR}
                => n_tty_recv(m, c).rx = m.rx
           /\ n_tty_recv(m, c).rx \in {m.rx, Append(m.rx, icrnl(m, c))}
  <1> DEFINE d == icrnl(m, c)
             e == echo(m, d)
  <1>1. d \in Nat /\ <<BEL>> \in Text
    BY OutputChars DEF icrnl, NL, CR, BEL
  <1>2. n_tty_recv(m, c) =
           CASE "IXON" \in m.termios /\ c = START_CHAR -> start_tty(m)
             [] "IXON" \in m.termios /\ c = STOP_CHAR  -> stop_tty(m)
             [] OTHER ->
                   IF "ECHO" \notin m.termios THEN recv_store(m, d)
                   ELSE IF n_tty_recv_room(m) <= 1 THEN write_char(m, BEL)
                   ELSE recv_store(e, d)
    BY DEF n_tty_recv
  <1> HIDE DEF d
  <1>3. start_tty(m).rx = m.rx /\ stop_tty(m).rx = m.rx
    BY StartStop DEF Same, Fields
  <1>4. e.rx = m.rx /\ Machine(e)
    BY <1>1, EchoSound DEF Same, Fields
  <1> HIDE DEF e
  <1>5. write_char(m, BEL).rx = m.rx
    BY <1>1, WriteSound DEF write_char, Same, Fields
  <1>6. recv_store(m, d).rx \in {m.rx, Append(m.rx, d)}
    BY StoreRx DEF Sound
  <1>7. recv_store(e, d).rx \in {m.rx, Append(m.rx, d)}
    BY <1>4, StoreRx
  <1>8. START_CHAR # STOP_CHAR
    BY DEF START_CHAR, STOP_CHAR
  <1>9. "IXON" \in m.termios /\ c \in {START_CHAR, STOP_CHAR} => n_tty_recv(m, c).rx = m.rx
    BY <1>2, <1>3, <1>8
  <1>10. n_tty_recv(m, c).rx \in {m.rx, Append(m.rx, d)}
    <2>1. CASE "IXON" \in m.termios /\ c \in {START_CHAR, STOP_CHAR}
      BY <1>9, <2>1
    <2>2. CASE ~("IXON" \in m.termios /\ c \in {START_CHAR, STOP_CHAR})
      <3>1. \/ n_tty_recv(m, c) = recv_store(m, d)
            \/ n_tty_recv(m, c) = write_char(m, BEL)
            \/ n_tty_recv(m, c) = recv_store(e, d)
        BY <1>2, <2>2
      <3> QED
        BY <1>5, <1>6, <1>7, <3>1
    <2> QED
      BY <2>1, <2>2
  <1> QED
    BY <1>9, <1>10 DEF d

-----------------------------------------------------------------------------
(* The port is open with flags of the instance, the characters in the FIFO came *)
(* from the peer, its data are distinct and only what arrived was lost.         *)
InputInv ==
    /\ k.open /\ k.termios \in Flags
    /\ hist.arrived \in Text /\ hist.got \in Text
    /\ \A i \in DOMAIN k.fifo : k.fifo[i] \in Input
    /\ Distinct(hist.arrived)
    /\ hist.lost \subseteq Data(hist.arrived) \cup {START_CHAR, STOP_CHAR}
    /\ InputIntact

Delivered == hist.got \o k.rx

LEMMA IntactIs ==
    InputIntact <=> /\ Keeps(Delivered \o k.fifo, hist.arrived, hist.lost)
                    /\ \A i \in DOMAIN Delivered : IsData(Delivered[i])
  BY DEF InputIntact, Keeps, Delivered

(* A step that leaves the input alone. *)
LEMMA InputStill ==
    ASSUME InputInv, k'.open = k.open, k'.termios \in Flags, k'.rx = k.rx, k'.fifo = k.fifo,
           hist'.arrived = hist.arrived, hist'.lost = hist.lost, hist'.got = hist.got
    PROVE  InputInv'
  BY DEF InputInv, InputIntact

Silent == {"throttled", "stopped", "hw_stopped", "com_open", "com_tty", "tx", "xchar", "acc",
           "ier", "tmo", "oe", "rts", "thr", "thri", "over", "wire", "told", "cts", "dcts", "irr"}

LEMMA InputSilent ==
    ASSUME InputInv, NEW F, F \subseteq Silent, Same(k, k', F),
           hist'.arrived = hist.arrived, hist'.lost = hist.lost, hist'.got = hist.got
    PROVE  InputInv'
  <1>1. k'.open = k.open /\ k'.termios = k.termios /\ k'.rx = k.rx /\ k'.fifo = k.fifo
    BY DEF Same, Fields, Silent
  <1>2. k'.termios \in Flags
    BY <1>1 DEF InputInv
  <1> QED
    BY <1>1, <1>2, InputStill

(* A system call counts itself. *)
LEMMA CallInput ==
    ASSUME SInv, NEW name, Call(name)
    PROVE  /\ hist'.arrived = hist.arrived /\ hist'.lost = hist.lost /\ hist'.got = hist.got
           /\ name \in Calls
  BY DEF SInv, HistFields, Call

LEMMA HwInput ==
    ASSUME SInv, InputInv, HwNext
    PROVE  InputInv'
  <1>0. Sound(k) /\ HistFields \subseteq DOMAIN hist
    BY DEF SInv
  <1>1. CASE HwReceive
    <2>1. PICK c \in Input :
             /\ \A i \in 1 .. Len(hist.arrived) :
                    hist.arrived[i] # c \/ c \in {START_CHAR, STOP_CHAR}
             /\ k' = Receive(k, c)
             /\ hist' = [hist EXCEPT !.arrived = Append(@, c),
                            !.lost = IF Len(k.fifo) < FIFO_DEPTH THEN @ ELSE @ \cup {c}]
      BY <1>1 DEF HwReceive
    <2>2. c \in Nat
      BY Sizes
    <2>3. /\ hist'.arrived = Append(hist.arrived, c) /\ hist'.got = hist.got
          /\ hist'.lost = IF Len(k.fifo) < FIFO_DEPTH THEN hist.lost ELSE hist.lost \cup {c}
      BY <1>0, <2>1 DEF HistFields
    <2>4. k'.fifo = IF Len(k.fifo) < FIFO_DEPTH THEN Append(k.fifo, c) ELSE k.fifo
      BY <1>0, <2>1 DEF Receive, Latch, Sound, Machine, Fields
    <2>5. k'.open = k.open /\ k'.termios = k.termios /\ k'.rx = k.rx
      BY <1>0, <2>1, <2>2, FifoSound DEF Same, Fields
    <2>6. /\ hist.arrived \in Text /\ hist.got \in Text /\ k.rx \in Text /\ k.fifo \in Text
          /\ Keeps(Delivered \o k.fifo, hist.arrived, hist.lost)
          /\ \A i \in DOMAIN Delivered : IsData(Delivered[i])
      BY <1>0, IntactIs DEF InputInv, Sound
    <2>7. Delivered' = Delivered /\ Delivered \in Text /\ Delivered \o k.fifo \in Text
      BY <2>3, <2>5, <2>6, Glue DEF Delivered
    <2>8. /\ hist'.arrived \in Text /\ DOMAIN hist.arrived = 1 .. Len(hist.arrived)
          /\ DOMAIN hist'.arrived = 1 .. Len(hist.arrived) + 1 /\ Len(hist.arrived) \in Nat
          /\ \A i \in 1 .. Len(hist.arrived) : hist'.arrived[i] = hist.arrived[i]
          /\ hist'.arrived[Len(hist.arrived) + 1] = c
      <3> DEFINE s == hist.arrived
      <3>1. s \in Text /\ hist'.arrived = Append(s, c)
        BY <2>3, <2>6
      <3> HIDE DEF s
      <3>2. /\ Append(s, c) \in Text /\ DOMAIN Append(s, c) = 1 .. Len(s) + 1
            /\ \A i \in 1 .. Len(s) : Append(s, c)[i] = s[i]
            /\ Append(s, c)[Len(s) + 1] = c
            /\ Len(s) \in Nat /\ DOMAIN s = 1 .. Len(s)
        BY <2>2, <3>1, Grow
      <3> QED
        BY <3>1, <3>2, Zenon DEF s
    <2>9. IsData(c) => \A i \in DOMAIN hist.arrived : hist.arrived[i] # c
      BY <2>1, <2>8 DEF IsData
    <2>10. Distinct(hist'.arrived)
      <3> SUFFICES ASSUME NEW i \in 1 .. Len(hist.arrived) + 1, NEW j \in 1 .. Len(hist.arrived) + 1,
                          i # j, IsData(hist'.arrived[i])
                   PROVE  hist'.arrived[i] # hist'.arrived[j]
        BY <2>8 DEF Distinct
      <3>1. CASE i \in 1 .. Len(hist.arrived) /\ j \in 1 .. Len(hist.arrived)
        BY <2>8, <3>1 DEF InputInv, Distinct
      <3>2. CASE i = Len(hist.arrived) + 1
        <4>1. j \in 1 .. Len(hist.arrived)
          BY <2>8, <3>2
        <4> QED
          BY <2>8, <2>9, <3>2, <4>1
      <3>3. CASE j = Len(hist.arrived) + 1 /\ i \in 1 .. Len(hist.arrived)
        BY <2>8, <2>9, <3>3
      <3> QED
        BY <2>8, <3>1, <3>2, <3>3
    <2>11. Data(hist'.arrived) = Data(hist.arrived) \cup ({c} \ {START_CHAR, STOP_CHAR})
      BY <2>2, <2>3, <2>6, DataGrow, Zenon
    <2>12. hist'.lost \subseteq Data(hist'.arrived) \cup {START_CHAR, STOP_CHAR}
      BY <2>3, <2>11 DEF InputInv
    <2>13. /\ Keeps(Append(Delivered \o k.fifo, c), hist'.arrived, hist.lost)
           /\ Keeps(Delivered \o k.fifo, hist'.arrived, hist.lost \cup {c})
      <3>1. hist.lost \subseteq Data(hist.arrived) \cup {START_CHAR, STOP_CHAR}
        BY DEF InputInv
      <3>2. /\ Keeps(Append(Delivered \o k.fifo, c), Append(hist.arrived, c), hist.lost)
            /\ Keeps(Delivered \o k.fifo, Append(hist.arrived, c), hist.lost \cup {c})
        BY <2>2, <2>6, <2>7, <2>9, <3>1, Arrival, ZenonT(60)
      <3> QED
        BY <2>3, <3>2, Zenon
    <2>14. Delivered \o Append(k.fifo, c) = Append(Delivered \o k.fifo, c)
      BY <2>2, <2>6, <2>7, AppendIn
    <2>15. Keeps(Delivered' \o k'.fifo, hist'.arrived, hist'.lost)
      BY <2>3, <2>4, <2>7, <2>13, <2>14
    <2>16. InputIntact'
      BY <2>6, <2>7, <2>15, IntactIs DEF InputIntact, Keeps, Delivered
    <2>17. \A i \in DOMAIN k'.fifo : k'.fifo[i] \in Input
      <3>1. \A i \in DOMAIN Append(k.fifo, c) : Append(k.fifo, c)[i] \in Input
        <4> DEFINE f == k.fifo
        <4>1. f \in Text /\ \A i \in DOMAIN f : f[i] \in Input
          BY <2>6 DEF InputInv
        <4> HIDE DEF f
        <4>2. /\ DOMAIN Append(f, c) = 1 .. Len(f) + 1 /\ DOMAIN f = 1 .. Len(f)
              /\ \A i \in 1 .. Len(f) : Append(f, c)[i] = f[i]
              /\ Append(f, c)[Len(f) + 1] = c /\ Len(f) \in Nat
          BY <2>2, <4>1, Grow
        <4>3. \A i \in DOMAIN Append(f, c) : Append(f, c)[i] \in Input
          BY <4>1, <4>2
        <4> QED
          BY <4>3 DEF f
      <3> QED
        BY <2>4, <3>1 DEF InputInv
    <2> QED
      BY <2>3, <2>5, <2>6, <2>8, <2>10, <2>12, <2>16, <2>17 DEF InputInv
  <1>2. CASE HwTimeout
    BY <1>0, <1>2, RegisterSound, InputSilent DEF HwTimeout, Silent
  <1>3. CASE HwTransmit
    BY <1>0, <1>3, RegisterSound, InputSilent DEF HwTransmit, Silent
  <1>4. CASE HwCts
    <2>1. Same(k, k', {"cts", "dcts", "irr"})
      BY <1>0, <1>4, RegisterSound DEF HwCts
    <2>2. hist'.arrived = hist.arrived /\ hist'.lost = hist.lost /\ hist'.got = hist.got
      BY <1>0, <1>4 DEF HwCts, HistFields
    <2>3. {"cts", "dcts", "irr"} \subseteq Silent
      BY DEF Silent
    <2> QED
      BY <2>1, <2>2, <2>3, InputSilent
  <1> QED
    BY <1>1, <1>2, <1>3, <1>4 DEF HwNext

(* The handler takes a character from the FIFO: it is stored, dropped, or obeyed. *)
LEMMA RecvInput ==
    ASSUME SInv, OInv, InputInv, PlainInput, IsrRx, isr'.pc # "null"
    PROVE  InputInv'
  <1> DEFINE c == Head(k.fifo)
             r == read_RX(k)
             m == n_tty_recv(r, c)
             flow == "IXON" \in k.termios /\ c \in {START_CHAR, STOP_CHAR}
  <1>0. Sound(k) /\ HistFields \subseteq DOMAIN hist /\ IsrFields \subseteq DOMAIN isr
    BY DEF SInv
  <1>1. k.fifo # <<>> /\ k.fifo \in Text /\ k.rx \in Text
    BY <1>0 DEF IsrRx, Isr, SInv, Sound
  <1>2. Sound(r) /\ c \in Nat /\ Same(k, r, {"fifo", "tmo", "irr"})
    BY <1>0, <1>1, FifoSound
  <1>3. r.fifo = Tail(k.fifo)
    BY <1>0 DEF read_RX, Latch, Sound, Machine, Fields
  <1>4. /\ Tail(k.fifo) \in Text /\ Len(k.fifo) \in Nat \ {0} /\ DOMAIN k.fifo = 1 .. Len(k.fifo)
        /\ DOMAIN Tail(k.fifo) = 1 .. Len(k.fifo) - 1 /\ c = k.fifo[1]
        /\ \A i \in 1 .. Len(k.fifo) - 1 : Tail(k.fifo)[i] = k.fifo[i + 1]
    <2> DEFINE f == k.fifo
    <2>1. f \in Text /\ f # <<>>
      BY <1>1
    <2> HIDE DEF f
    <2>2. /\ Tail(f) \in Text /\ Len(f) \in Nat \ {0} /\ DOMAIN f = 1 .. Len(f)
          /\ DOMAIN Tail(f) = 1 .. Len(f) - 1 /\ Head(f) = f[1]
          /\ \A i \in 1 .. Len(f) - 1 : Tail(f)[i] = f[i + 1]
      BY <2>1, Shrink
    <2> QED
      BY <2>2 DEF f
  <1>5. /\ c \in Input /\ \A i \in DOMAIN Tail(k.fifo) : Tail(k.fifo)[i] \in Input
    BY <1>4 DEF InputInv
  <1>6. /\ IsData(c) \/ "IXON" \in k.termios
        /\ ~recv_never_returns(k, c) /\ icrnl(r, c) = c
    <2>1. r.termios = k.termios
      BY <1>2 DEF Same, Fields
    <2>2. /\ c \in {START_CHAR, STOP_CHAR} => "IXON" \in k.termios
          /\ c = CR => "ICRNL" \notin k.termios /\ "IGNCR" \notin k.termios
          /\ c = NL => "INLCR" \notin k.termios
      BY <1>5 DEF PlainInput, InputInv
    <2> HIDE DEF c, r
    <2>3. icrnl(r, c) = c
      BY <2>1, <2>2 DEF icrnl
    <2> QED
      BY <2>2, <2>3 DEF IsData, recv_never_returns
  <1>7. /\ k' = m /\ isr' = [isr EXCEPT !.pc = "rx_lsr", !.count = @ - 1]
        /\ hist' = IF flow THEN [hist EXCEPT !.flow = c]
                   ELSE [hist EXCEPT !.lost = IF m.rx = k.rx THEN @ \cup {c} ELSE @]
    <2>1. k.com_tty
      <3> SUFFICES ASSUME ~k.com_tty PROVE FALSE
        OBVIOUS
      <3>1. isr' = [isr EXCEPT !.pc = "null"]
        BY DEF IsrRx
      <3> QED
        BY <1>0, <3>1 DEF IsrFields
    <2> QED
      BY <1>6, <2>1 DEF IsrRx
  <1>8. /\ Same(r, m, Received)
        /\ flow => m.rx = k.rx
        /\ m.rx \in {k.rx, Append(k.rx, c)}
    <2>1. r.termios = k.termios /\ r.rx = k.rx
      BY <1>2 DEF Same, Fields
    <2>2. Same(r, m, Received)
      BY <1>2, RecvSound
    <2>3. /\ "IXON" \in r.termios /\ c \in {START_CHAR, STOP_CHAR} => m.rx = r.rx
          /\ m.rx \in {r.rx, Append(r.rx, icrnl(r, c))}
      BY <1>2, RecvRx
    <2> HIDE DEF c, r, m
    <2> QED
      BY <1>6, <2>1, <2>2, <2>3
  <1> HIDE DEF r, m, c
  <1>9. k'.open = k.open /\ k'.termios = k.termios /\ k'.fifo = Tail(k.fifo)
    BY <1>2, <1>3, <1>7, <1>8 DEF Same, Fields, Received
  <1>10. /\ hist'.arrived = hist.arrived /\ hist'.got = hist.got
         /\ hist'.lost = IF ~flow /\ m.rx = k.rx THEN hist.lost \cup {c} ELSE hist.lost
    BY <1>0, <1>7 DEF HistFields
  <1>11. /\ hist.arrived \in Text /\ hist.got \in Text /\ Distinct(hist.arrived)
         /\ Keeps(Delivered \o k.fifo, hist.arrived, hist.lost)
         /\ \A i \in DOMAIN Delivered : IsData(Delivered[i])
    BY IntactIs DEF InputInv
  <1>12. Delivered \in Text
    BY <1>1, <1>11, Glue DEF Delivered
  <1>13. Keeps(Delivered' \o k'.fifo, hist'.arrived, hist'.lost)
         /\ \A i \in DOMAIN Delivered' : IsData(Delivered'[i])
    <2>1. CASE m.rx = k.rx
      <3>1. Delivered' = Delivered
        BY <1>7, <1>10, <2>1 DEF Delivered
      <3>2. /\ Keeps(Delivered \o Tail(k.fifo), hist.arrived, hist.lost \cup {c})
            /\ ~IsData(c) => Keeps(Delivered \o Tail(k.fifo), hist.arrived, hist.lost)
        BY <1>1, <1>11, <1>12, Dropped DEF c
      <3>3. flow => ~IsData(c)
        BY DEF IsData
      <3> QED
        BY <1>9, <1>10, <1>11, <2>1, <3>1, <3>2, <3>3
    <2>2. CASE m.rx # k.rx
      <3>1. m.rx = Append(k.rx, c) /\ ~flow /\ IsData(c)
        BY <1>6, <1>8, <2>2 DEF IsData
      <3>2. Delivered' = Append(Delivered, c)
        <4>1. Delivered' = hist.got \o Append(k.rx, c)
          BY <1>7, <1>10, <3>1 DEF Delivered
        <4>2. hist.got \o Append(k.rx, c) = Append(hist.got \o k.rx, c)
          BY <1>1, <1>2, <1>11, AppendIn, Zenon
        <4> QED
          BY <4>1, <4>2 DEF Delivered
      <3>3. Append(Delivered, c) \o Tail(k.fifo) = Delivered \o k.fifo
        BY <1>1, <1>12, Move DEF c
      <3>4. Keeps(Delivered' \o k'.fifo, hist'.arrived, hist'.lost)
        <4>1. hist'.lost = hist.lost
          BY <1>10, <2>2
        <4> QED
          BY <1>9, <1>10, <1>11, <3>2, <3>3, <4>1
      <3>5. \A i \in DOMAIN Append(Delivered, c) : IsData(Append(Delivered, c)[i])
        <4> DEFINE d == Delivered
        <4>1. d \in Text /\ \A i \in DOMAIN d : IsData(d[i])
          BY <1>11, <1>12
        <4> HIDE DEF d
        <4>2. /\ DOMAIN Append(d, c) = 1 .. Len(d) + 1 /\ DOMAIN d = 1 .. Len(d)
              /\ \A i \in 1 .. Len(d) : Append(d, c)[i] = d[i]
              /\ Append(d, c)[Len(d) + 1] = c /\ Len(d) \in Nat
          BY <1>2, <4>1, Grow
        <4>3. \A i \in DOMAIN Append(d, c) : IsData(Append(d, c)[i])
          BY <3>1, <4>1, <4>2
        <4> QED
          BY <4>3 DEF d
      <3> QED
        BY <3>2, <3>4, <3>5
    <2> QED
      BY <2>1, <2>2
  <1>14. InputIntact'
    BY <1>13 DEF InputIntact, Keeps, Delivered
  <1>15. hist'.lost \subseteq Data(hist'.arrived) \cup {START_CHAR, STOP_CHAR}
    <2>1. c \in Data(hist.arrived) \cup {START_CHAR, STOP_CHAR}
      <3> DEFINE d == Delivered
                 f == k.fifo
      <3>1. d \in Text /\ f \in Text /\ Len(f) \in Nat \ {0} /\ f[1] = c
        BY <1>1, <1>4, <1>12
      <3>2. Data(d \o f) \subseteq Data(hist.arrived)
        BY <1>11 DEF Keeps
      <3> HIDE DEF d, f
      <3>3. /\ DOMAIN (d \o f) = 1 .. Len(d) + Len(f) /\ Len(d) \in Nat
            /\ \A i \in 1 .. Len(f) : (d \o f)[Len(d) + i] = f[i]
        BY <3>1, Glue
      <3>4. Len(d) + 1 \in DOMAIN (d \o f) /\ (d \o f)[Len(d) + 1] = c
        BY <3>1, <3>3
      <3>5. c \in Data(d \o f) \cup {START_CHAR, STOP_CHAR}
        BY <3>4 DEF Data
      <3> QED
        BY <3>2, <3>5
    <2> QED
      BY <1>10, <2>1 DEF InputInv
  <1> QED
    BY <1>5, <1>9, <1>10, <1>11, <1>14, <1>15 DEF InputInv

LEMMA IsrInput ==
    ASSUME SInv, OInv, InputInv, PlainInput, IsrNext, isr'.pc # "null"
    PROVE  InputInv'
  <1>0. Sound(k) /\ Machine(k)
    BY DEF SInv, Sound
  <1>1. ASSUME NEW F, F \subseteq Silent, Same(k, k', F), hist' = hist PROVE InputInv'
    BY <1>1, InputSilent
  <1>2. CASE IrqEnter
    <2>1. Same(k, k', {"irr"}) /\ hist' = hist
      BY <1>0, <1>2 DEF IrqEnter, Same, Machine, Fields
    <2>2. {"irr"} \subseteq Silent
      BY DEF Silent
    <2> QED
      BY <1>1, <2>1, <2>2
  <1>3. CASE IsrIir \/ IsrPass
    <2>1. (k' = k \/ k' = read_IIR(k)) /\ hist' = hist
      BY <1>3 DEF IsrIir, IsrPass
    <2>2. Same(k, k, {"thri", "irr"})
      BY <1>0 DEF Same
    <2>3. Same(k, k', {"thri", "irr"})
      BY <1>0, <2>1, <2>2, RegisterSound
    <2>4. {"thri", "irr"} \subseteq Silent
      BY DEF Silent
    <2> QED
      BY <1>1, <2>1, <2>3, <2>4
  <1>4. CASE IsrLsr \/ IsrRxLsr
    <2>1. k' = read_LSR(k) /\ hist' = hist
      BY <1>4 DEF IsrLsr, IsrRxLsr
    <2>2. Same(k, k', {"oe", "irr"})
      BY <1>0, <2>1, RegisterSound
    <2>3. {"oe", "irr"} \subseteq Silent
      BY DEF Silent
    <2> QED
      BY <1>1, <2>1, <2>2, <2>3
  <1>5. CASE IsrMsr
    <2>1. (k' = k \/ k' = check_modem_status(k)) /\ hist' = hist
      BY <1>5 DEF IsrMsr
    <2>2. Same(k, k, {"dcts", "hw_stopped", "ier", "thri", "irr"})
      BY <1>0 DEF Same
    <2>3. Same(k, k', {"dcts", "hw_stopped", "ier", "thri", "irr"})
      BY <1>0, <2>1, <2>2, ModemSound
    <2>4. {"dcts", "hw_stopped", "ier", "thri", "irr"} \subseteq Silent
      BY DEF Silent
    <2> QED
      BY <1>1, <2>1, <2>3, <2>4
  <1>6. CASE IsrTx
    <2>1. /\ hist' = hist
          /\ Same(k, k', {"tx", "wire", "xchar", "told", "thr", "over", "thri", "irr", "ier"})
      BY <1>0, <1>6, SendSound DEF IsrTx
    <2>2. {"tx", "wire", "xchar", "told", "thr", "over", "thri", "irr", "ier"} \subseteq Silent
      BY DEF Silent
    <2> QED
      BY <1>1, <2>1, <2>2
  <1>7. CASE IsrRx
    BY <1>7, RecvInput
  <1> QED
    BY <1>2, <1>3, <1>4, <1>5, <1>6, <1>7 DEF IsrNext

LEMMA TaskInput ==
    ASSUME SInv, OInv, InputInv, TaskNext
    PROVE  InputInv'
  <1>0. Sound(k) /\ Machine(k) /\ HistFields \subseteq DOMAIN hist
    BY DEF SInv, Sound
  <1> DEFINE Kept == hist'.arrived = hist.arrived /\ hist'.lost = hist.lost /\ hist'.got = hist.got
  <1>1. ASSUME k' = k, Kept PROVE InputInv'
    BY <1>1, InputStill DEF InputInv
  <1>2. ASSUME NEW F, F \subseteq Silent, Same(k, k', F), Kept PROVE InputInv'
    BY <1>2, InputSilent
  <1>3. CASE SysOpenAgain
    BY <1>1, <1>3, CallInput DEF SysOpenAgain
  <1>4. CASE SysOpen \/ SysOpenFails
    BY <1>4 DEF SysOpen, SysOpenFails, InputInv
  <1>5. CASE SysClose \/ WriteFlush
    <2>1. k' = serial_flush(k) /\ Kept
      BY <1>5, CallInput DEF SysClose, WriteFlush
    <2>2. Same(k, k', {"ier", "thri", "irr"})
      BY <1>0, <2>1, Flush
    <2>3. {"ier", "thri", "irr"} \subseteq Silent
      BY DEF Silent
    <2> QED
      BY <1>2, <2>1, <2>2, <2>3
  <1>6. CASE CloseTty \/ CloseOpen \/ ReadUnthrottle
    <2>1. Same(k, k', {"com_tty", "com_open", "throttled"}) /\ Kept
      BY <1>0, <1>6 DEF CloseTty, CloseOpen, ReadUnthrottle, Same, Machine, Fields
    <2>2. {"com_tty", "com_open", "throttled"} \subseteq Silent
      BY DEF Silent
    <2> QED
      BY <1>2, <2>1, <2>2
  <1>7. CASE SysRead \/ ReadWouldBlock \/ ReadRoom \/ WriteOpost \/ WriteDone
    BY <1>1, <1>7 DEF SysRead, ReadWouldBlock, ReadRoom, WriteOpost, WriteDone
  <1>8. CASE ReadUnthrottleDriver
    <2>1. Same(k, k', {"xchar", "rts", "ier", "thri", "irr"}) /\ Kept
      BY <1>0, <1>8, ThrottleTells DEF ReadUnthrottleDriver, Told
    <2>2. {"xchar", "rts", "ier", "thri", "irr"} \subseteq Silent
      BY DEF Silent
    <2> QED
      BY <1>2, <2>1, <2>2
  <1>9. CASE SysWrite
    BY <1>1, <1>9, CallInput DEF SysWrite
  <1>10. CASE WriteChar \/ WriteRaw
    <2>1. \E b \in Text : k' = serial_write(k, b)
      <3>1. CASE WriteChar
        <4>1. task.out \in Text /\ task.out # <<>>
          BY <3>1 DEF WriteChar, Task, SInv
        <4>2. Head(task.out) \in Nat
          BY <4>1, Ends, Zenon
        <4>3. <<Head(task.out)>> \in Text
          BY <4>2, OutputChars
        <4> QED
          BY <3>1, <4>3 DEF WriteChar, write_char
      <3>2. CASE WriteRaw
        BY <3>2 DEF WriteRaw, SInv
      <3> QED
        BY <1>10, <3>1, <3>2
    <2>2. Same(k, k', {"tx", "acc", "ier", "thri", "irr"})
      BY <1>0, <2>1, WriteSound
    <2>3. Kept
      BY <1>0, <1>10 DEF WriteChar, WriteRaw, HistFields
    <2>4. {"tx", "acc", "ier", "thri", "irr"} \subseteq Silent
      BY DEF Silent
    <2> QED
      BY <1>2, <2>2, <2>3, <2>4
  <1>11. CASE SysTcsets
    <2>1. PICK t \in TermiosChoices : k' = [k EXCEPT !.termios = t]
      BY <1>11 DEF SysTcsets
    <2>2. /\ k'.termios = t /\ k'.open = k.open /\ k'.rx = k.rx /\ k'.fifo = k.fifo
      BY <1>0, <2>1 DEF Machine, Fields
    <2>3. Kept
      BY <1>11, CallInput DEF SysTcsets
    <2> QED
      BY <2>2, <2>3, InputStill DEF Flags
  <1>12. CASE SysTiocmget
    <2>1. (k' = k \/ k' = check_modem_status(k)) /\ Kept
      BY <1>12, CallInput DEF SysTiocmget
    <2>2. Same(k, k, {"dcts", "hw_stopped", "ier", "thri", "irr"})
      BY <1>0 DEF Same
    <2>3. Same(k, k', {"dcts", "hw_stopped", "ier", "thri", "irr"})
      BY <1>0, <2>1, <2>2, ModemSound
    <2>4. {"dcts", "hw_stopped", "ier", "thri", "irr"} \subseteq Silent
      BY DEF Silent
    <2> QED
      BY <1>2, <2>1, <2>3, <2>4
  <1>13. CASE ReadGet
    <2>1. k.rx # <<>> /\ k.rx \in Text /\ hist.got \in Text
      BY <1>0, <1>13 DEF ReadGet, Sound, InputInv
    <2>2. k'.rx = Tail(k.rx) /\ k'.open = k.open /\ k'.termios = k.termios /\ k'.fifo = k.fifo
      BY <1>0, <1>13 DEF ReadGet, Machine, Fields
    <2>3. /\ hist'.got = Append(hist.got, Head(k.rx))
          /\ hist'.arrived = hist.arrived /\ hist'.lost = hist.lost
      BY <1>0, <1>13 DEF ReadGet, HistFields
    <2>4. Append(hist.got, Head(k.rx)) \o Tail(k.rx) = hist.got \o k.rx
      BY <2>1, Move
    <2>5. Append(hist.got, Head(k.rx)) \in Text
      BY <2>1, Ends, Zenon
    <2>6. InputIntact'
      BY <2>2, <2>3, <2>4 DEF InputInv, InputIntact
    <2> QED
      BY <2>2, <2>3, <2>5, <2>6 DEF InputInv
  <1> QED
    BY <1>3, <1>4, <1>5, <1>6, <1>7, <1>8, <1>9, <1>10, <1>11, <1>12, <1>13 DEF TaskNext

LEMMA InputStep ==
    SInv /\ OInv /\ InputInv /\ PlainInput /\ [Next]_vars /\ OpenPortHasTty' => InputInv'
  <1> SUFFICES ASSUME SInv, OInv, InputInv, PlainInput, [Next]_vars, isr'.pc # "null"
               PROVE  InputInv'
    BY DEF OpenPortHasTty
  <1>1. CASE Next
    BY <1>1, HwInput, IsrInput, TaskInput DEF Next
  <1>2. CASE UNCHANGED vars
    BY <1>2, InputStill DEF vars, InputInv
  <1> QED
    BY <1>1, <1>2

(* A port that has just been opened has its tty, and no input. *)
LEMMA OpenInput ==
    ASSUME NEW m, Machine(m)
    PROVE  /\ tty_open_internal(m).rx = <<>> /\ tty_open_internal(m).fifo = <<>>
           /\ tty_open_internal(m).open /\ tty_open_internal(m).termios = DefaultTermios
           /\ tty_open_internal(m).com_tty
  <1> DEFINE a == n_tty_open([m EXCEPT !.termios = DefaultTermios])
  <1>1. Machine(a) /\ a.termios = DefaultTermios /\ a.rx = <<>>
    BY DEF n_tty_open, Machine, Fields
  <1> HIDE DEF a
  <1> DEFINE b == serial_open(a)
  <1>2. /\ Machine(b) /\ b.termios = DefaultTermios /\ b.rx = <<>> /\ b.fifo = <<>>
        /\ b.com_tty = TRUE
    BY <1>1 DEF serial_open, Machine, Fields
  <1> HIDE DEF b
  <1>3. tty_open_internal(m) = [b EXCEPT !.open = TRUE, !.throttled = FALSE, !.stopped = FALSE,
                                         !.hw_stopped = FALSE]
    BY DEF tty_open_internal, a, b
  <1> QED
    BY <1>2, <1>3 DEF Machine, Fields

LEMMA InputInit == Opened /\ Init => InputInv /\ k.com_tty
  <1> SUFFICES ASSUME Opened, Init PROVE InputInv /\ k.com_tty
    OBVIOUS
  <1>1. k = tty_open_internal(Boot)
    BY DEF Init
  <1>2. k.rx = <<>> /\ k.fifo = <<>> /\ k.open /\ k.termios = DefaultTermios /\ k.com_tty
    BY <1>1, BootSound, OpenInput DEF Sound
  <1>3. hist.arrived = <<>> /\ hist.got = <<>> /\ hist.lost = {}
    BY DEF Init
  <1>4. <<>> \o <<>> = <<>> /\ <<>> \in Text /\ DOMAIN <<>> = {}
    BY DEF Text
  <1>5. InputIntact
    BY <1>2, <1>3, <1>4 DEF InputIntact, Data, InOrder
  <1> QED
    BY <1>2, <1>3, <1>4, <1>5 DEF InputInv, Flags, Distinct

(* On a port opened on a quiet line, whose flags neither translate nor discard *)
(* what the peer sends: what n_tty_read hands out is what arrived, in order    *)
(* and without duplicates, minus what a full FIFO or a full buffer dropped, as *)
(* long as com_interrupt finds com->tty, which serial_close clears too early.  *)
THEOREM InputArrives ==
    Opened /\ PlainInput => (Spec /\ []OpenPortHasTty => []InputIntact)
  <1> SUFFICES ASSUME Opened, PlainInput PROVE Spec /\ []OpenPortHasTty => []InputIntact
    OBVIOUS
  <1> DEFINE I == SInv /\ OInv /\ InputInv
  <1>1. Init => I
    BY InitGood, InputInit
  <1>2. I /\ [Next]_vars /\ OpenPortHasTty' => I'
    BY StepGood, InputStep DEF Good
  <1>3. I => InputIntact
    BY DEF InputInv
  <1> QED
    BY <1>1, <1>2, <1>3, PTL DEF Spec

(* The handler has its tty. *)
Attached ==
    /\ k.com_tty /\ isr.pc # "null"
    /\ task.pc \notin {"close_tty", "close_open"}

LEMMA AttachedStep ==
    ASSUME SInv, OInv, k.open, Attached, "close" \notin Calls, [Next]_vars
    PROVE  Attached'
  <1>0. /\ Sound(k) /\ Machine(k) /\ TaskFields \subseteq DOMAIN task
        /\ IsrFields \subseteq DOMAIN isr /\ HistFields \subseteq DOMAIN hist
    BY DEF SInv, Sound
  <1>1. ASSUME HwNext PROVE Attached'
    <2>1. UNCHANGED <<task, isr>>
      BY <1>1 DEF HwNext, HwReceive, HwTimeout, HwTransmit, HwCts
    <2>2. k'.com_tty = k.com_tty
      <3>1. ASSUME HwReceive PROVE k'.com_tty = k.com_tty
        <4>1. PICK c \in Input : k' = Receive(k, c)
          BY <3>1 DEF HwReceive
        <4>2. c \in Nat
          BY Sizes
        <4> QED
          BY <1>0, <4>1, <4>2, FifoSound DEF Same, Fields
      <3>2. ASSUME HwTimeout PROVE k'.com_tty = k.com_tty
        BY <1>0, <3>2, RegisterSound DEF HwTimeout, Same, Fields
      <3>3. ASSUME HwTransmit PROVE k'.com_tty = k.com_tty
        BY <1>0, <3>3, RegisterSound DEF HwTransmit, Same, Fields
      <3>4. ASSUME HwCts PROVE k'.com_tty = k.com_tty
        BY <1>0, <3>4, RegisterSound DEF HwCts, Same, Fields
      <3> QED
        BY <1>1, <3>1, <3>2, <3>3, <3>4 DEF HwNext
    <2> QED
      BY <2>1, <2>2 DEF Attached
  <1>2. ASSUME IsrNext PROVE Attached'
    <2>1. task' = task
      BY <1>2 DEF IsrNext, IrqEnter, IsrIir, IsrLsr, IsrRx, IsrRxLsr, IsrMsr, IsrTx, IsrPass
    <2>2. isr'.pc # "null"
      <3>1. ASSUME IsrRx PROVE isr'.pc # "null"
        <4>1. \/ isr' = [isr EXCEPT !.pc = "spin"]
              \/ \E v : isr' = [isr EXCEPT !.pc = "rx_lsr", !.count = v]
          BY <3>1 DEF IsrRx, Attached
        <4>2. "pc" \in DOMAIN isr
          BY <1>0 DEF IsrFields
        <4>3. CASE isr' = [isr EXCEPT !.pc = "spin"]
          BY <4>2, <4>3
        <4>4. CASE \E v : isr' = [isr EXCEPT !.pc = "rx_lsr", !.count = v]
          BY <4>2, <4>4
        <4> QED
          BY <4>1, <4>3, <4>4
      <3>2. ASSUME IsrMsr PROVE isr'.pc # "null"
        BY <1>0, <3>2 DEF IsrMsr, Attached, IsrFields
      <3>3. ASSUME IrqEnter PROVE isr'.pc # "null"
        BY <1>0, <3>3 DEF IrqEnter, IsrFields
      <3>4. ASSUME IsrIir PROVE isr'.pc # "null"
        BY <1>0, <3>4 DEF IsrIir, IsrFields
      <3>5. ASSUME IsrLsr PROVE isr'.pc # "null"
        BY <1>0, <3>5 DEF IsrLsr, IsrFields
      <3>6. ASSUME IsrRxLsr PROVE isr'.pc # "null"
        BY <1>0, <3>6 DEF IsrRxLsr, IsrFields
      <3>7. ASSUME IsrTx PROVE isr'.pc # "null"
        BY <1>0, <3>7 DEF IsrTx, IsrFields
      <3>8. ASSUME IsrPass PROVE isr'.pc # "null"
        BY <1>0, <3>8 DEF IsrPass, IsrFields
      <3> QED
        BY <1>2, <3>1, <3>2, <3>3, <3>4, <3>5, <3>6, <3>7, <3>8 DEF IsrNext
    <2>3. k'.com_tty = k.com_tty
      <3>1. ASSUME IsrRx PROVE k'.com_tty = k.com_tty
        <4>1. k.fifo # <<>>
          BY <3>1 DEF IsrRx, Isr, SInv
        <4>2. /\ Sound(read_RX(k)) /\ Head(k.fifo) \in Nat
              /\ Same(k, read_RX(k), {"fifo", "tmo", "irr"})
          BY <1>0, <4>1, FifoSound
        <4>3. Same(read_RX(k), n_tty_recv(read_RX(k), Head(k.fifo)), Received)
          BY <4>2, RecvSound
        <4>4. k' = read_RX(k) \/ k' = n_tty_recv(read_RX(k), Head(k.fifo))
          BY <3>1 DEF IsrRx
        <4> QED
          BY <4>2, <4>3, <4>4 DEF Same, Fields, Received
      <3>2. ASSUME IrqEnter PROVE k'.com_tty = k.com_tty
        BY <1>0, <3>2 DEF IrqEnter, Machine, Fields
      <3>3. ASSUME IsrIir \/ IsrPass \/ IsrLsr \/ IsrRxLsr PROVE k'.com_tty = k.com_tty
        <4>1. k' = k \/ k' = read_IIR(k) \/ k' = read_LSR(k)
          BY <3>3 DEF IsrIir, IsrPass, IsrLsr, IsrRxLsr
        <4> QED
          BY <1>0, <4>1, RegisterSound DEF Same, Fields
      <3>4. ASSUME IsrMsr PROVE k'.com_tty = k.com_tty
        BY <1>0, <3>4, ModemSound DEF IsrMsr, Same, Fields
      <3>5. ASSUME IsrTx PROVE k'.com_tty = k.com_tty
        BY <1>0, <3>5, SendSound DEF IsrTx, Same, Fields
      <3> QED
        BY <1>2, <3>1, <3>2, <3>3, <3>4, <3>5 DEF IsrNext
    <2> QED
      BY <2>1, <2>2, <2>3 DEF Attached
  <1>3. ASSUME TaskNext PROVE Attached'
    <2>1. ~SysClose /\ ~CloseTty /\ ~CloseOpen /\ ~SysOpen /\ ~SysOpenFails
      BY DEF Attached, SysClose, CloseTty, CloseOpen, SysOpen, SysOpenFails, Task, Call
    <2>2. isr' = isr
      BY <1>3, <2>1 DEF TaskNext, SysOpenAgain, SysRead, ReadGet, ReadWouldBlock, ReadRoom,
         ReadUnthrottle, ReadUnthrottleDriver, SysWrite, WriteOpost, WriteChar, WriteRaw,
         WriteDone, WriteFlush, SysTcsets, SysTiocmget, Attached
    <2>3. task'.pc \notin {"close_tty", "close_open"}
      <3>1. ASSUME SysOpenAgain PROVE task'.pc \notin {"close_tty", "close_open"}
        BY <1>0, <3>1 DEF SysOpenAgain, Attached, TaskFields
      <3>2. ASSUME SysRead PROVE task'.pc \notin {"close_tty", "close_open"}
        BY <1>0, <3>2 DEF SysRead, Attached, TaskFields
      <3>3. ASSUME ReadGet PROVE task'.pc \notin {"close_tty", "close_open"}
        BY <1>0, <3>3 DEF ReadGet, Attached, TaskFields
      <3>4. ASSUME ReadWouldBlock PROVE task'.pc \notin {"close_tty", "close_open"}
        BY <1>0, <3>4 DEF ReadWouldBlock, Goto, Attached, TaskFields
      <3>5. ASSUME ReadRoom PROVE task'.pc \notin {"close_tty", "close_open"}
        BY <1>0, <3>5 DEF ReadRoom, Goto, ReadLoop, Attached, TaskFields
      <3>6. ASSUME ReadUnthrottle PROVE task'.pc \notin {"close_tty", "close_open"}
        BY <1>0, <3>6 DEF ReadUnthrottle, Goto, ReadLoop, Attached, TaskFields
      <3>7. ASSUME ReadUnthrottleDriver PROVE task'.pc \notin {"close_tty", "close_open"}
        BY <1>0, <3>7 DEF ReadUnthrottleDriver, Goto, ReadLoop, Attached, TaskFields
      <3>8. ASSUME SysWrite PROVE task'.pc \notin {"close_tty", "close_open"}
        BY <1>0, <3>8 DEF SysWrite, Attached, TaskFields
      <3>9. ASSUME WriteOpost PROVE task'.pc \notin {"close_tty", "close_open"}
        BY <1>0, <3>9 DEF WriteOpost, Attached, TaskFields
      <3>10. ASSUME WriteDone PROVE task'.pc \notin {"close_tty", "close_open"}
        BY <1>0, <3>10 DEF WriteDone, Goto, Attached, TaskFields
      <3>11. ASSUME WriteFlush PROVE task'.pc \notin {"close_tty", "close_open"}
        BY <1>0, <3>11 DEF WriteFlush, Attached, TaskFields
      <3>12. ASSUME SysTcsets PROVE task'.pc \notin {"close_tty", "close_open"}
        BY <1>0, <3>12 DEF SysTcsets, Attached, TaskFields
      <3>13. ASSUME SysTiocmget PROVE task'.pc \notin {"close_tty", "close_open"}
        BY <1>0, <3>13 DEF SysTiocmget, Attached, TaskFields
      <3>14. ASSUME WriteRaw PROVE task'.pc \notin {"close_tty", "close_open"}
        <4>1. \E v : task' = [task EXCEPT !.buf = v]
          BY <3>14 DEF WriteRaw
        <4> QED
          BY <1>0, <4>1 DEF Attached, TaskFields
      <3>15. ASSUME WriteChar PROVE task'.pc \notin {"close_tty", "close_open"}
        <4>1. \E v, w : \/ task' = [task EXCEPT !.out = v]
                         \/ task' = [task EXCEPT !.out = v, !.buf = w, !.pc = "write"]
          BY <3>15 DEF WriteChar
        <4> QED
          BY <1>0, <4>1 DEF Attached, TaskFields
      <3> QED
        BY <1>3, <2>1, <3>1, <3>2, <3>3, <3>4, <3>5, <3>6, <3>7, <3>8,
           <3>9, <3>10, <3>11, <3>12, <3>13, <3>14, <3>15 DEF TaskNext
    <2>4. k'.com_tty = k.com_tty
      <3>1. ASSUME ReadGet \/ ReadUnthrottle \/ SysTcsets PROVE k'.com_tty = k.com_tty
        BY <1>0, <3>1 DEF ReadGet, ReadUnthrottle, SysTcsets, Machine, Fields
      <3>2. ASSUME ReadUnthrottleDriver PROVE k'.com_tty = k.com_tty
        BY <1>0, <3>2, ThrottleTells DEF ReadUnthrottleDriver, Told, Same, Fields
      <3>3. ASSUME WriteChar \/ WriteRaw \/ WriteFlush PROVE k'.com_tty = k.com_tty
        <4>1. k' = serial_flush(k) \/ \E b \in Text : k' = serial_write(k, b)
          <5>1. ASSUME WriteChar PROVE \E b \in Text : k' = serial_write(k, b)
            <6>1. task.out \in Text /\ task.out # <<>>
              BY <5>1 DEF WriteChar, Task, SInv
            <6>2. Head(task.out) \in Nat
              BY <6>1, Ends, Zenon
            <6>3. <<Head(task.out)>> \in Text
              BY <6>2, OutputChars
            <6> QED
              BY <5>1, <6>3 DEF WriteChar, write_char
          <5> QED
            BY <3>3, <5>1 DEF WriteRaw, WriteFlush, SInv
        <4>2. Same(k, serial_flush(k), {"ier", "thri", "irr"})
          BY <1>0, Flush
        <4> QED
          BY <1>0, <4>1, <4>2, WriteSound DEF Same, Fields
      <3>4. ASSUME SysTiocmget PROVE k'.com_tty = k.com_tty
        BY <1>0, <3>4, ModemSound DEF SysTiocmget, Same, Fields
      <3>5. ASSUME SysOpenAgain \/ SysRead \/ ReadWouldBlock \/ ReadRoom \/ SysWrite
                   \/ WriteOpost \/ WriteDone
            PROVE k'.com_tty = k.com_tty
        BY <3>5 DEF SysOpenAgain, SysRead, ReadWouldBlock, ReadRoom, SysWrite, WriteOpost, WriteDone
      <3> QED
        BY <1>3, <2>1, <3>1, <3>2, <3>3, <3>4, <3>5 DEF TaskNext
    <2> QED
      BY <2>2, <2>3, <2>4 DEF Attached
  <1>4. CASE UNCHANGED vars
    BY <1>4 DEF vars, Attached
  <1> QED
    BY <1>1, <1>2, <1>3, <1>4 DEF Next

(* The same with nothing assumed of the handler, on a port that stays open. *)
THEOREM InputArrivesOpen ==
    Opened /\ PlainInput /\ "close" \notin Calls => (Spec => []InputIntact)
  <1> SUFFICES ASSUME Opened, PlainInput, "close" \notin Calls PROVE Spec => []InputIntact
    OBVIOUS
  <1> DEFINE I == SInv /\ OInv /\ InputInv /\ Attached
  <1>1. Init => I
    BY InitGood, InputInit DEF Attached, Init
  <1>2. I /\ [Next]_vars => I'
    <2> SUFFICES ASSUME I, [Next]_vars PROVE I'
      OBVIOUS
    <2>1. Attached'
      BY AttachedStep DEF InputInv
    <2>2. OpenPortHasTty'
      BY <2>1 DEF Attached, OpenPortHasTty
    <2> QED
      BY <2>1, <2>2, StepGood, InputStep DEF Good
  <1>3. I => InputIntact
    BY DEF InputInv
  <1> QED
    BY <1>1, <1>2, <1>3, PTL DEF Spec
=============================================================================
