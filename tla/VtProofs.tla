------------------------------ MODULE VtProofs ------------------------------
(***************************************************************************)
(* Proofs about Terminal.tla and VirtualTerminals.tla, for every size of   *)
(* the screen, every number of terminals and whatever characters the task, *)
(* the keyboard and the kernel write.                                      *)
(***************************************************************************)
EXTENDS VirtualTerminals, WellFoundedInduction, TLAPS

Fields == {"state", "x", "y", "hidden", "need_wrap", "tabs", "param", "idx", "attr",
           "blink_on", "saved", "printing", "fb"}

Columns == 0 .. COLS - 1
Stops == SUBSET Columns
Numbers == [Params -> Int]

(* The columns a terminal keeps are on the screen, and its parameters are numbers. *)
InBounds(t) ==
    /\ Fields \subseteq DOMAIN t
    /\ t.x \in Columns /\ t.saved.x \in Columns
    /\ {"x", "tabs"} \subseteq DOMAIN t.saved
    /\ t.tabs \in Stops /\ t.saved.tabs \in Stops
    /\ t.param \in Numbers
    /\ t.state = "CSI" => t.idx \in Params
    /\ t.need_wrap \in BOOLEAN

(* ... and a wrap is pending only in the last one. *)
Edge(t) == InBounds(t) /\ (t.need_wrap => t.x = COLS - 1)

-----------------------------------------------------------------------------
(* A set of natural numbers that is not empty has a least element. *)
LEMMA LeastNumber ==
    ASSUME NEW S, S \subseteq Nat, S # {}
    PROVE  \E m \in S : \A n \in S : m <= n
  <1> DEFINE R == {ss \in Nat \X Nat : ss[1] < ss[2]}
  <1>1. IsWellFoundedOn(R, Nat)
    BY NatLessThanWellFounded DEF OpToRel
  <1> HIDE DEF R
  <1>2. PICK m \in S : \A n \in S : <<n, m>> \notin R
    BY <1>1, WFMin, Zenon
  <1>3. \A n \in S : ~(n < m)
    BY <1>2 DEF R
  <1> QED
    BY <1>3

(* The screen has more than one column, a control sequence more than one parameter. *)
LEMMA Screen == COLS \in Nat \ {0, 1} /\ MAX_CSIPARAM \in Nat \ {0, 1}
  BY TerminalAssumption

USE Screen

(* The motions of the cursor stay on the screen. *)
LEMMA MoveInBounds ==
    ASSUME NEW t, InBounds(t), NEW n \in Int, n >= 1
    PROVE  /\ InBounds(cursor_up(t, n)) /\ InBounds(cursor_down(t, n))
           /\ InBounds(cursor_left(t, n)) /\ InBounds(cursor_right(t, n))
  <1>1. Larger(t.x - n, 0) \in Columns /\ Smaller(t.x + n, COLS - 1) \in Columns
    BY DEF InBounds, Columns, Larger, Smaller
  <1>2. \A v : InBounds([t EXCEPT !.y = v])
    BY DEF InBounds, Fields
  <1>3. \A v \in Columns : InBounds([t EXCEPT !.x = v])
    BY DEF InBounds, Fields
  <1>4. InBounds(cursor_up(t, n)) /\ InBounds(cursor_down(t, n))
    BY <1>2, Zenon DEF cursor_up, cursor_down
  <1>5. InBounds(cursor_left(t, n)) /\ InBounds(cursor_right(t, n))
    BY <1>1, <1>3, Zenon DEF cursor_left, cursor_right
  <1> QED
    BY <1>4, <1>5

(* Writing into the frame buffer moves nothing. *)
LEMMA FillInBounds ==
    ASSUME NEW t, InBounds(t)
    PROVE  /\ \A where, c : InBounds(Fill(t, where, c))
           /\ \A n : InBounds(scroll(t, n))
           /\ \A mode : InBounds(erase(t, mode)) /\ InBounds(erase_line(t, mode))
  <1>1. \A v : InBounds([t EXCEPT !.fb = v])
    BY DEF InBounds, Fields
  <1>2. \A w, d : InBounds(Fill(t, w, d))
    BY <1>1 DEF Fill
  <1>3. \A n : InBounds(scroll(t, n))
    <2> SUFFICES ASSUME NEW n PROVE InBounds(scroll(t, n))
      OBVIOUS
    <2>1. PICK v : scroll(t, n) = [t EXCEPT !.fb = v]
      BY Zenon DEF scroll
    <2> QED
      BY <1>1, <2>1, Zenon
  <1>4. \A mode : InBounds(erase(t, mode)) /\ InBounds(erase_line(t, mode))
    BY <1>2 DEF erase, erase_line
  <1> QED
    BY <1>2, <1>3, <1>4

LEMMA TabEdge ==
    ASSUME NEW t, Edge(t)
    PROVE  Edge(tab(t))
  <1> DEFINE next == {i \in t.tabs : i > t.x}
             first == CHOOSE i \in next : \A j \in next : i <= j
             stop == IF next = {} THEN COLS - 1 ELSE first
  <1>1. next \subseteq Columns /\ next \subseteq Nat
    BY DEF Edge, InBounds, Stops, Columns
  <1>2. next # {} => first \in next
    <2> SUFFICES ASSUME next # {} PROVE first \in next
      OBVIOUS
    <2> HIDE DEF next
    <2>1. \E m \in next : \A n \in next : m <= n
      BY <1>1, LeastNumber
    <2> QED
      BY <2>1
  <1>3. stop \in Columns
    <2>1. COLS - 1 \in Columns
      BY DEF Columns
    <2>2. next # {} => first \in Columns
      <3> HIDE DEF next, first
      <3> QED
        BY <1>1, <1>2
    <2> HIDE DEF next, first
    <2> QED
      BY <2>1, <2>2
  <1>4. t.need_wrap => stop = COLS - 1
    <2> SUFFICES ASSUME t.need_wrap PROVE next = {}
      OBVIOUS
    <2> QED
      BY DEF Edge, InBounds, Stops, Columns
  <1>5. tab(t) = [t EXCEPT !.x = stop]
    BY DEF tab
  <1> HIDE DEF stop
  <1> QED
    BY <1>3, <1>4, <1>5 DEF Edge, InBounds, Fields

LEMMA LineEdge ==
    ASSUME NEW t, InBounds(t)
    PROVE  Edge(backspace(t)) /\ Edge(carriage_return(t)) /\ Edge(line_feed(t))
  <1>1. Edge(carriage_return(t))
    <2>1. 0 \in Columns
      BY DEF Columns
    <2> QED
      BY <2>1 DEF Edge, InBounds, Fields, carriage_return
  <1>2. Edge(backspace(t))
    <2>1. InBounds(cursor_left(t, 1))
      BY MoveInBounds
    <2> QED
      BY <2>1 DEF Edge, InBounds, Fields, backspace
  <1>3. \A u : InBounds(u) => Edge([u EXCEPT !.need_wrap = FALSE])
    BY DEF Edge, InBounds, Fields
  <1>4. InBounds(scroll(t, 1))
    BY FillInBounds
  <1>5. Edge([t EXCEPT !.y = @ + 1, !.need_wrap = FALSE])
    BY DEF Edge, InBounds, Fields
  <1> QED
    BY <1>1, <1>2, <1>3, <1>4, <1>5 DEF line_feed

(* The end of a control sequence takes a pending wrap back. *)
LEMMA DoneEdge ==
    ASSUME NEW t, InBounds(t)
    PROVE  Edge(csi_done(t)) /\ Edge(esc_done(t))
  BY DEF Edge, InBounds, Fields, csi_done, esc_done

LEMMA EscEdge ==
    ASSUME NEW t, Edge(t), NEW c
    PROVE  Edge(esc(t, c))
  <1>0. InBounds(t)
    BY DEF Edge
  <1>1. \A u : InBounds(u) => Edge(esc_done(u))
    BY DoneEdge
  <1>2. InBounds(line_feed(t)) /\ InBounds(line_feed(carriage_return(t)))
    BY <1>0, LineEdge DEF Edge
  <1>3. /\ t.tabs \cup {t.x} \in Stops /\ t.tabs \ {t.x} \in Stops
    BY <1>0 DEF InBounds, Stops
  <1>8. /\ InBounds([t EXCEPT !.tabs = @ \cup {t.x}])
        /\ InBounds([t EXCEPT !.tabs = @ \ {t.x}])
        /\ InBounds(reverse_linefeed(t))
        /\ InBounds([t EXCEPT !.blink_on = FALSE]) /\ InBounds([t EXCEPT !.blink_on = TRUE])
        /\ InBounds([t EXCEPT !.hidden = FALSE]) /\ InBounds([t EXCEPT !.hidden = TRUE])
    BY <1>0, <1>3 DEF InBounds, Fields, reverse_linefeed
  <1>4. InBounds(save_terminal(t))
    BY <1>0 DEF InBounds, Fields, save_terminal
  <1>5. InBounds(terminal_restore(t))
    <2> DEFINE u == [t EXCEPT !.tabs = t.saved.tabs, !.blink_on = t.saved.blink_on,
                              !.attr = t.saved.attr]
    <2>1. InBounds(u) /\ u.saved = t.saved
      BY <1>0 DEF InBounds, Fields
    <2> HIDE DEF u
    <2>2. InBounds(restore_cursor(u))
      BY <2>1 DEF InBounds, Fields, restore_cursor
    <2> QED
      BY <2>2 DEF terminal_restore, u
  <1>6. InBounds(erase(terminal_defaults(t), 2))
    <2> DEFINE u == [t EXCEPT !.state = "NORM", !.tabs = DefaultTabs, !.param = NoParams,
                            !.idx = 0, !.blink_on = FALSE, !.need_wrap = FALSE,
                            !.attr = DefaultAttr, !.x = 0, !.y = 0, !.hidden = FALSE]
    <2>1. DefaultTabs \in Stops /\ NoParams \in Numbers /\ 0 \in Columns
      BY DEF DefaultTabs, NoParams, Stops, Numbers, Columns
    <2>2. Fields \subseteq DOMAIN t /\ t.saved.x \in Columns /\ {"x", "tabs"} \subseteq DOMAIN t.saved
          /\ t.saved.tabs \in Stops
      BY <1>0 DEF InBounds
    <2>3. /\ DOMAIN u = DOMAIN t /\ u.x = 0 /\ u.saved = t.saved /\ u.tabs = DefaultTabs
           /\ u.param = NoParams /\ u.state = "NORM" /\ u.need_wrap = FALSE
      BY <2>2 DEF Fields
    <2> HIDE DEF u
    <2>4. InBounds(u)
      BY <2>1, <2>2, <2>3 DEF InBounds
    <2>5. InBounds(save_terminal(u))
      BY <2>4 DEF InBounds, Fields, save_terminal
    <2> QED
      BY <2>5, FillInBounds DEF terminal_defaults, u
  <1>7. Edge([t EXCEPT !.param = NoParams, !.idx = 0, !.state = "CSI"])
    <2>1. NoParams \in Numbers /\ 0 \in Params
      BY DEF NoParams, Numbers, Params
    <2> QED
      BY <2>1 DEF Edge, InBounds, Fields
  <1> QED
    BY <1>0, <1>1, <1>2, <1>8, <1>4, <1>5, <1>6, <1>7, Zenon DEF esc

LEMMA CsiEdge ==
    ASSUME NEW t, Edge(t), t.state = "CSI", NEW c
    PROVE  Edge(csi(t, c))
  <1> DEFINE p == Larger(t.param[0], 1)
             q == Larger(t.param[1], 1)
             m == Larger(t.param[0], 0)
  <1>0. InBounds(t) /\ t.idx \in Params
    BY DEF Edge, InBounds
  <1>1. \A u : InBounds(u) => Edge(csi_done(u))
    BY DoneEdge
  <1>2. \A i \in Params : t.param[i] \in Int
    BY <1>0 DEF InBounds, Numbers
  <1>3. p \in Int /\ q \in Int /\ p >= 1 /\ q >= 1
    BY <1>2 DEF Params, Larger
  <1>4. /\ Smaller(p, COLS) - 1 \in Columns /\ Smaller(q, COLS) - 1 \in Columns
        /\ 0 \in Columns
    <2> HIDE DEF p, q
    <2> QED
      BY <1>3 DEF Smaller, Columns
  <1> HIDE DEF p, q, m
  <1>5. \A x \in Columns : \A y :
           InBounds([t EXCEPT !.x = x]) /\ InBounds([t EXCEPT !.y = y, !.x = x])
    BY <1>0 DEF InBounds, Fields
  <1>6. /\ InBounds(cursor_up(t, p)) /\ InBounds(cursor_down(t, p))
        /\ InBounds(cursor_right(t, p)) /\ InBounds(cursor_left(t, p))
    BY <1>0, <1>3, MoveInBounds
  <1>7. InBounds(cursor_down([t EXCEPT !.x = 0], p)) /\ InBounds(cursor_up([t EXCEPT !.x = 0], p))
    <2>1. InBounds([t EXCEPT !.x = 0])
      BY <1>4, <1>5
    <2> QED
      BY <1>3, <2>1, MoveInBounds
  <1>8. /\ InBounds([t EXCEPT !.x = Smaller(p, COLS) - 1])
        /\ InBounds([t EXCEPT !.y = Smaller(p, ROWS) - 1, !.x = Smaller(q, COLS) - 1])
    BY <1>4, <1>5, Zenon
  <1>9. /\ InBounds(erase(t, m)) /\ InBounds(erase_line(t, m))
        /\ InBounds(scroll(t, p)) /\ InBounds(scroll(t, -p))
    BY <1>0, FillInBounds, Zenon
  <1>10. InBounds(csi_ms(t))
    <2>1. \A v : InBounds([t EXCEPT !.attr = v])
      BY <1>0 DEF InBounds, Fields
    <2> QED
      BY <2>1, Zenon DEF csi_ms
  <1>11. InBounds(save_cursor(t)) /\ InBounds(restore_cursor(t))
    <2>1. \A w : w.x \in Columns /\ w.tabs \in Stops /\ {"x", "tabs"} \subseteq DOMAIN w
                => InBounds([t EXCEPT !.saved = w])
      BY <1>0 DEF InBounds, Fields
    <2> DEFINE w == [t.saved EXCEPT !.x = t.x, !.y = t.y, !.hidden = t.hidden]
    <2>3. w.x \in Columns /\ w.tabs \in Stops /\ {"x", "tabs"} \subseteq DOMAIN w
      BY <1>0 DEF InBounds
    <2> HIDE DEF w
    <2>4. InBounds([t EXCEPT !.saved = w])
      BY <2>1, <2>3
    <2>2. InBounds(restore_cursor(t))
      BY <1>0 DEF InBounds, Fields, restore_cursor
    <2> QED
      BY <2>2, <2>4 DEF save_cursor, w
  <1>12. Edge(IF t.idx + 1 >= MAX_CSIPARAM THEN csi_done([t EXCEPT !.idx = @ + 1])
                                           ELSE [t EXCEPT !.idx = @ + 1])
    <2>2. t.idx + 1 < MAX_CSIPARAM => t.idx + 1 \in Params
      BY <1>0 DEF Params
    <2>3. t.idx + 1 < MAX_CSIPARAM => Edge([t EXCEPT !.idx = @ + 1])
      BY <1>0, <2>2 DEF Edge, InBounds, Fields
    <2>4. Edge(csi_done([t EXCEPT !.idx = @ + 1]))
      BY <1>0 DEF Edge, InBounds, Fields, csi_done
    <2>5. t.idx + 1 >= MAX_CSIPARAM \/ t.idx + 1 < MAX_CSIPARAM
      BY <1>0 DEF Params
    <2> QED
      BY <2>3, <2>4, <2>5
  <1>13. ASSUME isdigit(c)
         PROVE  Edge([t EXCEPT !.param[t.idx] = Larger(@, 0) * 10 + DigitValue(c)])
    <2>1. Larger(t.param[t.idx], 0) \in Int
      BY <1>0, <1>2 DEF Larger
    <2>2. DigitValue(c) \in Int
      <3> DEFINE i == CHOOSE i \in 1 .. 10 : DigitName[i] = c
      <3>1. i \in 1 .. 10
        BY <1>13 DEF isdigit
      <3> HIDE DEF i
      <3>2. i - 1 \in Int
        BY <3>1
      <3> QED
        BY <3>2 DEF DigitValue, i
    <2>3. PICK v \in Int : v = Larger(t.param[t.idx], 0) * 10 + DigitValue(c)
      BY <2>1, <2>2
    <2>4. [t.param EXCEPT ![t.idx] = v] \in Numbers
      BY <1>0, <2>3 DEF InBounds, Numbers
    <2>5. \A w \in Numbers : Edge([t EXCEPT !.param = w])
      BY <1>0 DEF Edge, InBounds, Fields
    <2> QED
      BY <2>3, <2>4, <2>5
  <1> QED
    BY <1>0, <1>1, <1>6, <1>7, <1>8, <1>9, <1>10, <1>11, <1>12, <1>13, Zenon DEF csi, p, q, m

LEMMA PrintEdge ==
    ASSUME NEW t, Edge(t), NEW c
    PROVE  Edge(print(t, c))
  <1> DEFINE w == IF t.need_wrap THEN line_feed(carriage_return(t)) ELSE t
             a == IF {"bright", "faint"} \subseteq w.attr.flags
                  THEN [w EXCEPT !.attr.flags = @ \ {"bright"}] ELSE w
  <1>1. InBounds(w) /\ w.need_wrap = FALSE
    <2>1. CASE t.need_wrap
      <3>1. \A u : Fields \subseteq DOMAIN u => [u EXCEPT !.need_wrap = FALSE].need_wrap = FALSE
        BY DEF Fields
      <3>2. InBounds(carriage_return(t))
        BY LineEdge DEF Edge
      <3>3. InBounds(line_feed(carriage_return(t)))
        BY <3>2, LineEdge DEF Edge
      <3>4. \A u : InBounds(u) => line_feed(u).need_wrap = FALSE
        <4> SUFFICES ASSUME NEW u, InBounds(u) PROVE line_feed(u).need_wrap = FALSE
          OBVIOUS
        <4>1. [scroll(u, 1) EXCEPT !.need_wrap = FALSE].need_wrap = FALSE
          BY <3>1, FillInBounds DEF InBounds
        <4>2. [u EXCEPT !.y = @ + 1, !.need_wrap = FALSE].need_wrap = FALSE
          BY DEF InBounds, Fields
        <4> QED
          BY <4>1, <4>2 DEF line_feed
      <3> QED
        BY <2>1, <3>2, <3>3, <3>4
    <2>2. CASE ~t.need_wrap
      <3>1. t.need_wrap = FALSE
        BY <2>2 DEF Edge, InBounds
      <3> QED
        BY <2>2, <3>1 DEF Edge
    <2> QED
      BY <2>1, <2>2
  <1> HIDE DEF w
  <1>2. InBounds(a) /\ a.need_wrap = FALSE
    <2>1. \A v : InBounds([w EXCEPT !.attr = v]) /\ [w EXCEPT !.attr = v].need_wrap = FALSE
      BY <1>1 DEF InBounds, Fields
    <2> QED
      BY <1>1, <2>1
  <1> HIDE DEF a
  <1>3. Edge(advance(a))
    <2>1. a.x \in Columns /\ a.x + 1 \in Nat
      BY <1>2 DEF InBounds, Columns
    <2>2. CASE a.x + 1 >= COLS
      <3>1. a.x = COLS - 1
        BY <2>1, <2>2 DEF Columns
      <3>2. Edge([a EXCEPT !.need_wrap = TRUE])
        BY <1>2, <3>1 DEF Edge, InBounds, Fields
      <3> QED
        BY <2>2, <3>2 DEF advance
    <2>3. CASE ~(a.x + 1 >= COLS)
      <3>1. a.x + 1 \in Columns
        BY <2>1, <2>3 DEF Columns
      <3>2. Edge([a EXCEPT !.x = @ + 1])
        BY <1>2, <3>1 DEF Edge, InBounds, Fields
      <3> QED
        BY <2>3, <3>2 DEF advance
    <2> QED
      BY <2>2, <2>3
  <1>4. \A u, where : Edge(u) => Edge(Fill(u, where, c))
    <2>1. \A u, v : Edge(u) => Edge([u EXCEPT !.fb = v])
      BY DEF Edge, InBounds, Fields
    <2> QED
      BY <2>1 DEF Fill
  <1> QED
    BY <1>3, <1>4 DEF print, w, a

(* terminal_putchar keeps the columns on the screen and the wrap at the edge, *)
(* whatever the character and wherever the control sequence stands.           *)
LEMMA BodyEdge ==
    ASSUME NEW t, Edge(t), NEW c
    PROVE  Edge(body(t, c))
  <1>1. Edge(esc(t, c)) /\ Edge(print(t, c)) /\ Edge(tab(t))
    BY EscEdge, PrintEdge, TabEdge
  <1>2. t.state = "CSI" => Edge(csi(t, c))
    BY CsiEdge
  <1>3. Edge(backspace(t)) /\ Edge(line_feed(t)) /\ Edge(carriage_return(t))
    BY LineEdge DEF Edge
  <1>4. Edge([t EXCEPT !.state = "NORM"]) /\ Edge([t EXCEPT !.state = "ESC"])
    BY DEF Edge, InBounds, Fields
  <1> QED
    BY <1>1, <1>2, <1>3, <1>4, Zenon DEF body

-----------------------------------------------------------------------------
(* u has the fields, the lock and the look of t. *)
Locked(t, u) == DOMAIN u = DOMAIN t /\ u.printing = t.printing
Alike(t, u) == Locked(t, u) /\ u.hidden = t.hidden /\ u.blink_on = t.blink_on

(* The registers in regs are all that a VGA showing t needs to show u. *)
Covers(t, u, regs) ==
    /\ "pos" \notin regs => u.x = t.x /\ u.y = t.y
    /\ "hidden" \notin regs => u.hidden = t.hidden
    /\ "blink" \notin regs => u.blink_on = t.blink_on

LEMMA MoveAlike ==
    ASSUME NEW t, Fields \subseteq DOMAIN t, NEW n
    PROVE  /\ Alike(t, cursor_up(t, n)) /\ Alike(t, cursor_down(t, n))
           /\ Alike(t, cursor_left(t, n)) /\ Alike(t, cursor_right(t, n))
  <1>1. \A v : Alike(t, [t EXCEPT !.y = v]) /\ Alike(t, [t EXCEPT !.x = v])
    BY DEF Alike, Locked, Fields
  <1> QED
    BY <1>1, Zenon DEF cursor_up, cursor_down, cursor_left, cursor_right

LEMMA FillAlike ==
    ASSUME NEW t, Fields \subseteq DOMAIN t
    PROVE  /\ \A where, c : Alike(t, Fill(t, where, c))
           /\ \A n : Alike(t, scroll(t, n))
           /\ \A mode : Alike(t, erase(t, mode)) /\ Alike(t, erase_line(t, mode))
  <1>1. \A v : Alike(t, [t EXCEPT !.fb = v])
    BY DEF Alike, Locked, Fields
  <1>2. \A w, d : Alike(t, Fill(t, w, d))
    BY <1>1 DEF Fill
  <1>3. \A n : Alike(t, scroll(t, n))
    <2> SUFFICES ASSUME NEW n PROVE Alike(t, scroll(t, n))
      OBVIOUS
    <2>1. PICK v : scroll(t, n) = [t EXCEPT !.fb = v]
      BY Zenon DEF scroll
    <2> QED
      BY <1>1, <2>1, Zenon
  <1>4. \A mode : Alike(t, erase(t, mode)) /\ Alike(t, erase_line(t, mode))
    BY <1>2 DEF erase, erase_line
  <1> QED
    BY <1>2, <1>3, <1>4

LEMMA LineAlike ==
    ASSUME NEW t, Fields \subseteq DOMAIN t
    PROVE  /\ Alike(t, backspace(t)) /\ Alike(t, carriage_return(t)) /\ Alike(t, tab(t))
           /\ Alike(t, line_feed(t)) /\ Alike(t, reverse_linefeed(t))
  <1>1. \A u : Alike(t, u) => Alike(t, [u EXCEPT !.need_wrap = FALSE])
    BY DEF Alike, Locked, Fields
  <1>2. Alike(t, backspace(t))
    BY <1>1, MoveAlike, Zenon DEF backspace
  <1>3. \A v : /\ Alike(t, [t EXCEPT !.x = v, !.need_wrap = FALSE])
              /\ Alike(t, [t EXCEPT !.y = v, !.need_wrap = FALSE])
              /\ Alike(t, [t EXCEPT !.x = v])
    BY DEF Alike, Locked, Fields
  <1>4. Alike(t, carriage_return(t))
    BY <1>3, Zenon DEF carriage_return
  <1>5. Alike(t, tab(t))
    BY <1>3, Zenon DEF tab
  <1>6. Alike(t, line_feed(t))
    BY <1>1, <1>3, FillAlike, Zenon DEF line_feed
  <1>7. Alike(t, reverse_linefeed(t))
    BY DEF Alike, Locked, Fields, reverse_linefeed
  <1> QED
    BY <1>2, <1>4, <1>5, <1>6, <1>7

LEMMA DoneAlike ==
    ASSUME NEW t, Fields \subseteq DOMAIN t, NEW u
    PROVE  /\ Alike(t, u) => Alike(t, csi_done(u)) /\ Alike(t, esc_done(u))
           /\ Locked(t, u) => Locked(t, csi_done(u)) /\ Locked(t, esc_done(u))
           /\ Locked(t, u) => /\ csi_done(u).x = u.x /\ csi_done(u).y = u.y
                             /\ csi_done(u).hidden = u.hidden
                             /\ csi_done(u).blink_on = u.blink_on
                             /\ esc_done(u).hidden = u.hidden
                             /\ esc_done(u).blink_on = u.blink_on
  BY DEF Alike, Locked, Fields, csi_done, esc_done

(* The escape codes that change the cursor's look or the blinking are those after *)
(* which esc writes the registers.                                                *)
LEMMA EscCovers ==
    ASSUME NEW t, Fields \subseteq DOMAIN t, NEW c
    PROVE  /\ Locked(t, esc(t, c))
           /\ \/ Alike(t, esc(t, c))
              \/ c \in {"3", "4"} /\ esc(t, c).hidden = t.hidden
              \/ c \in {"5", "6"} /\ esc(t, c).blink_on = t.blink_on
              \/ c \in {"8", "c"}
  <1> DEFINE OK(u) == /\ Locked(t, u)
                      /\ \/ Alike(t, u)
                         \/ c \in {"3", "4"} /\ u.hidden = t.hidden
                         \/ c \in {"5", "6"} /\ u.blink_on = t.blink_on
                         \/ c \in {"8", "c"}
  <1>1. \A u : OK(u) => OK(esc_done(u))
    BY DoneAlike
  <1>2. \A u : Alike(t, u) => OK(u)
    BY DEF Alike
  <1>3. Alike(t, line_feed(t)) /\ Alike(t, reverse_linefeed(t)) /\ Alike(t, t)
    BY LineAlike DEF Alike, Locked
  <1>4. Alike(t, line_feed(carriage_return(t)))
    <2>1. Fields \subseteq DOMAIN carriage_return(t) /\ Alike(t, carriage_return(t))
      BY LineAlike DEF Alike, Locked
    <2>2. Alike(carriage_return(t), line_feed(carriage_return(t)))
      BY <2>1, LineAlike
    <2> QED
      BY <2>1, <2>2 DEF Alike, Locked
  <1>5. /\ \A v : Alike(t, [t EXCEPT !.tabs = v]) /\ Alike(t, [t EXCEPT !.saved = v])
        /\ Alike(t, [t EXCEPT !.param = NoParams, !.idx = 0, !.state = "CSI"])
    BY DEF Alike, Locked, Fields
  <1>6. Alike(t, save_terminal(t))
    BY <1>5, Zenon DEF save_terminal
  <1>7. /\ c \in {"3", "4"} => \A v : OK([t EXCEPT !.blink_on = v])
        /\ c \in {"5", "6"} => \A v : OK([t EXCEPT !.hidden = v])
    BY DEF Locked, Fields
  <1>8. Locked(t, terminal_restore(t))
    BY DEF Locked, Fields, terminal_restore, restore_cursor
  <1>9. Locked(t, erase(terminal_defaults(t), 2))
    <2> DEFINE u == [t EXCEPT !.state = "NORM", !.tabs = DefaultTabs, !.param = NoParams,
                            !.idx = 0, !.blink_on = FALSE, !.need_wrap = FALSE,
                            !.attr = DefaultAttr, !.x = 0, !.y = 0, !.hidden = FALSE]
    <2>1. Locked(t, u)
      BY DEF Locked, Fields
    <2> HIDE DEF u
    <2>2. Locked(t, save_terminal(u))
      BY <2>1 DEF Locked, Fields, save_terminal
    <2>3. Locked(t, terminal_defaults(t))
      BY <2>2 DEF terminal_defaults, u
    <2>4. Fields \subseteq DOMAIN terminal_defaults(t)
      BY <2>3 DEF Locked
    <2>5. Alike(terminal_defaults(t), erase(terminal_defaults(t), 2))
      BY <2>4, FillAlike
    <2> QED
      BY <2>3, <2>5 DEF Alike, Locked
  <1>10. /\ c = "8" => OK(terminal_restore(t))
         /\ c = "c" => OK(erase(terminal_defaults(t), 2))
    BY <1>8, <1>9
  <1>11. /\ c = "3" => OK([t EXCEPT !.blink_on = FALSE])
         /\ c = "4" => OK([t EXCEPT !.blink_on = TRUE])
         /\ c = "5" => OK([t EXCEPT !.hidden = TRUE])
         /\ c = "6" => OK([t EXCEPT !.hidden = FALSE])
    <2> HIDE DEF OK
    <2> QED
      BY <1>7, Zenon
  <1> HIDE DEF OK
  <1>12. OK(esc(t, c))
    BY <1>1, <1>2, <1>3, <1>4, <1>5, <1>6, <1>10, <1>11, Zenon DEF esc
  <1> QED
    BY <1>12, Zenon DEF OK

LEMMA CsiCovers ==
    ASSUME NEW t, Fields \subseteq DOMAIN t, NEW c
    PROVE  /\ Locked(t, csi(t, c))
           /\ Alike(t, csi(t, c)) \/ c = "u"
  <1> DEFINE OK(u) == Locked(t, u) /\ (Alike(t, u) \/ c = "u")
  <1>1. \A u : OK(u) => OK(csi_done(u))
    BY DoneAlike
  <1>2. \A u : Alike(t, u) => OK(u)
    BY DEF Alike
  <1>3. /\ \A v : /\ Alike(t, [t EXCEPT !.x = v]) /\ Alike(t, [t EXCEPT !.attr = v])
                  /\ Alike(t, [t EXCEPT !.idx = v]) /\ Alike(t, [t EXCEPT !.param = v])
                  /\ Alike(t, [t EXCEPT !.saved = v])
        /\ \A v, w : Alike(t, [t EXCEPT !.y = v, !.x = w])
        /\ Alike(t, t)
    BY DEF Alike, Locked, Fields
  <1>4. \A n : /\ Alike(t, cursor_up(t, n)) /\ Alike(t, cursor_down(t, n))
              /\ Alike(t, cursor_left(t, n)) /\ Alike(t, cursor_right(t, n))
              /\ Alike(t, cursor_down([t EXCEPT !.x = 0], n))
              /\ Alike(t, cursor_up([t EXCEPT !.x = 0], n))
    <2>1. Fields \subseteq DOMAIN [t EXCEPT !.x = 0]
      BY <1>3 DEF Alike, Locked
    <2>2. \A n : /\ Alike([t EXCEPT !.x = 0], cursor_down([t EXCEPT !.x = 0], n))
                /\ Alike([t EXCEPT !.x = 0], cursor_up([t EXCEPT !.x = 0], n))
      BY <2>1, MoveAlike
    <2>3. \A u, w : Alike(t, u) /\ Alike(u, w) => Alike(t, w)
      BY DEF Alike, Locked
    <2> QED
      BY <1>3, <2>2, <2>3, MoveAlike, Zenon
  <1>5. \A n : Alike(t, erase(t, n)) /\ Alike(t, erase_line(t, n)) /\ Alike(t, scroll(t, n))
    BY FillAlike
  <1>6. Alike(t, csi_ms(t)) /\ Alike(t, save_cursor(t))
    BY <1>3, Zenon DEF csi_ms, save_cursor
  <1>7. c = "u" => OK(restore_cursor(t))
    BY DEF Locked, Fields, restore_cursor
  <1> HIDE DEF OK
  <1>8. OK(csi(t, c))
    BY <1>1, <1>2, <1>3, <1>4, <1>5, <1>6, <1>7, Zenon DEF csi
  <1> QED
    BY <1>8, Zenon DEF OK

LEMMA PrintCovers ==
    ASSUME NEW t, Fields \subseteq DOMAIN t, NEW c
    PROVE  /\ Alike(t, print(t, c))
           /\ ~t.need_wrap /\ t.x + 1 >= COLS => print(t, c).x = t.x /\ print(t, c).y = t.y
  <1> DEFINE w == IF t.need_wrap THEN line_feed(carriage_return(t)) ELSE t
             a == IF {"bright", "faint"} \subseteq w.attr.flags
                  THEN [w EXCEPT !.attr.flags = @ \ {"bright"}] ELSE w
             Stays(u) == u.x = t.x /\ u.y = t.y
  <1>0. \A u, v : Alike(t, u) /\ Alike(u, v) => Alike(t, v)
    BY DEF Alike, Locked
  <1>1. Alike(t, w) /\ (~t.need_wrap => w = t)
    <2>1. Fields \subseteq DOMAIN carriage_return(t) /\ Alike(t, carriage_return(t))
      BY LineAlike DEF Alike, Locked
    <2>2. Alike(carriage_return(t), line_feed(carriage_return(t))) /\ Alike(t, t)
      BY <2>1, LineAlike DEF Alike, Locked
    <2> QED
      BY <1>0, <2>1, <2>2
  <1> HIDE DEF w
  <1>2. Fields \subseteq DOMAIN w
    BY <1>1 DEF Alike, Locked
  <1>3. Alike(w, a) /\ a.x = w.x /\ a.y = w.y
    <2>1. \A v : /\ Alike(w, [w EXCEPT !.attr = v])
                /\ [w EXCEPT !.attr = v].x = w.x /\ [w EXCEPT !.attr = v].y = w.y
      BY <1>2 DEF Alike, Locked, Fields
    <2>2. Alike(w, w)
      BY DEF Alike, Locked
    <2> QED
      BY <2>1, <2>2
  <1> HIDE DEF a
  <1>4. Fields \subseteq DOMAIN a
    BY <1>2, <1>3 DEF Alike, Locked
  <1>5. Alike(a, advance(a)) /\ (a.x + 1 >= COLS => advance(a).x = a.x /\ advance(a).y = a.y)
    <2>1. /\ Alike(a, [a EXCEPT !.need_wrap = TRUE]) /\ Alike(a, [a EXCEPT !.x = @ + 1])
          /\ [a EXCEPT !.need_wrap = TRUE].x = a.x /\ [a EXCEPT !.need_wrap = TRUE].y = a.y
      BY <1>4 DEF Alike, Locked, Fields
    <2> QED
      BY <2>1 DEF advance
  <1>6. \A u, where : Fields \subseteq DOMAIN u =>
            /\ Alike(u, Fill(u, where, c))
            /\ Fill(u, where, c).x = u.x /\ Fill(u, where, c).y = u.y
    <2>1. \A u, v : Fields \subseteq DOMAIN u =>
             /\ Alike(u, [u EXCEPT !.fb = v])
             /\ [u EXCEPT !.fb = v].x = u.x /\ [u EXCEPT !.fb = v].y = u.y
      BY DEF Alike, Locked, Fields
    <2> QED
      BY <2>1, Zenon DEF Fill
  <1>7. print(t, c) = Fill(advance(a), {xy2pos(w.x, w.y)}, c)
    BY DEF print, a, w
  <1>8. Fields \subseteq DOMAIN advance(a)
    BY <1>4, <1>5 DEF Alike, Locked
  <1>9. /\ Alike(advance(a), print(t, c))
        /\ print(t, c).x = advance(a).x /\ print(t, c).y = advance(a).y
    BY <1>6, <1>7, <1>8
  <1>10. Alike(t, print(t, c))
    BY <1>0, <1>1, <1>3, <1>5, <1>9
  <1>11. ~t.need_wrap /\ t.x + 1 >= COLS => print(t, c).x = t.x /\ print(t, c).y = t.y
    BY <1>1, <1>3, <1>5, <1>9
  <1> QED
    BY <1>10, <1>11

(* The registers terminal_putchar writes for a character are all those whose *)
(* value the character changes.                                              *)
LEMMA BodyCovers ==
    ASSUME NEW t, Fields \subseteq DOMAIN t, NEW c
    PROVE  Locked(t, body(t, c)) /\ Covers(t, body(t, c), refresh(t, c))
  <1>0. Alike(t, t) /\ Covers(t, t, refresh(t, c))
    BY DEF Alike, Locked, Covers
  <1>1. \A u : Alike(t, u) => Locked(t, u) /\ Covers(t, u, {"pos"})
    BY DEF Alike, Covers
  <1>2. CASE c \in {"CAN", "ESC", "NUL"}
    <2>1. \A v : /\ Locked(t, [t EXCEPT !.state = v])
                /\ \A regs : Covers(t, [t EXCEPT !.state = v], regs)
      BY DEF Locked, Covers, Fields
    <2>2. c \in Cntrl /\ c \notin {"BS", "HT", "LF", "VT", "FF", "CR"}
      BY <1>2 DEF Cntrl
    <2> QED
      BY <1>0, <2>1, <2>2, Zenon DEF body, Alike
  <1>3. CASE c \in Cntrl \ {"CAN", "ESC", "NUL"}
    <2>1. refresh(t, c) = {"pos"}
      BY <1>3 DEF refresh
    <2>2. Alike(t, body(t, c))
      <3>1. /\ Alike(t, backspace(t)) /\ Alike(t, tab(t))
            /\ Alike(t, line_feed(t)) /\ Alike(t, carriage_return(t))
        BY LineAlike
      <3>2. c \in Cntrl /\ c # "CAN" /\ c # "ESC"
        BY <1>3
      <3> QED
        BY <1>0, <3>1, <3>2, Zenon DEF body
    <2> QED
      BY <1>1, <2>1, <2>2
  <1>4. CASE c \notin Cntrl
    <2>0. /\ c \notin {"CAN", "ESC", "NUL"} /\ c \notin {"LF", "VT", "FF"}
          /\ c # "BS" /\ c # "HT" /\ c # "CR" /\ c # "CAN" /\ c # "ESC"
      BY <1>4 DEF Cntrl
    <2>1. CASE t.state = "NORM"
      <3>1. body(t, c) = print(t, c)
        BY <1>4, <2>0, <2>1 DEF body
      <3>2. refresh(t, c) = IF ~t.need_wrap /\ t.x + 1 >= COLS THEN {} ELSE {"pos"}
        BY <1>4, <2>0, <2>1 DEF refresh
      <3> QED
        BY <3>1, <3>2, PrintCovers DEF Alike, Covers
    <2>2. CASE t.state = "ESC"
      <3>1. body(t, c) = esc(t, c)
        BY <1>4, <2>0, <2>2 DEF body
      <3>2. refresh(t, c) = CASE c \in {"3", "4"} -> {"pos", "blink"}
                              [] c \in {"5", "6"} -> {"pos", "hidden"}
                              [] c \in {"8", "c"} -> {"pos", "blink", "hidden"}
                              [] OTHER            -> {"pos"}
        BY <1>4, <2>0, <2>2 DEF refresh
      <3>3. /\ "pos" \in refresh(t, c)
            /\ c \in {"3", "4"} => "blink" \in refresh(t, c)
            /\ c \in {"5", "6"} => "hidden" \in refresh(t, c)
            /\ c \in {"8", "c"} => "blink" \in refresh(t, c) /\ "hidden" \in refresh(t, c)
        BY <3>2
      <3> QED
        BY <3>1, <3>3, EscCovers DEF Alike, Covers
    <2>3. CASE t.state = "CSI"
      <3>1. body(t, c) = csi(t, c)
        BY <1>4, <2>0, <2>3 DEF body
      <3>2. refresh(t, c) = IF c = "u" THEN {"pos", "blink", "hidden"} ELSE {"pos"}
        BY <1>4, <2>0, <2>3 DEF refresh
      <3> QED
        BY <3>1, <3>2, CsiCovers DEF Alike, Covers
    <2>4. CASE t.state \notin {"NORM", "ESC", "CSI"}
      <3>1. body(t, c) = t
        BY <2>0, <2>4 DEF body
      <3> QED
        BY <1>0, <3>1 DEF Alike
    <2> QED
      BY <2>1, <2>2, <2>3, <2>4
  <1> QED
    BY <1>2, <1>3, <1>4

-----------------------------------------------------------------------------
(* The inductive invariant: every terminal is in bounds, its bit is set exactly *)
(* while the task is in terminal_putchar on it, and the mapping is right.       *)
VInv ==
    /\ term = [n \in Terminals |-> term[n]]
    /\ pte = [n \in Terminals |-> pte[n]]
    /\ current \in Terminals
    /\ {"pc", "n", "c", "regs"} \subseteq DOMAIN task
    /\ task.pc \in {"user", "body", "shown", "vga", "unlock"} /\ task.n \in Terminals
    /\ \A n \in Terminals : Edge(term[n])
    /\ \A n \in Terminals : term[n].printing = (task.pc # "user" /\ n = task.n)
    /\ ShownIsCurrent

(* What a character leaves of terminal n. *)
Printed(n, c) == [body(Loaded(n), c) EXCEPT !.fb = <<>>]

LEMMA PrintedLike ==
    ASSUME VInv, NEW n \in Terminals, NEW c
    PROVE  /\ Edge(Printed(n, c)) /\ Locked(term[n], Printed(n, c))
           /\ Covers(term[n], Printed(n, c), refresh(Loaded(n), c))
           /\ Printed(n, c).x = body(Loaded(n), c).x /\ Printed(n, c).y = body(Loaded(n), c).y
           /\ Printed(n, c).hidden = body(Loaded(n), c).hidden
           /\ Printed(n, c).blink_on = body(Loaded(n), c).blink_on
  <1>1. \A u, v : Edge(u) => /\ Edge([u EXCEPT !.fb = v])
                            /\ Alike(u, [u EXCEPT !.fb = v])
                            /\ [u EXCEPT !.fb = v].x = u.x /\ [u EXCEPT !.fb = v].y = u.y
    BY DEF Edge, InBounds, Fields, Alike, Locked
  <1>2. /\ Edge(Loaded(n)) /\ Alike(term[n], Loaded(n))
        /\ Loaded(n).x = term[n].x /\ Loaded(n).y = term[n].y
    BY <1>1, Zenon DEF VInv, Loaded
  <1>3. Fields \subseteq DOMAIN Loaded(n)
    BY <1>2 DEF Edge, InBounds
  <1>4. /\ Edge(body(Loaded(n), c)) /\ Locked(Loaded(n), body(Loaded(n), c))
        /\ Covers(Loaded(n), body(Loaded(n), c), refresh(Loaded(n), c))
    BY <1>2, <1>3, BodyEdge, BodyCovers
  <1>5. /\ Edge(Printed(n, c)) /\ Alike(body(Loaded(n), c), Printed(n, c))
        /\ Printed(n, c).x = body(Loaded(n), c).x /\ Printed(n, c).y = body(Loaded(n), c).y
    BY <1>1, <1>4, Zenon DEF Printed
  <1> QED
    BY <1>2, <1>4, <1>5 DEF Alike, Locked, Covers

(* A character printed on n changes no other terminal and not the bit of n. *)
LEMMA StoreStep ==
    ASSUME VInv, NEW n \in Terminals, NEW c, Store(n, body(Loaded(n), c))
    PROVE  /\ term' = [m \in Terminals |-> term'[m]]
           /\ \A m \in Terminals : Edge(term'[m]) /\ term'[m].printing = term[m].printing
           /\ \A m \in Terminals : m # n => term'[m] = term[m]
           /\ term'[n] = Printed(n, c)
  <1>1. term' = [term EXCEPT ![n] = Printed(n, c)]
    BY DEF Store, Printed
  <1>2. /\ term' = [m \in Terminals |-> term'[m]]
        /\ \A m \in Terminals : m # n => term'[m] = term[m]
        /\ term'[n] = Printed(n, c)
    BY <1>1 DEF VInv
  <1> QED
    BY <1>2, PrintedLike DEF VInv, Locked

LEMMA FreshEdge == Edge(Fresh) /\ Fresh.printing = FALSE
  <1> DEFINE t == [state |-> "NORM", x |-> 0, y |-> 0, hidden |-> FALSE,
                   need_wrap |-> FALSE, tabs |-> {}, param |-> NoParams, idx |-> 0,
                   attr |-> DefaultAttr, blink_on |-> FALSE, saved |-> <<>>,
                   printing |-> FALSE, fb |-> <<>>]
  <1>1. Fields \subseteq DOMAIN t /\ t.printing = FALSE
    BY DEF Fields
  <1>2. Fresh = terminal_defaults(t)
    BY DEF Fresh
  <1> HIDE DEF t
  <1> DEFINE u == [t EXCEPT !.state = "NORM", !.tabs = DefaultTabs, !.param = NoParams,
                            !.idx = 0, !.blink_on = FALSE, !.need_wrap = FALSE,
                            !.attr = DefaultAttr, !.x = 0, !.y = 0, !.hidden = FALSE]
  <1>3. /\ DOMAIN u = DOMAIN t /\ u.x = 0 /\ u.tabs = DefaultTabs /\ u.param = NoParams
        /\ u.state = "NORM" /\ u.need_wrap = FALSE /\ u.printing = FALSE
    BY <1>1 DEF Fields
  <1>4. Fresh = save_terminal(u)
    BY <1>2 DEF terminal_defaults
  <1> HIDE DEF u
  <1>5. DefaultTabs \in Stops /\ NoParams \in Numbers /\ 0 \in Columns
    BY DEF DefaultTabs, NoParams, Stops, Numbers, Columns
  <1>6. Edge(save_terminal(u)) /\ save_terminal(u).printing = FALSE
    BY <1>1, <1>3, <1>5 DEF Edge, InBounds, Fields, save_terminal
  <1> QED
    BY <1>4, <1>6

LEMMA VInit == Init => VInv
  <1> SUFFICES ASSUME Init PROVE VInv
    OBVIOUS
  <1>1. /\ term = [n \in Terminals |-> Fresh] /\ pte = [n \in Terminals |-> IF n = 1 THEN VGA ELSE n]
        /\ current = 1 /\ task = Idle
    BY DEF Init
  <1>2. 1 \in Terminals
    BY VirtualTerminalsAssumption DEF Terminals
  <1>3. /\ {"pc", "n", "c", "regs"} \subseteq DOMAIN task /\ task.pc = "user" /\ task.n = 1
    BY <1>1 DEF Idle
  <1>4. ShownIsCurrent
    BY <1>1, <1>2 DEF ShownIsCurrent
  <1>5. \A n \in Terminals : Edge(term[n]) /\ term[n].printing = FALSE
    BY <1>1, FreshEdge
  <1> QED
    BY <1>1, <1>2, <1>3, <1>4, <1>5 DEF VInv

LEMMA VNext ==
    ASSUME VInv, [Next]_vars
    PROVE  VInv'
  <1>0. \A n \in Terminals : Fields \subseteq DOMAIN term[n]
    BY DEF VInv, Edge, InBounds
  <1>1. CASE UNCHANGED vars
    BY <1>1 DEF VInv, vars, ShownIsCurrent
  <1>2. CASE PutcharLock
    <2>1. PICK n \in Terminals, c \in Text \cup EscCodes \cup CsiCodes :
             /\ ~term[n].printing
             /\ term' = [term EXCEPT ![n].printing = TRUE]
             /\ task' = [pc |-> "body", n |-> n, c |-> c, regs |-> {}]
      BY <1>2 DEF PutcharLock
    <2>2. task.pc = "user" /\ current' = current /\ pte' = pte
      BY <1>2 DEF PutcharLock, Task
    <2>3. \A m \in Terminals : Edge(term'[m]) /\ term'[m].printing = (m = n)
      <3>1. /\ Edge([term[n] EXCEPT !.printing = TRUE])
            /\ [term[n] EXCEPT !.printing = TRUE].printing = TRUE
        BY DEF VInv, Edge, InBounds, Fields
      <3> QED
        BY <2>1, <2>2, <3>1 DEF VInv
    <2>4. term' = [m \in Terminals |-> term'[m]]
      BY <2>1 DEF VInv
    <2> QED
      BY <2>1, <2>2, <2>3, <2>4 DEF VInv, ShownIsCurrent
  <1>3. CASE PutcharBody
    <2>1. /\ Store(task.n, body(Loaded(task.n), task.c)) /\ task.pc = "body"
          /\ task' = [pc |-> "shown", n |-> task.n, c |-> "NUL",
                      regs |-> refresh(Loaded(task.n), task.c)]
          /\ current' = current /\ pte' = pte
      BY <1>3 DEF PutcharBody, Task
    <2>2. /\ term' = [m \in Terminals |-> term'[m]]
          /\ \A m \in Terminals : Edge(term'[m]) /\ term'[m].printing = term[m].printing
      BY <2>1, StoreStep DEF VInv
    <2> QED
      BY <2>1, <2>2 DEF VInv, ShownIsCurrent
  <1>4. CASE PutcharShown \/ PutcharVga
    <2>1. UNCHANGED <<term, current, pte>>
      BY <1>4 DEF PutcharShown, PutcharVga
    <2>2. /\ task.pc \in {"shown", "vga"} /\ task'.pc \in {"vga", "unlock"}
          /\ task'.n = task.n /\ DOMAIN task' = DOMAIN task
      BY <1>4 DEF PutcharShown, PutcharVga, Task, VInv
    <2> QED
      BY <2>1, <2>2 DEF VInv, ShownIsCurrent
  <1>5. CASE PutcharUnlock
    <2>1. /\ task.pc = "unlock" /\ task' = Idle /\ current' = current /\ pte' = pte
          /\ term' = [term EXCEPT ![task.n].printing = FALSE]
      BY <1>5 DEF PutcharUnlock, Task
    <2>2. /\ {"pc", "n", "c", "regs"} \subseteq DOMAIN task' /\ task'.pc = "user" /\ task'.n = 1
      BY <2>1 DEF Idle
    <2>3. 1 \in Terminals
      BY VirtualTerminalsAssumption DEF Terminals
    <2>4. \A m \in Terminals : Edge(term'[m]) /\ term'[m].printing = FALSE
      <3>1. /\ Edge([term[task.n] EXCEPT !.printing = FALSE])
            /\ [term[task.n] EXCEPT !.printing = FALSE].printing = FALSE
        BY DEF VInv, Edge, InBounds, Fields
      <3> QED
        BY <2>1, <3>1 DEF VInv
    <2>5. term' = [m \in Terminals |-> term'[m]]
      BY <2>1 DEF VInv
    <2> QED
      BY <2>1, <2>2, <2>3, <2>4, <2>5 DEF VInv, ShownIsCurrent
  <1>6. ASSUME NEW c, HandlerPrints(c) PROVE VInv'
    <2>1. Store(current, body(Loaded(current), c)) /\ UNCHANGED <<current, pte, task>>
      BY <1>6 DEF HandlerPrints
    <2>2. /\ term' = [m \in Terminals |-> term'[m]]
          /\ \A m \in Terminals : Edge(term'[m]) /\ term'[m].printing = term[m].printing
      BY <2>1, StoreStep DEF VInv
    <2> QED
      BY <2>1, <2>2 DEF VInv, ShownIsCurrent
  <1>7. CASE IsrEcho
    <2>1. (\E c : HandlerPrints(c)) \/ UNCHANGED <<term, current, pte, task>>
      BY <1>7 DEF IsrEcho
    <2> QED
      BY <1>6, <2>1 DEF VInv, ShownIsCurrent
  <1>8. CASE IsrMessage
    <2>1. (\E c : HandlerPrints(c)) \/ UNCHANGED <<term, current, pte, task>>
      BY <1>8 DEF IsrMessage, vars
    <2> QED
      BY <1>6, <2>1 DEF VInv, ShownIsCurrent
  <1>9. CASE \E num \in Terminals : switch_terminal(num)
    <2>1. PICK num \in Terminals : switch_terminal(num)
      BY <1>9
    <2>2. /\ pte' = [n \in Terminals |-> IF n = num THEN VGA ELSE IF n = current THEN n ELSE pte[n]]
          /\ current' = num /\ UNCHANGED <<term, task>>
      BY <2>1 DEF switch_terminal, remap
    <2>3. ShownIsCurrent'
      BY <2>2 DEF VInv, ShownIsCurrent
    <2>4. pte' = [n \in Terminals |-> pte'[n]]
      BY <2>2
    <2> QED
      BY <2>2, <2>3, <2>4 DEF VInv
  <1> QED
    BY <1>1, <1>2, <1>3, <1>4, <1>5, <1>7, <1>8, <1>9 DEF Next

(* For every screen, every number of terminals and every stream of characters, *)
(* a deferred wrap is pending only at the edge.                                *)
THEOREM WrapPendsAtEdge == Spec => []WrapAtEdge
  <1>1. VInv => WrapAtEdge
    BY DEF VInv, Edge, WrapAtEdge
  <1> QED
    BY <1>1, VInit, VNext, PTL DEF Spec

(* For every number of terminals and whenever the switches come, the visible *)
(* frame is mapped for the current terminal and for no other.                *)
THEOREM CurrentIsShown == Spec => []ShownIsCurrent
  <1>1. VInv => ShownIsCurrent
    BY DEF VInv
  <1> QED
    BY <1>1, VInit, VNext, PTL DEF Spec

-----------------------------------------------------------------------------
(* The registers the task has yet to write for a character on the current terminal. *)
Owed == IF task.pc \in {"shown", "vga"} /\ task.n = current THEN task.regs ELSE {}

(* Every other register shows terminal t. *)
Shows(v, t, regs) ==
    /\ "pos" \notin regs => v.pos = xy2pos(t.x, t.y)
    /\ "hidden" \notin regs => v.hidden = t.hidden
    /\ "blink" \notin regs => v.blink = t.blink_on

AInv ==
    /\ VInv
    /\ vga = [pos |-> vga.pos, hidden |-> vga.hidden, blink |-> vga.blink]
    /\ task.pc = "vga" => task.n = current
    /\ Shows(vga, term[current], Owed)

(* No switch comes between the task's test that its terminal is shown and its *)
(* writes to the VGA.                                                         *)
SwitchWaits == task.pc = "vga" => current' = current

LEMMA WriteShows ==
    ASSUME NEW t, NEW u, NEW regs, NEW owed, Shows(vga, u, owed),
           "pos" \notin regs => "pos" \notin owed /\ t.x = u.x /\ t.y = u.y,
           "hidden" \notin regs => "hidden" \notin owed /\ t.hidden = u.hidden,
           "blink" \notin regs => "blink" \notin owed /\ t.blink_on = u.blink_on
    PROVE  /\ Shows(WriteVga(t, regs), t, {})
           /\ LET v == WriteVga(t, regs)
              IN  v = [pos |-> v.pos, hidden |-> v.hidden, blink |-> v.blink]
  BY DEF Shows, WriteVga

LEMMA AInit == Init => AInv
  <1> SUFFICES ASSUME Init PROVE AInv
    OBVIOUS
  <1>1. VInv
    BY VInit
  <1>2. vga = [pos |-> 0, hidden |-> FALSE, blink |-> FALSE] /\ task.pc = "user"
    BY DEF Init, Idle
  <1>3. term[current] = Fresh
    BY <1>1 DEF Init, VInv
  <1>4. Fresh.x = 0 /\ Fresh.y = 0 /\ Fresh.hidden = FALSE /\ Fresh.blink_on = FALSE
    BY DEF Fresh, terminal_defaults, save_terminal
  <1>5. xy2pos(0, 0) = 0
    BY DEF xy2pos
  <1> QED
    BY <1>1, <1>2, <1>3, <1>4, <1>5 DEF AInv, Shows

LEMMA ANext ==
    ASSUME AInv, [Next]_vars, [SwitchWaits]_vars
    PROVE  AInv'
  <1> USE DEF AInv
  <1>0. VInv'
    BY VNext
  <1>1. CASE UNCHANGED vars
    BY <1>0, <1>1 DEF vars, Owed
  <1>2. CASE PutcharLock
    <2>0. PICK n \in Terminals, c \in Text \cup EscCodes \cup CsiCodes :
             /\ term' = [term EXCEPT ![n].printing = TRUE]
             /\ task' = [pc |-> "body", n |-> n, c |-> c, regs |-> {}]
      BY <1>2, Zenon DEF PutcharLock
    <2>1. term' = [term EXCEPT ![n].printing = TRUE] /\ task'.pc = "body"
      BY <2>0
    <2>2. task.pc = "user" /\ UNCHANGED <<current, vga>>
      BY <1>2 DEF PutcharLock, Task
    <2>3. \A m \in Terminals : /\ term'[m].x = term[m].x /\ term'[m].y = term[m].y
                              /\ term'[m].hidden = term[m].hidden
                              /\ term'[m].blink_on = term[m].blink_on
      BY <2>1 DEF VInv, Edge, InBounds, Fields
    <2>4. Owed = {} /\ Owed' = {}
      BY <2>1, <2>2 DEF Owed
    <2> QED
      BY <1>0, <2>1, <2>2, <2>3, <2>4 DEF VInv, Shows
  <1>3. CASE PutcharBody
    <2>1. /\ Store(task.n, body(Loaded(task.n), task.c)) /\ task.pc = "body"
          /\ task' = [pc |-> "shown", n |-> task.n, c |-> "NUL",
                      regs |-> refresh(Loaded(task.n), task.c)]
          /\ UNCHANGED <<current, vga>>
      BY <1>3 DEF PutcharBody, Task
    <2>2. /\ \A m \in Terminals : m # task.n => term'[m] = term[m]
          /\ term'[task.n] = Printed(task.n, task.c)
      BY <2>1, StoreStep DEF VInv
    <2>3. Owed = {} /\ Owed' = IF task.n = current THEN refresh(Loaded(task.n), task.c) ELSE {}
      BY <2>1 DEF Owed
    <2>4. Covers(term[task.n], term'[task.n], refresh(Loaded(task.n), task.c))
      BY <2>2, PrintedLike DEF VInv
    <2> QED
      BY <1>0, <2>1, <2>2, <2>3, <2>4 DEF VInv, Shows, Covers
  <1>4. CASE PutcharShown
    <2>1. task.pc = "shown" /\ UNCHANGED <<term, current, vga>>
      BY <1>4 DEF PutcharShown, Task
    <2>2. \/ task.n = current /\ task'.pc = "vga" /\ task'.regs = task.regs /\ task'.n = task.n
          \/ (task.n # current \/ task.regs = {}) /\ task'.pc = "unlock"
      BY <1>4 DEF PutcharShown, VInv
    <2> QED
      BY <1>0, <2>1, <2>2 DEF Owed, Shows
  <1>5. CASE PutcharVga
    <2>1. /\ task.pc = "vga" /\ vga' = WriteVga(term[task.n], task.regs)
          /\ UNCHANGED <<term, current>> /\ task'.pc = "unlock"
      BY <1>5 DEF PutcharVga, Task, VInv
    <2>2. Owed = task.regs /\ Owed' = {} /\ task.n = current
      BY <2>1 DEF Owed
    <2>3. /\ Shows(vga', term[current], {})
          /\ vga' = [pos |-> vga'.pos, hidden |-> vga'.hidden, blink |-> vga'.blink]
      BY <2>1, <2>2, WriteShows
    <2> QED
      BY <1>0, <2>1, <2>2, <2>3
  <1>6. CASE PutcharUnlock
    <2>1. /\ task.pc = "unlock" /\ task'.pc = "user" /\ UNCHANGED <<current, vga>>
          /\ term' = [term EXCEPT ![task.n].printing = FALSE]
      BY <1>6 DEF PutcharUnlock, Task, Idle
    <2>2. \A m \in Terminals : /\ term'[m].x = term[m].x /\ term'[m].y = term[m].y
                              /\ term'[m].hidden = term[m].hidden
                              /\ term'[m].blink_on = term[m].blink_on
      BY <2>1 DEF VInv, Edge, InBounds, Fields
    <2>3. Owed = {} /\ Owed' = {}
      BY <2>1 DEF Owed
    <2> QED
      BY <1>0, <2>1, <2>2, <2>3 DEF VInv, Shows
  <1>7. ASSUME NEW c, HandlerPrints(c), ~term[current].printing PROVE AInv'
    <2>1. /\ Store(current, body(Loaded(current), c)) /\ UNCHANGED <<current, pte, task>>
          /\ vga' = WriteVga(body(Loaded(current), c), refresh(Loaded(current), c))
      BY <1>7 DEF HandlerPrints
    <2>2. term'[current] = Printed(current, c)
      BY <2>1, StoreStep DEF VInv
    <2>3. Owed = {} /\ Owed' = {}
      BY <1>7, <2>1 DEF Owed, VInv
    <2> DEFINE t == body(Loaded(current), c)
               regs == refresh(Loaded(current), c)
    <2>4. /\ Covers(term[current], Printed(current, c), regs)
          /\ Printed(current, c).x = t.x /\ Printed(current, c).y = t.y
          /\ Printed(current, c).hidden = t.hidden /\ Printed(current, c).blink_on = t.blink_on
      BY PrintedLike DEF VInv
    <2> HIDE DEF t, regs
    <2>5. /\ Shows(WriteVga(t, regs), t, {})
          /\ LET v == WriteVga(t, regs)
             IN  v = [pos |-> v.pos, hidden |-> v.hidden, blink |-> v.blink]
      BY <2>3, <2>4, WriteShows DEF Covers
    <2>6. vga' = WriteVga(t, regs)
      BY <2>1 DEF t, regs
    <2> QED
      BY <1>0, <2>1, <2>2, <2>3, <2>4, <2>5, <2>6 DEF Shows
  <1>8. CASE IsrEcho
    <2>1. \/ \E c : HandlerPrints(c) /\ ~term[current].printing
          \/ UNCHANGED <<term, current, pte, task, vga>>
      BY <1>8 DEF IsrEcho
    <2> QED
      BY <1>0, <1>7, <2>1 DEF Owed
  <1>9. CASE IsrMessage
    <2>1. \/ \E c : HandlerPrints(c) /\ ~term[current].printing
          \/ UNCHANGED <<term, current, pte, task, vga>>
      BY <1>9 DEF IsrMessage, vars
    <2> QED
      BY <1>0, <1>7, <2>1 DEF Owed
  <1>10. CASE \E num \in Terminals : switch_terminal(num)
    <2>1. PICK num \in Terminals : switch_terminal(num)
      BY <1>10
    <2>2. /\ vga' = WriteVga(term[num], {"pos", "hidden", "blink"})
          /\ current' = num /\ UNCHANGED <<term, task>>
      BY <2>1 DEF switch_terminal
    <2>3. /\ Shows(vga', term[num], {})
          /\ vga' = [pos |-> vga'.pos, hidden |-> vga'.hidden, blink |-> vga'.blink]
      BY <2>2 DEF WriteVga, Shows
    <2>4. task.pc = "vga" => current' = current
      BY <2>2 DEF SwitchWaits, vars
    <2> QED
      BY <1>0, <2>2, <2>3, <2>4 DEF Shows
  <1> QED
    BY <1>1, <1>2, <1>3, <1>4, <1>5, <1>6, <1>8, <1>9, <1>10 DEF Next

(* With any number of terminals: as long as no switch falls between the task's *)
(* test that its terminal is shown and its writes to the VGA, the VGA shows    *)
(* the cursor, the blinking and the cursor's look of the current terminal      *)
(* whenever no character is under way on it.                                   *)
THEOREM VgaFollows == Spec /\ [][SwitchWaits]_vars => []VgaAgrees
  <1>1. AInv => VgaAgrees
    <2> SUFFICES ASSUME AInv, ~term[current].printing
                 PROVE  vga = [pos |-> xy2pos(term[current].x, term[current].y),
                               hidden |-> term[current].hidden, blink |-> term[current].blink_on]
      BY DEF VgaAgrees
    <2>1. Owed = {}
      BY DEF AInv, VInv, Owed
    <2> QED
      BY <2>1 DEF AInv, Shows
  <1>2. AInv /\ [Next]_vars /\ [SwitchWaits]_vars => AInv'
    BY ANext
  <1> QED
    BY <1>1, <1>2, AInit, PTL DEF Spec

(* A single terminal is shown faithfully without that proviso. *)
THEOREM VgaFollowsAlone == NR_TERMINAL = 1 => (Spec => []VgaAgrees)
  <1> SUFFICES ASSUME NR_TERMINAL = 1 PROVE Spec => []VgaAgrees
    OBVIOUS
  <1>1. VInv /\ [Next]_vars => [SwitchWaits]_vars
    <2> SUFFICES ASSUME VInv, [Next]_vars PROVE [SwitchWaits]_vars
      OBVIOUS
    <2>1. VInv'
      BY VNext
    <2>2. Terminals = {1}
      BY DEF Terminals
    <2> QED
      BY <2>1, <2>2 DEF VInv, SwitchWaits
  <1> QED
    BY <1>1, VInit, VNext, VgaFollows, PTL DEF Spec

-----------------------------------------------------------------------------
(* Text on paper.  Plain text holds letters and the controls that move the paper *)
(* or the carriage or do nothing: no tab and no control sequence.                *)
Plain == Visible \cup (Cntrl \ {"HT", "ESC"})
PlainText == Text \cup Keys \cup Messages \subseteq Plain

(* A position on the screen fits in the 16 bits of xy2pos. *)
SmallScreen == ROWS * COLS <= 65536

Rows == 0 .. ROWS - 1
Marks == Visible \cup {BLANK}
Buffers == [Cells -> Marks]

(* The lines of a frame buffer, and the column on paper of a terminal's cursor. *)
SheetOf(f) == [i \in Rows |-> [j \in Columns |-> f[i * COLS + j]]]
ColOf(t) == IF t.need_wrap THEN COLS ELSE t.x

(* A terminal that prints plain text. *)
Sheet(t) == Edge(t) /\ t.state = "NORM" /\ t.y \in Rows
OnPaper(t) == Sheet(t) /\ t.fb \in Buffers

(* The paper after a letter. *)
Put(s, y, x, c) == [s EXCEPT ![y][x] = c]

(* The paper after a line feed, and its line. *)
Fed(s, r) ==
    IF r < ROWS - 1 THEN s
    ELSE [i \in Rows |-> IF i < ROWS - 1 THEN s[i + 1] ELSE [j \in Columns |-> BLANK]]
FedRow(r) == IF r < ROWS - 1 THEN r + 1 ELSE r

-----------------------------------------------------------------------------
LEMMA RowsNat == ROWS \in Nat \ {0}
  BY TerminalAssumption

(* A line ends before the next one begins. *)
LEMMA LinesApart ==
    ASSUME NEW i \in Nat, NEW k \in Nat, i < k
    PROVE  i * COLS \in Nat /\ k * COLS \in Nat /\ i * COLS + COLS <= k * COLS
  <1>1. PICK d \in Nat : k = i + 1 + d
    <2>1. k - i - 1 \in Nat /\ k = i + 1 + (k - i - 1)
      OBVIOUS
    <2> QED
      BY <2>1
  <1>2. k * COLS = i * COLS + COLS + d * COLS
    BY <1>1
  <1>3. i * COLS \in Nat /\ d * COLS \in Nat /\ k * COLS \in Nat
    OBVIOUS
  <1> QED
    BY <1>2, <1>3

(* Every place of a sheet is a cell of its own. *)
LEMMA Place ==
    ASSUME NEW i \in Rows, NEW j \in Columns
    PROVE  /\ i * COLS + j \in Cells
           /\ i * COLS \in Nat
           /\ i < ROWS - 1 => i * COLS + j + COLS = (i + 1) * COLS + j
           /\ i = ROWS - 1 => i * COLS + j + COLS >= ROWS * COLS
  <1>1. i \in Nat /\ i < ROWS /\ j \in Nat /\ j < COLS /\ ROWS \in Nat
    BY RowsNat DEF Rows, Columns
  <1>2. i * COLS \in Nat /\ ROWS * COLS \in Nat /\ i * COLS + COLS <= ROWS * COLS
    BY <1>1, LinesApart
  <1>3. (i + 1) * COLS = i * COLS + COLS
    BY <1>1
  <1>4. i * COLS + j \in Cells
    BY <1>1, <1>2 DEF Cells
  <1>5. i = ROWS - 1 => i * COLS + COLS = ROWS * COLS
    BY <1>1, <1>3
  <1> QED
    BY <1>1, <1>2, <1>3, <1>4, <1>5

LEMMA PlacesApart ==
    ASSUME NEW i \in Rows, NEW j \in Columns, NEW k \in Rows, NEW l \in Columns,
           i * COLS + j = k * COLS + l
    PROVE  i = k /\ j = l
  <1>1. /\ i \in Nat /\ k \in Nat /\ j \in Nat /\ j < COLS /\ l \in Nat /\ l < COLS
    BY RowsNat DEF Rows, Columns
  <1>2. i * COLS \in Nat /\ k * COLS \in Nat
    BY Place
  <1>3. ~(i < k)
    <2>1. i < k => i * COLS + COLS <= k * COLS
      BY <1>1, LinesApart
    <2> QED
      BY <1>1, <1>2, <2>1
  <1>4. ~(k < i)
    <2>1. k < i => k * COLS + COLS <= i * COLS
      BY <1>1, LinesApart
    <2> QED
      BY <1>1, <1>2, <2>1
  <1> QED
    BY <1>1, <1>2, <1>3, <1>4

(* The cell xy2pos finds. *)
LEMMA XyPlace ==
    ASSUME SmallScreen, NEW x \in Columns, NEW y \in Rows
    PROVE  xy2pos(x, y) = y * COLS + x
  <1>1. y * COLS + x \in Cells
    BY Place
  <1>2. ROWS * COLS \in Nat
    BY RowsNat
  <1>3. y * COLS + x \in Nat /\ y * COLS + x < 65536
    BY <1>1, <1>2 DEF Cells, SmallScreen
  <1>4. \A p \in Nat : p < 65536 => p % 65536 = p
    OBVIOUS
  <1> QED
    BY <1>3, <1>4 DEF xy2pos

-----------------------------------------------------------------------------
(* scroll moves the paper up by one line. *)
LEMMA ScrollSheet ==
    ASSUME NEW t, OnPaper(t), t.y = ROWS - 1
    PROVE  /\ \E v : scroll(t, 1) = [t EXCEPT !.fb = v]
           /\ scroll(t, 1).fb \in Buffers
           /\ SheetOf(scroll(t, 1).fb) = Fed(SheetOf(t.fb), t.y)
  <1> DEFINE v == [p \in Cells |-> IF p + COLS \in Cells THEN t.fb[p + COLS] ELSE BLANK]
  <1>1. Smaller(IF 1 < 0 THEN -1 ELSE 1, ROWS) * COLS = COLS
    <2>1. Smaller(IF 1 < 0 THEN -1 ELSE 1, ROWS) = 1
      BY RowsNat DEF Smaller
    <2> QED
      BY <2>1
  <1>2. scroll(t, 1) = [t EXCEPT !.fb = v]
    BY <1>1 DEF scroll
  <1>3. scroll(t, 1).fb = v
    BY <1>2 DEF OnPaper, Sheet, Edge, InBounds, Fields
  <1>4. v \in Buffers
    BY DEF OnPaper, Buffers, Marks
  <1>5. ASSUME NEW i \in Rows, NEW j \in Columns
        PROVE  v[i * COLS + j] = IF i < ROWS - 1 THEN t.fb[(i + 1) * COLS + j] ELSE BLANK
    <2>1. i * COLS + j \in Cells /\ i * COLS \in Nat
      BY Place
    <2>2. CASE i < ROWS - 1
      <3>1. i * COLS + j + COLS = (i + 1) * COLS + j
        BY <2>2, Place
      <3>2. i + 1 \in Rows
        BY <2>2, RowsNat DEF Rows
      <3>3. (i + 1) * COLS + j \in Cells
        BY <3>2, Place
      <3> QED
        BY <2>1, <2>2, <3>1, <3>3
    <2>3. CASE ~(i < ROWS - 1)
      <3>1. i = ROWS - 1
        BY <2>3, RowsNat DEF Rows
      <3>2. i * COLS + j + COLS >= ROWS * COLS
        BY <3>1, Place
      <3>3. i * COLS + j + COLS \notin Cells
        <4>1. ROWS * COLS \in Nat /\ i * COLS + j + COLS \in Nat
          BY <2>1, RowsNat DEF Columns
        <4> QED
          BY <3>2, <4>1 DEF Cells
      <3> QED
        BY <2>1, <2>3, <3>3
    <2> QED
      BY <2>2, <2>3
  <1> HIDE DEF v
  <1>6. SheetOf(v) = Fed(SheetOf(t.fb), t.y)
    <2>1. ~(t.y < ROWS - 1)
      BY RowsNat
    <2>2. ASSUME NEW i \in Rows
          PROVE  SheetOf(v)[i] = IF i < ROWS - 1 THEN SheetOf(t.fb)[i + 1]
                                 ELSE [j \in Columns |-> BLANK]
      <3>1. i < ROWS - 1 => i + 1 \in Rows
        BY RowsNat DEF Rows
      <3> QED
        BY <1>5, <3>1 DEF SheetOf
    <2> QED
      BY <2>1, <2>2 DEF Fed, SheetOf
  <1> QED
    BY <1>2, <1>3, <1>4, <1>6

(* Fill at the cursor types on the paper. *)
LEMMA FillSheet ==
    ASSUME SmallScreen, NEW t, OnPaper(t), NEW x \in Columns, NEW y \in Rows, NEW c \in Visible
    PROVE  /\ Fill(t, {xy2pos(x, y)}, c).fb \in Buffers
           /\ SheetOf(Fill(t, {xy2pos(x, y)}, c).fb) = Put(SheetOf(t.fb), y, x, c)
  <1> DEFINE q == y * COLS + x
             v == [p \in Cells |-> IF p \in {q} THEN c ELSE t.fb[p]]
  <1>1. Fill(t, {xy2pos(x, y)}, c).fb = v
    BY XyPlace DEF Fill, OnPaper, Sheet, Edge, InBounds, Fields
  <1>2. v \in Buffers
    BY DEF OnPaper, Buffers, Marks
  <1>3. ASSUME NEW i \in Rows, NEW j \in Columns
        PROVE  v[i * COLS + j] = IF i = y /\ j = x THEN c ELSE t.fb[i * COLS + j]
    <2>1. i * COLS + j \in Cells
      BY Place
    <2>2. i * COLS + j = q <=> i = y /\ j = x
      BY PlacesApart
    <2> HIDE DEF q
    <2> QED
      BY <2>1, <2>2
  <1> HIDE DEF v
  <1>4. SheetOf(v) = Put(SheetOf(t.fb), y, x, c)
    <2> DEFINE old(i) == [j \in Columns |-> t.fb[i * COLS + j]]
    <2>1. \A i \in Rows : [j \in Columns |-> v[i * COLS + j]] =
                          IF i = y THEN [old(i) EXCEPT ![x] = c] ELSE old(i)
      BY <1>3
    <2>2. Put(SheetOf(t.fb), y, x, c) =
             [i \in Rows |-> IF i = y THEN [old(i) EXCEPT ![x] = c] ELSE old(i)]
      BY DEF SheetOf, Put
    <2> HIDE DEF old
    <2> QED
      BY <2>1, <2>2 DEF SheetOf
  <1> QED
    BY <1>1, <1>2, <1>4

-----------------------------------------------------------------------------
(* What one character does to the sheet, the line and the column of a terminal. *)
Rests(t, u) == SheetOf(u.fb) = SheetOf(t.fb) /\ u.y = t.y /\ ColOf(u) = ColOf(t)

Feeds(t, u) ==
    /\ SheetOf(u.fb) = Fed(SheetOf(t.fb), t.y)
    /\ u.y = FedRow(t.y)
    /\ ColOf(u) = IF ColOf(t) = COLS THEN COLS - 1 ELSE ColOf(t)

Returns(t, u) == SheetOf(u.fb) = SheetOf(t.fb) /\ u.y = t.y /\ ColOf(u) = 0

Backs(t, u) ==
    /\ SheetOf(u.fb) = SheetOf(t.fb) /\ u.y = t.y
    /\ ColOf(u) = IF ColOf(t) = COLS THEN COLS - 2 ELSE IF ColOf(t) = 0 THEN 0 ELSE ColOf(t) - 1

Types(t, u, c) ==
    IF ColOf(t) < COLS
    THEN /\ SheetOf(u.fb) = Put(SheetOf(t.fb), t.y, ColOf(t), c)
         /\ ColOf(u) = ColOf(t) + 1 /\ u.y = t.y
    ELSE /\ SheetOf(u.fb) = Put(Fed(SheetOf(t.fb), t.y), FedRow(t.y), 0, c)
         /\ ColOf(u) = 1 /\ u.y = FedRow(t.y)

(* The cursor of a terminal in NORM, with its text, at x and y. *)
LEMMA PaperFields ==
    ASSUME NEW t, OnPaper(t)
    PROVE  /\ Fields \subseteq DOMAIN t /\ InBounds(t) /\ t.x \in Columns /\ t.y \in Rows
           /\ t.fb \in Buffers /\ t.state = "NORM" /\ t.need_wrap \in BOOLEAN
           /\ t.need_wrap => t.x = COLS - 1
           /\ t.x \in Nat /\ t.x < COLS /\ t.y \in Nat
  BY RowsNat DEF OnPaper, Sheet, Edge, InBounds, Columns, Rows

LEMMA ReturnSheet ==
    ASSUME NEW t, OnPaper(t)
    PROVE  /\ OnPaper(carriage_return(t)) /\ Returns(t, carriage_return(t))
           /\ carriage_return(t).x = 0 /\ carriage_return(t).y = t.y
           /\ carriage_return(t).fb = t.fb /\ carriage_return(t).need_wrap = FALSE
  <1> DEFINE u == carriage_return(t)
  <1>1. Edge(u)
    BY PaperFields, LineEdge
  <1>2. /\ u.x = 0 /\ u.y = t.y /\ u.fb = t.fb /\ u.need_wrap = FALSE /\ u.state = t.state
    BY PaperFields DEF Fields, carriage_return
  <1> HIDE DEF u
  <1>3. OnPaper(u) /\ Returns(t, u)
    BY <1>1, <1>2, PaperFields DEF OnPaper, Sheet, Returns, ColOf
  <1> QED
    BY <1>2, <1>3 DEF u

LEMMA BackSheet ==
    ASSUME NEW t, OnPaper(t)
    PROVE  OnPaper(backspace(t)) /\ Backs(t, backspace(t))
  <1> DEFINE u == backspace(t)
  <1>1. Edge(u)
    BY PaperFields, LineEdge
  <1>2. /\ u.x = Larger(t.x - 1, 0) /\ u.y = t.y /\ u.fb = t.fb /\ u.need_wrap = FALSE
        /\ u.state = t.state
    BY PaperFields DEF Fields, backspace, cursor_left
  <1> HIDE DEF u
  <1>3. OnPaper(u)
    BY <1>1, <1>2, PaperFields DEF OnPaper, Sheet
  <1>4. Backs(t, u)
    BY <1>2, PaperFields DEF Backs, ColOf, Larger
  <1> QED
    BY <1>3, <1>4 DEF u

LEMMA FeedSheet ==
    ASSUME NEW t, OnPaper(t)
    PROVE  /\ OnPaper(line_feed(t)) /\ Feeds(t, line_feed(t))
           /\ line_feed(t).x = t.x /\ line_feed(t).need_wrap = FALSE
  <1> DEFINE u == line_feed(t)
  <1>1. Edge(u)
    BY PaperFields, LineEdge
  <1>2. CASE t.y + 1 >= ROWS
    <2>1. t.y = ROWS - 1
      BY <1>2, PaperFields, RowsNat DEF Rows
    <2>2. PICK v : scroll(t, 1) = [t EXCEPT !.fb = v]
      BY <2>1, ScrollSheet, Zenon
    <2>3. v \in Buffers /\ SheetOf(v) = Fed(SheetOf(t.fb), t.y)
      <3>1. scroll(t, 1).fb = v
        BY <2>2, PaperFields DEF Fields
      <3> QED
        BY <2>1, <3>1, ScrollSheet
    <2>4. u = [[t EXCEPT !.fb = v] EXCEPT !.need_wrap = FALSE]
      BY <1>2, <2>2 DEF line_feed
    <2>5. /\ u.x = t.x /\ u.y = t.y /\ u.fb = v /\ u.need_wrap = FALSE /\ u.state = t.state
      BY <2>4, PaperFields DEF Fields
    <2> HIDE DEF u
    <2>6. u.y = FedRow(t.y)
      BY <2>1, <2>5, RowsNat DEF FedRow
    <2>7. OnPaper(u) /\ Feeds(t, u)
      <3>1. OnPaper(u)
        BY <1>1, <2>3, <2>5, PaperFields DEF OnPaper, Sheet
      <3>2. ColOf(u) = IF ColOf(t) = COLS THEN COLS - 1 ELSE ColOf(t)
        BY <2>5, PaperFields DEF ColOf
      <3> QED
        BY <2>3, <2>5, <2>6, <3>1, <3>2 DEF Feeds
    <2> QED
      BY <2>5, <2>7 DEF u
  <1>3. CASE ~(t.y + 1 >= ROWS)
    <2>1. t.y < ROWS - 1 /\ t.y + 1 \in Rows
      BY <1>3, PaperFields, RowsNat DEF Rows
    <2>4. u = [t EXCEPT !.y = @ + 1, !.need_wrap = FALSE]
      BY <1>3 DEF line_feed
    <2>5. /\ u.x = t.x /\ u.y = t.y + 1 /\ u.fb = t.fb /\ u.need_wrap = FALSE
          /\ u.state = t.state
      BY <2>4, PaperFields DEF Fields
    <2> HIDE DEF u
    <2>6. u.y = FedRow(t.y) /\ Fed(SheetOf(t.fb), t.y) = SheetOf(t.fb)
      BY <2>1, <2>5 DEF FedRow, Fed
    <2>7. OnPaper(u) /\ Feeds(t, u)
      <3>1. OnPaper(u)
        BY <1>1, <2>1, <2>5, PaperFields DEF OnPaper, Sheet
      <3>2. ColOf(u) = IF ColOf(t) = COLS THEN COLS - 1 ELSE ColOf(t)
        BY <2>5, PaperFields DEF ColOf
      <3> QED
        BY <2>5, <2>6, <3>1, <3>2 DEF Feeds
    <2> QED
      BY <2>5, <2>7 DEF u
  <1> QED
    BY <1>2, <1>3

(* A letter, when no wrap is pending. *)
Typed(w, u, c) ==
    /\ u.fb \in Buffers /\ u.y = w.y /\ u.state = "NORM"
    /\ SheetOf(u.fb) = Put(SheetOf(w.fb), w.y, w.x, c)
    /\ ColOf(u) = w.x + 1

LEMMA TypeSheet ==
    ASSUME SmallScreen, NEW w, OnPaper(w), w.need_wrap = FALSE, NEW c \in Visible,
           NEW a, \E v : a = [w EXCEPT !.attr = v] \/ a = w,
           NEW u, u = Fill(advance(a), {xy2pos(w.x, w.y)}, c)
    PROVE  Typed(w, u, c)
  <1> DEFINE b == advance(a)
  <1>1. /\ DOMAIN a = DOMAIN w /\ a.x = w.x /\ a.y = w.y /\ a.fb = w.fb
        /\ a.need_wrap = FALSE /\ a.state = "NORM"
    BY PaperFields DEF Fields
  <1>2. Fields \subseteq DOMAIN a
    BY <1>1, PaperFields
  <1>3. /\ DOMAIN b = DOMAIN a /\ b.y = a.y /\ b.fb = a.fb /\ b.state = a.state
        /\ IF w.x + 1 >= COLS THEN b.x = w.x /\ b.need_wrap = TRUE
           ELSE b.x = w.x + 1 /\ b.need_wrap = FALSE
    BY <1>1, <1>2 DEF advance, Fields
  <1> HIDE DEF b
  <1>4. u = [b EXCEPT !.fb = [p \in Cells |-> IF p \in {xy2pos(w.x, w.y)} THEN c ELSE b.fb[p]]]
    BY DEF Fill, b
  <1>5. Fill(w, {xy2pos(w.x, w.y)}, c).fb =
            [p \in Cells |-> IF p \in {xy2pos(w.x, w.y)} THEN c ELSE w.fb[p]]
    BY PaperFields DEF Fill, Fields
  <1>6. /\ u.fb = Fill(w, {xy2pos(w.x, w.y)}, c).fb
        /\ u.x = b.x /\ u.y = b.y /\ u.need_wrap = b.need_wrap /\ u.state = b.state
    BY <1>1, <1>2, <1>3, <1>4, <1>5 DEF Fields
  <1>7. /\ u.fb \in Buffers
        /\ SheetOf(u.fb) = Put(SheetOf(w.fb), w.y, w.x, c)
    <2>1. w.x \in Columns /\ w.y \in Rows
      BY PaperFields
    <2>2. /\ Fill(w, {xy2pos(w.x, w.y)}, c).fb \in Buffers
          /\ SheetOf(Fill(w, {xy2pos(w.x, w.y)}, c).fb) = Put(SheetOf(w.fb), w.y, w.x, c)
      BY <2>1, FillSheet, Zenon
    <2> QED
      BY <1>6, <2>2, Zenon
  <1>8. ColOf(u) = w.x + 1
    BY <1>3, <1>6, PaperFields DEF ColOf
  <1> QED
    BY <1>1, <1>3, <1>6, <1>7, <1>8 DEF Typed

LEMMA PrintSheet ==
    ASSUME SmallScreen, NEW t, OnPaper(t), NEW c \in Visible
    PROVE  OnPaper(print(t, c)) /\ Types(t, print(t, c), c)
  <1> DEFINE w == IF t.need_wrap THEN line_feed(carriage_return(t)) ELSE t
             a == IF {"bright", "faint"} \subseteq w.attr.flags
                  THEN [w EXCEPT !.attr.flags = @ \ {"bright"}] ELSE w
             u == print(t, c)
  <1>0. Edge(u)
    BY PrintEdge DEF OnPaper, Sheet
  <1>1. CASE t.need_wrap
    <2>1. /\ OnPaper(carriage_return(t)) /\ carriage_return(t).x = 0
          /\ carriage_return(t).y = t.y /\ carriage_return(t).fb = t.fb
      BY ReturnSheet
    <2>2. /\ OnPaper(w) /\ Feeds(carriage_return(t), w) /\ w.x = 0 /\ w.need_wrap = FALSE
      BY <1>1, <2>1, FeedSheet
    <2>3. SheetOf(w.fb) = Fed(SheetOf(t.fb), t.y) /\ w.y = FedRow(t.y)
      BY <2>1, <2>2 DEF Feeds
    <2>4. \E v : a = [w EXCEPT !.attr = v] \/ a = w
      <3> HIDE DEF w
      <3> QED
        BY Zenon
    <2>5. u = Fill(advance(a), {xy2pos(w.x, w.y)}, c)
      BY DEF print
    <2> HIDE DEF w, a, u
    <2>6. Typed(w, u, c)
      BY <2>2, <2>4, <2>5, TypeSheet, Zenon
    <2>7. ColOf(t) = COLS /\ w.y \in Rows
      BY <1>1, <2>2, PaperFields DEF ColOf
    <2>8. Types(t, u, c)
      BY <2>2, <2>3, <2>6, <2>7 DEF Types, Typed
    <2> QED
      BY <1>0, <2>6, <2>7, <2>8 DEF OnPaper, Sheet, Typed, u
  <1>2. CASE ~t.need_wrap
    <2>1. w = t /\ t.need_wrap = FALSE
      BY <1>2, PaperFields
    <2>4. \E v : a = [w EXCEPT !.attr = v] \/ a = w
      <3> HIDE DEF w
      <3> QED
        BY Zenon
    <2>5. u = Fill(advance(a), {xy2pos(w.x, w.y)}, c)
      BY DEF print
    <2> HIDE DEF w, a, u
    <2>2. OnPaper(w) /\ w.need_wrap = FALSE
      BY <2>1
    <2>6. Typed(w, u, c)
      BY <2>2, <2>4, <2>5, TypeSheet, Zenon
    <2>7. ColOf(t) = t.x /\ t.x < COLS /\ t.y \in Rows
      BY <2>1, PaperFields DEF ColOf
    <2>8. Types(t, u, c)
      BY <2>1, <2>6, <2>7 DEF Types, Typed
    <2> QED
      BY <1>0, <2>1, <2>6, <2>7, <2>8 DEF OnPaper, Sheet, Typed, u
  <1> QED
    BY <1>1, <1>2

(* A character of plain text is one operation of the teletype, or none. *)
LEMMA BodySheet ==
    ASSUME SmallScreen, NEW t, OnPaper(t), NEW c \in Plain
    PROVE  /\ OnPaper(body(t, c))
           /\ \/ Rests(t, body(t, c)) \/ Feeds(t, body(t, c)) \/ Returns(t, body(t, c))
              \/ Backs(t, body(t, c)) \/ \E d \in Visible : Types(t, body(t, c), d)
  <1>0. t.state = "NORM"
    BY PaperFields
  <1>1. CASE c \in Visible
    <2>1. c \notin Cntrl
      BY <1>1 DEF Visible
    <2>2. body(t, c) = print(t, c)
      BY <1>0, <2>1 DEF body, Cntrl
    <2> QED
      BY <1>1, <2>2, PrintSheet
  <1>2. CASE c = "BS"
    <2>1. body(t, c) = backspace(t)
      BY <1>2 DEF body, Cntrl
    <2> QED
      BY <2>1, BackSheet
  <1>3. CASE c \in {"LF", "VT", "FF"}
    <2>1. body(t, c) = line_feed(t)
      BY <1>3 DEF body, Cntrl
    <2> QED
      BY <2>1, FeedSheet
  <1>4. CASE c = "CR"
    <2>1. body(t, c) = carriage_return(t)
      BY <1>4 DEF body, Cntrl
    <2> QED
      BY <2>1, ReturnSheet
  <1>5. CASE c \in {"NUL", "BEL", "CAN"}
    <2> DEFINE u == [t EXCEPT !.state = "NORM"]
    <2>1. body(t, c) = u \/ body(t, c) = t
      BY <1>5 DEF body, Cntrl
    <2>2. /\ Edge(u) /\ u.x = t.x /\ u.y = t.y /\ u.fb = t.fb /\ u.need_wrap = t.need_wrap
          /\ u.state = "NORM"
      BY PaperFields DEF Edge, InBounds, Fields
    <2> HIDE DEF u
    <2>3. OnPaper(u) /\ Rests(t, u) /\ Rests(t, t)
      BY <2>2, PaperFields DEF OnPaper, Sheet, Rests, ColOf
    <2> QED
      BY <2>1, <2>3
  <1> QED
    BY <1>1, <1>2, <1>3, <1>4, <1>5 DEF Plain, Cntrl

-----------------------------------------------------------------------------
(* The paper of all terminals. *)
Lines == [n \in Terminals |-> SheetOf(mem[pte[n]])]
Row == [n \in Terminals |-> term[n].y]
Col == [n \in Terminals |-> ColOf(term[n])]

LEMMA PaperIs ==
    /\ Paper!tvars = <<Lines, Row, Col>>
    /\ \A n \in Terminals : Paper!FeedLine(n) = Fed(Lines[n], Row[n])
    /\ \A n \in Terminals : Paper!FeedRow(n) = FedRow(Row[n])
  <1>1. Paper!tvars = <<Lines, Row, Col>>
    BY DEF Paper!tvars, Lines, Row, Col, SheetOf, ColOf, Rows, Columns
  <1>2. \A n \in Terminals : Paper!FeedLine(n) = Fed(Lines[n], Row[n])
    BY DEF Paper!FeedLine, Paper!Rows, Paper!Columns, Paper!BlankLine, Lines, Row, Fed, SheetOf,
           Rows, Columns
  <1>3. \A n \in Terminals : Paper!FeedRow(n) = FedRow(Row[n])
    BY DEF Paper!FeedRow, Row, FedRow
  <1> QED
    BY <1>1, <1>2, <1>3

(* Two terminals have different frames. *)
LEMMA FramesApart ==
    ASSUME VInv
    PROVE  /\ \A n \in Terminals : pte[n] \in Frames
           /\ \A m, n \in Terminals : pte[m] = pte[n] => m = n
  <1>1. VGA \notin Terminals
    BY VirtualTerminalsAssumption DEF VGA, Terminals
  <1> QED
    BY <1>1 DEF VInv, ShownIsCurrent, Frames

(* What changes on terminal n alone, as an action of the paper. *)
OnlyOn(n) ==
    /\ Lines' = [Lines EXCEPT ![n] = Lines'[n]]
    /\ Row' = [Row EXCEPT ![n] = Row'[n]]
    /\ Col' = [Col EXCEPT ![n] = Col'[n]]

LEMMA SameOn ==
    ASSUME NEW n \in Terminals, OnlyOn(n)
    PROVE  /\ Lines'[n] = Lines[n] => Lines' = Lines
           /\ Row'[n] = Row[n] => Row' = Row
           /\ Col'[n] = Col[n] => Col' = Col
  <1>1. \A f, v : f = [m \in Terminals |-> f[m]] /\ v = f[n] => [f EXCEPT ![n] = v] = f
    OBVIOUS
  <1>2. /\ Lines = [m \in Terminals |-> Lines[m]] /\ Row = [m \in Terminals |-> Row[m]]
        /\ Col = [m \in Terminals |-> Col[m]]
    BY DEF Lines, Row, Col
  <1> QED
    BY <1>1, <1>2, Zenon DEF OnlyOn

LEMMA PaperFeed ==
    ASSUME NEW n \in Terminals, OnlyOn(n),
           Lines'[n] = Fed(Lines[n], Row[n]), Row'[n] = FedRow(Row[n]),
           Col'[n] = IF Col[n] = COLS THEN COLS - 1 ELSE Col[n]
    PROVE  Paper!Feed(n)
  <1>1. /\ Lines' = [Lines EXCEPT ![n] = Paper!FeedLine(n)]
        /\ Row' = [Row EXCEPT ![n] = Paper!FeedRow(n)]
        /\ Col' = [Col EXCEPT ![n] = IF @ = COLS THEN COLS - 1 ELSE @]
    BY PaperIs DEF OnlyOn, Col
  <1> QED
    BY <1>1 DEF Paper!Feed, Lines, Row, Col, SheetOf, ColOf, Rows, Columns

LEMMA PaperReturn ==
    ASSUME NEW n \in Terminals, OnlyOn(n),
           Lines'[n] = Lines[n], Row'[n] = Row[n], Col'[n] = 0
    PROVE  Paper!Return(n)
  <1>1. Lines' = Lines /\ Row' = Row /\ Col' = [Col EXCEPT ![n] = 0]
    BY SameOn DEF OnlyOn
  <1> QED
    BY <1>1 DEF Paper!Return, Lines, Row, Col, SheetOf, ColOf, Rows, Columns

LEMMA PaperBack ==
    ASSUME NEW n \in Terminals, OnlyOn(n),
           Lines'[n] = Lines[n], Row'[n] = Row[n],
           Col'[n] = IF Col[n] = COLS THEN COLS - 2 ELSE IF Col[n] = 0 THEN 0 ELSE Col[n] - 1
    PROVE  Paper!Back(n)
  <1>1. /\ Lines' = Lines /\ Row' = Row
        /\ Col' = [Col EXCEPT ![n] = IF @ = COLS THEN COLS - 2 ELSE IF @ = 0 THEN 0 ELSE @ - 1]
    BY SameOn DEF OnlyOn
  <1> QED
    BY <1>1 DEF Paper!Back, Lines, Row, Col, SheetOf, ColOf, Rows, Columns

LEMMA PaperType ==
    ASSUME NEW n \in Terminals, NEW c, OnlyOn(n),
           IF Col[n] < COLS
           THEN /\ Lines'[n] = Put(Lines[n], Row[n], Col[n], c)
                /\ Col'[n] = Col[n] + 1 /\ Row'[n] = Row[n]
           ELSE /\ Lines'[n] = Put(Fed(Lines[n], Row[n]), FedRow(Row[n]), 0, c)
                /\ Col'[n] = 1 /\ Row'[n] = FedRow(Row[n])
    PROVE  Paper!Type(n, c)
  <1>1. CASE Col[n] < COLS
    <2>1. /\ Lines' = [Lines EXCEPT ![n] = Put(Lines[n], Row[n], Col[n], c)]
          /\ Col' = [Col EXCEPT ![n] = @ + 1] /\ Row' = Row
      BY <1>1, SameOn DEF OnlyOn
    <2>2. Lines' = [Lines EXCEPT ![n][Row[n]][Col[n]] = c]
      BY <2>1 DEF Put
    <2> QED
      BY <1>1, <2>1, <2>2 DEF Paper!Type, Lines, Row, Col, SheetOf, ColOf, Rows, Columns
  <1>2. CASE ~(Col[n] < COLS)
    <2>1. /\ Lines' = [Lines EXCEPT ![n] = Put(Fed(Lines[n], Row[n]), FedRow(Row[n]), 0, c)]
          /\ Col' = [Col EXCEPT ![n] = 1] /\ Row' = [Row EXCEPT ![n] = FedRow(Row[n])]
      BY <1>2 DEF OnlyOn
    <2>2. /\ Lines' = [Lines EXCEPT ![n] = [Paper!FeedLine(n) EXCEPT ![Paper!FeedRow(n)][0] = c]]
          /\ Row' = [Row EXCEPT ![n] = Paper!FeedRow(n)]
      BY <2>1, PaperIs DEF Put
    <2> QED
      BY <1>2, <2>1, <2>2 DEF Paper!Type, Lines, Row, Col, SheetOf, ColOf, Rows, Columns
  <1> QED
    BY <1>1, <1>2

-----------------------------------------------------------------------------
(* With plain text no terminal leaves NORM, no cursor leaves the screen, and the *)
(* frames hold letters and blanks.                                               *)
PInv ==
    /\ VInv
    /\ \A n \in Terminals : Sheet(term[n])
    /\ mem \in [Frames -> Buffers]
    /\ task.pc = "body" => task.c \in Text

LEMMA LoadedSheet ==
    ASSUME PInv, NEW n \in Terminals
    PROVE  /\ OnPaper(Loaded(n)) /\ Loaded(n).fb = mem[pte[n]]
           /\ Loaded(n).y = term[n].y /\ ColOf(Loaded(n)) = ColOf(term[n])
  <1>1. mem[pte[n]] \in Buffers
    BY FramesApart DEF PInv
  <1>2. Sheet(term[n])
    BY DEF PInv
  <1> DEFINE t == term[n]
             u == [t EXCEPT !.fb = mem[pte[n]]]
  <1>3. /\ DOMAIN u = DOMAIN t /\ u.fb = mem[pte[n]] /\ u.state = t.state
        /\ u.x = t.x /\ u.y = t.y /\ u.need_wrap = t.need_wrap /\ u.tabs = t.tabs
        /\ u.saved = t.saved /\ u.param = t.param /\ u.idx = t.idx
    <2> HIDE DEF t
    <2> QED
      BY <1>2 DEF Sheet, Edge, InBounds, Fields, t
  <1>4. Loaded(n) = u
    BY DEF Loaded
  <1> HIDE DEF t, u
  <1>5. Sheet(u)
    BY <1>2, <1>3 DEF Sheet, Edge, InBounds, t
  <1>6. /\ Sheet(Loaded(n)) /\ Loaded(n).fb = mem[pte[n]] /\ Loaded(n).y = term[n].y
        /\ Loaded(n).x = term[n].x /\ Loaded(n).need_wrap = term[n].need_wrap
    BY <1>3, <1>4, <1>5 DEF t
  <1> QED
    BY <1>1, <1>6 DEF OnPaper, ColOf

(* A character of plain text printed on n is a step of the paper. *)
LEMMA StoreSheet ==
    ASSUME SmallScreen, PInv, NEW n \in Terminals, NEW c \in Plain, pte' = pte,
           Store(n, body(Loaded(n), c))
    PROVE  /\ \A m \in Terminals : Sheet(term'[m])
           /\ mem' \in [Frames -> Buffers]
           /\ [Paper!Next]_(Paper!tvars)
  <1> DEFINE t == Loaded(n)
             u == body(Loaded(n), c)
  <1>0. VInv /\ mem \in [Frames -> Buffers] /\ pte[n] \in Frames
    BY FramesApart DEF PInv
  <1>1. /\ OnPaper(t) /\ t.fb = mem[pte[n]] /\ t.y = term[n].y /\ ColOf(t) = ColOf(term[n])
    BY LoadedSheet
  <1>2. /\ OnPaper(u)
        /\ \/ Rests(t, u) \/ Feeds(t, u) \/ Returns(t, u) \/ Backs(t, u)
           \/ \E d \in Visible : Types(t, u, d)
    BY <1>1, BodySheet
  <1>3. term' = [term EXCEPT ![n] = [u EXCEPT !.fb = <<>>]] /\ mem' = [mem EXCEPT ![pte[n]] = u.fb]
    BY DEF Store
  <1> HIDE DEF t, u
  <1>4. /\ Sheet([u EXCEPT !.fb = <<>>]) /\ [u EXCEPT !.fb = <<>>].y = u.y
        /\ ColOf([u EXCEPT !.fb = <<>>]) = ColOf(u)
    BY <1>2 DEF OnPaper, Sheet, Edge, InBounds, Fields, ColOf
  <1>5. /\ \A m \in Terminals : m # n => term'[m] = term[m] /\ mem'[pte[m]] = mem[pte[m]]
        /\ Sheet(term'[n]) /\ term'[n].y = u.y /\ ColOf(term'[n]) = ColOf(u)
        /\ mem'[pte[n]] = u.fb
    <2>1. term'[n] = [u EXCEPT !.fb = <<>>] /\ \A m \in Terminals : m # n => term'[m] = term[m]
      BY <1>0, <1>3 DEF VInv
    <2>2. mem'[pte[n]] = u.fb
      BY <1>0, <1>3
    <2>3. \A m \in Terminals : m # n => mem'[pte[m]] = mem[pte[m]]
      BY <1>0, <1>3, FramesApart
    <2> QED
      BY <1>4, <2>1, <2>2, <2>3
  <1>6. mem' \in [Frames -> Buffers]
    BY <1>0, <1>2, <1>3 DEF OnPaper
  <1>7. \A m \in Terminals : Sheet(term'[m])
    BY <1>5 DEF PInv
  <1>8. /\ Lines[n] = SheetOf(t.fb) /\ Lines'[n] = SheetOf(u.fb)
        /\ Row[n] = t.y /\ Row'[n] = u.y /\ Col[n] = ColOf(t) /\ Col'[n] = ColOf(u)
    BY <1>1, <1>5 DEF Lines, Row, Col
  <1>9. OnlyOn(n)
    BY <1>5 DEF OnlyOn, Lines, Row, Col
  <1>10. CASE Rests(t, u)
    <2>1. Lines' = Lines /\ Row' = Row /\ Col' = Col
      <3>1. Lines'[n] = Lines[n] /\ Row'[n] = Row[n] /\ Col'[n] = Col[n]
        BY <1>8, <1>10 DEF Rests
      <3> QED
        BY <1>9, <3>1, SameOn
    <2> QED
      BY <1>6, <1>7, <2>1 DEF Paper!tvars, Lines, Row, Col, SheetOf, ColOf, Rows, Columns
  <1>11. CASE Feeds(t, u)
    <2>1. Paper!Feed(n)
      BY <1>8, <1>9, <1>11, PaperFeed DEF Feeds
    <2> QED
      BY <1>6, <1>7, <2>1 DEF Paper!Next
  <1>12. CASE Returns(t, u)
    <2>1. Paper!Return(n)
      BY <1>8, <1>9, <1>12, PaperReturn DEF Returns
    <2> QED
      BY <1>6, <1>7, <2>1 DEF Paper!Next
  <1>13. CASE Backs(t, u)
    <2>1. Paper!Back(n)
      BY <1>8, <1>9, <1>13, PaperBack DEF Backs
    <2> QED
      BY <1>6, <1>7, <2>1 DEF Paper!Next
  <1>14. ASSUME NEW d \in Visible, Types(t, u, d)
         PROVE  Paper!Next
    <2>1. Paper!Type(n, d)
      BY <1>8, <1>9, <1>14, PaperType DEF Types
    <2> QED
      BY <2>1 DEF Paper!Next
  <1> QED
    BY <1>2, <1>6, <1>7, <1>10, <1>11, <1>12, <1>13, <1>14

(* A step that changes no terminal's frame, line or column leaves the paper alone. *)
LEMMA PaperStill ==
    ASSUME \A m \in Terminals : /\ mem'[pte'[m]] = mem[pte[m]]
                                /\ term'[m].y = term[m].y /\ term'[m].x = term[m].x
                                /\ term'[m].need_wrap = term[m].need_wrap
    PROVE  [Paper!Next]_(Paper!tvars)
  <1>1. Lines' = Lines /\ Row' = Row /\ Col' = Col
    BY DEF Lines, Row, Col, SheetOf, ColOf
  <1> QED
    BY <1>1 DEF Paper!tvars, Lines, Row, Col, SheetOf, ColOf, Rows, Columns

LEMMA PInit == Init => PInv /\ Paper!Init
  <1> SUFFICES ASSUME Init PROVE PInv /\ Paper!Init
    OBVIOUS
  <1>1. VInv
    BY VInit
  <1>2. \A n \in Terminals : term[n] = Fresh
    BY DEF Init
  <1>3. Fresh.state = "NORM" /\ Fresh.x = 0 /\ Fresh.y = 0 /\ Fresh.need_wrap = FALSE
    BY DEF Fresh, terminal_defaults, save_terminal
  <1>4. 0 \in Rows /\ 0 \in 0 .. COLS
    BY RowsNat DEF Rows
  <1>5. \A n \in Terminals : Sheet(term[n])
    BY <1>2, <1>3, <1>4, FreshEdge DEF Sheet
  <1>6. mem \in [Frames -> Buffers]
    BY DEF Init, BlankFrame, Buffers, Marks
  <1>7. task.pc = "user"
    BY DEF Init, Idle
  <1>8. Lines \in [Terminals -> [Rows -> [Columns -> Marks]]]
    <2>1. ASSUME NEW n \in Terminals, NEW i \in Rows, NEW j \in Columns
          PROVE  mem[pte[n]][i * COLS + j] \in Marks
      <3>1. mem[pte[n]] \in [Cells -> Marks] /\ i * COLS + j \in Cells
        BY <1>1, <1>6, FramesApart, Place DEF Buffers
      <3> QED
        BY <3>1
    <2> QED
      BY <2>1 DEF Lines, SheetOf
  <1>9. Row \in [Terminals -> Rows] /\ Col \in [Terminals -> 0 .. COLS]
    BY <1>2, <1>3, <1>4 DEF Row, Col, ColOf
  <1>10. Paper!Init
    BY <1>8, <1>9 DEF Paper!Init, Paper!TypeOK, Paper!Rows, Paper!Columns, Lines, Row, Col, SheetOf,
                      ColOf, Rows, Columns, Marks
  <1> QED
    BY <1>1, <1>5, <1>6, <1>7, <1>10 DEF PInv

LEMMA PNext ==
    ASSUME PlainText, SmallScreen, PInv, [Next]_vars
    PROVE  PInv' /\ [Paper!Next]_(Paper!tvars)
  <1>0. VInv' /\ VInv
    BY VNext DEF PInv
  <1>1. /\ \A n \in Terminals : Sheet(term[n]) /\ Fields \subseteq DOMAIN term[n]
        /\ mem \in [Frames -> Buffers]
    BY DEF PInv, Sheet, Edge, InBounds
  <1>2. CASE UNCHANGED vars
    <2>1. UNCHANGED <<term, mem, pte, task>>
      BY <1>2 DEF vars
    <2>2. [Paper!Next]_(Paper!tvars)
      BY <2>1, PaperStill
    <2> QED
      BY <1>0, <2>1, <2>2 DEF PInv
  <1>3. \A t, b : Sheet(t) => LET u == [t EXCEPT !.printing = b]
                            IN  Sheet(u) /\ u.y = t.y /\ u.x = t.x /\ u.need_wrap = t.need_wrap
    BY DEF Sheet, Edge, InBounds, Fields
  <1>4. ASSUME NEW n \in Terminals, NEW b, term' = [term EXCEPT ![n].printing = b],
               UNCHANGED <<mem, pte>>, task'.pc = "body" => task'.c \in Text
        PROVE  PInv' /\ [Paper!Next]_(Paper!tvars)
    <2>1. \A m \in Terminals : /\ Sheet(term'[m]) /\ term'[m].y = term[m].y
                              /\ term'[m].x = term[m].x /\ term'[m].need_wrap = term[m].need_wrap
      <3>1. \A m \in Terminals : m # n => term'[m] = term[m]
        BY <1>0, <1>4 DEF VInv
      <3>2. term'[n] = [term[n] EXCEPT !.printing = b]
        BY <1>0, <1>4 DEF VInv
      <3> DEFINE u == [term[n] EXCEPT !.printing = b]
      <3>3. /\ Sheet(u) /\ u.y = term[n].y /\ u.x = term[n].x
            /\ u.need_wrap = term[n].need_wrap
        BY <1>1, <1>3, Zenon
      <3> HIDE DEF u
      <3> QED
        BY <1>1, <3>1, <3>2, <3>3 DEF u
    <2>2. [Paper!Next]_(Paper!tvars)
      BY <1>4, <2>1, PaperStill
    <2> QED
      BY <1>0, <1>1, <1>4, <2>1, <2>2 DEF PInv
  <1>5. CASE PutcharLock
    <2>1. PICK n \in Terminals, c \in Text \cup EscCodes \cup CsiCodes :
             /\ MaySend(term[n], c)
             /\ term' = [term EXCEPT ![n].printing = TRUE]
             /\ task' = [pc |-> "body", n |-> n, c |-> c, regs |-> {}]
      BY <1>5, Zenon DEF PutcharLock
    <2>2. c \in Text
      BY <1>1, <2>1 DEF MaySend, Sheet
    <2>3. UNCHANGED <<mem, pte>> /\ task'.c = c
      BY <1>5, <2>1 DEF PutcharLock
    <2> QED
      BY <1>4, <2>1, <2>2, <2>3
  <1>6. CASE PutcharBody
    <2>1. /\ Store(task.n, body(Loaded(task.n), task.c)) /\ task.pc = "body"
          /\ task'.pc = "shown" /\ pte' = pte
      BY <1>6 DEF PutcharBody, Task
    <2>2. task.n \in Terminals /\ task.c \in Plain
      BY <1>0, <2>1 DEF VInv, PInv, PlainText
    <2>3. /\ \A m \in Terminals : Sheet(term'[m])
          /\ mem' \in [Frames -> Buffers]
          /\ [Paper!Next]_(Paper!tvars)
      BY <2>1, <2>2, StoreSheet
    <2> QED
      BY <1>0, <2>1, <2>3 DEF PInv
  <1>7. CASE PutcharShown \/ PutcharVga
    <2>1. UNCHANGED <<term, mem, pte>> /\ task'.pc # "body"
      BY <1>0, <1>7 DEF PutcharShown, PutcharVga, VInv
    <2>2. [Paper!Next]_(Paper!tvars)
      BY <2>1, PaperStill
    <2> QED
      BY <1>0, <1>1, <2>1, <2>2 DEF PInv
  <1>8. CASE PutcharUnlock
    <2>1. /\ UNCHANGED <<mem, pte>> /\ task'.pc = "user" /\ task.n \in Terminals
          /\ term' = [term EXCEPT ![task.n].printing = FALSE]
      BY <1>0, <1>8 DEF PutcharUnlock, Idle, VInv
    <2> QED
      BY <1>4, <2>1
  <1>9. ASSUME NEW c \in Plain, HandlerPrints(c) PROVE PInv' /\ [Paper!Next]_(Paper!tvars)
    <2>1. /\ Store(current, body(Loaded(current), c)) /\ UNCHANGED <<pte, task>>
          /\ current \in Terminals
      BY <1>0, <1>9 DEF HandlerPrints, VInv
    <2>2. /\ \A m \in Terminals : Sheet(term'[m])
          /\ mem' \in [Frames -> Buffers]
          /\ [Paper!Next]_(Paper!tvars)
      BY <2>1, StoreSheet
    <2> QED
      BY <1>0, <2>1, <2>2 DEF PInv
  <1>10. CASE UNCHANGED <<term, mem, pte, task>>
    <2>1. [Paper!Next]_(Paper!tvars)
      BY <1>10, PaperStill
    <2> QED
      BY <1>0, <1>10, <2>1 DEF PInv
  <1>11. CASE IsrEcho \/ IsrMessage
    <2>1. (\E c \in Plain : HandlerPrints(c)) \/ UNCHANGED <<term, mem, pte, task>>
      BY <1>11 DEF IsrEcho, IsrMessage, PlainText, vars
    <2> QED
      BY <1>9, <1>10, <2>1
  <1>12. CASE \E num \in Terminals : switch_terminal(num)
    <2>1. PICK num \in Terminals : switch_terminal(num)
      BY <1>12
    <2>2. /\ pte' = [n \in Terminals |-> IF n = num THEN VGA ELSE IF n = current THEN n ELSE pte[n]]
          /\ mem' = [mem EXCEPT ![current] = mem[VGA],
                                ![VGA] = IF num = current THEN mem[VGA] ELSE mem[num]]
          /\ UNCHANGED <<term, task>>
      BY <2>1 DEF switch_terminal, remap, swap
    <2>3. /\ current \in Frames /\ VGA \in Frames /\ num \in Frames /\ VGA \notin Terminals
          /\ current \in Terminals
      BY <1>0, VirtualTerminalsAssumption DEF VInv, Frames, VGA, Terminals
    <2>4. mem' \in [Frames -> Buffers]
      BY <1>1, <2>2, <2>3
    <2>5. /\ mem'[current] = mem[VGA]
          /\ mem'[VGA] = IF num = current THEN mem[VGA] ELSE mem[num]
          /\ \A f \in Frames \ {current, VGA} : mem'[f] = mem[f]
      BY <1>1, <2>2, <2>3
    <2>6. ASSUME NEW m \in Terminals PROVE mem'[pte'[m]] = mem[pte[m]]
      <3>1. m = current => pte[m] = VGA
        BY <1>0 DEF VInv, ShownIsCurrent
      <3>2. m # current => pte[m] = m
        BY <1>0 DEF VInv, ShownIsCurrent
      <3>3. m \in Frames /\ pte'[m] = IF m = num THEN VGA ELSE m
        BY <2>2, <3>2 DEF Frames
      <3> QED
        BY <2>3, <2>5, <3>1, <3>2, <3>3
    <2>7. [Paper!Next]_(Paper!tvars)
      BY <2>2, <2>6, PaperStill
    <2> QED
      BY <1>0, <1>1, <2>2, <2>4, <2>7 DEF PInv
  <1> QED
    BY <1>2, <1>5, <1>6, <1>7, <1>8, <1>11, <1>12 DEF Next

(* For every screen whose positions fit in 16 bits, every number of terminals *)
(* and every plain text that task, keyboard and kernel write: whatever the    *)
(* interleaving of terminal_putchar, echo, messages and switches, the text of *)
(* every terminal changes as on a sheet of paper.                             *)
THEOREM TextOnPaper == PlainText /\ SmallScreen => (Spec => ImplementsTeletype)
  <1> SUFFICES ASSUME PlainText, SmallScreen PROVE Spec => ImplementsTeletype
    OBVIOUS
  <1>1. PInv /\ [Next]_vars => PInv' /\ [Paper!Next]_(Paper!tvars)
    BY PNext
  <1> QED
    BY <1>1, PInit, PTL DEF Spec, ImplementsTeletype, Paper!Spec
=============================================================================
