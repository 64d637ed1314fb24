------------------------------ MODULE Terminal ------------------------------
(***************************************************************************)
(* kernel/char/terminal.c: one virtual terminal.  Every function is an     *)
(* operator from the state t of a terminal to the state it leaves; body is *)
(* terminal_putchar between its two lock operations.  Fields of t:         *)
(*   state            control state: "NORM", "ESC" or "CSI"                *)
(*   x, y, hidden     the cursor                                           *)
(*   need_wrap        the next character wraps first                       *)
(*   tabs             columns with a tab stop                              *)
(*   param, idx       csiparam and paramidx; -1 is a parameter not given   *)
(*   attr, blink_on   attributes of the next character                     *)
(*   saved            saved_state                                          *)
(*   printing         the bit that guards against reentrancy               *)
(*   fb               the characters of the frame buffer, by position      *)
(* A character is its name: "a", "LF", "[", "7".  The colours a cell gets  *)
(* are a function of attr and are left out.                                *)
(***************************************************************************)
EXTENDS Integers, Sequences

CONSTANTS COLS, ROWS,       \* the screen (80 x 25)
          MAX_CSIPARAM,     \* parameters of a control sequence (16)
          TABSTOP_WIDTH     \* default tab stops (8)

ASSUME TerminalAssumption ==
    /\ COLS \in Nat \ {0, 1} /\ ROWS \in Nat \ {0}
    /\ COLS < 4096 /\ ROWS < 4096
    /\ MAX_CSIPARAM \in Nat \ {0, 1}
    /\ TABSTOP_WIDTH \in Nat \ {0}

Cells == 0 .. ROWS * COLS - 1
Params == 0 .. MAX_CSIPARAM - 1
BLANK == " "

Smaller(a, b) == IF a < b THEN a ELSE b
Larger(a, b) == IF a < b THEN b ELSE a

Cntrl == {"NUL", "BEL", "BS", "HT", "LF", "VT", "FF", "CR", "CAN", "ESC"}

DigitName == <<"0", "1", "2", "3", "4", "5", "6", "7", "8", "9">>
isdigit(c) == \E i \in 1 .. 10 : DigitName[i] = c
DigitValue(c) == (CHOOSE i \in 1 .. 10 : DigitName[i] = c) - 1

-----------------------------------------------------------------------------
DefaultAttr == [fg |-> 7, bg |-> 0, flags |-> {}]

DefaultTabs == {i \in 0 .. COLS - 1 : (i + 1) % TABSTOP_WIDTH = 0}

NoParams == [i \in Params |-> -1]

save_terminal(t) ==
    [t EXCEPT !.saved = [tabs |-> t.tabs, blink_on |-> t.blink_on, attr |-> t.attr,
                         x |-> t.x, y |-> t.y, hidden |-> t.hidden]]

terminal_defaults(t) ==
    save_terminal([t EXCEPT !.state = "NORM", !.tabs = DefaultTabs, !.param = NoParams,
                            !.idx = 0, !.blink_on = FALSE, !.need_wrap = FALSE,
                            !.attr = DefaultAttr, !.x = 0, !.y = 0, !.hidden = FALSE])

restore_cursor(t) ==
    [t EXCEPT !.x = t.saved.x, !.y = t.saved.y, !.hidden = t.saved.hidden]

terminal_restore(t) ==
    restore_cursor([t EXCEPT !.tabs = t.saved.tabs, !.blink_on = t.saved.blink_on,
                             !.attr = t.saved.attr])

save_cursor(t) ==
    [t EXCEPT !.saved = [t.saved EXCEPT !.x = t.x, !.y = t.y, !.hidden = t.hidden]]

-----------------------------------------------------------------------------
xy2pos(x, y) == (y * COLS + x) % 65536

(* Write the character c to the positions of a set. *)
Fill(t, where, c) ==
    [t EXCEPT !.fb = [p \in Cells |-> IF p \in where THEN c ELSE t.fb[p]]]

(* Scroll up by n lines, down when n is negative. *)
scroll(t, n) ==
    LET blank == Smaller(IF n < 0 THEN -n ELSE n, ROWS) * COLS
        src(p) == IF n < 0 THEN p - blank ELSE p + blank
    IN  [t EXCEPT !.fb = [p \in Cells |-> IF src(p) \in Cells THEN t.fb[src(p)] ELSE BLANK]]

(* Modes: 0 from the cursor on, 1 up to the cursor, anything else all. *)
erase(t, mode) ==
    LET pos == xy2pos(t.x, t.y)
    IN  Fill(t, CASE mode = 0 -> pos .. ROWS * COLS - 1
                  [] mode = 1 -> 0 .. pos
                  [] OTHER    -> Cells, BLANK)

erase_line(t, mode) ==
    LET pos   == xy2pos(t.x, t.y)
        start == xy2pos(0, t.y)
    IN  Fill(t, CASE mode = 0 -> pos .. start + COLS - 1
                  [] mode = 1 -> start .. pos
                  [] OTHER    -> start .. start + COLS - 1, BLANK)

cursor_up(t, n) == [t EXCEPT !.y = Larger(@ - n, 0)]

cursor_down(t, n) == [t EXCEPT !.y = Smaller(@ + n, ROWS - 1)]

cursor_left(t, n) == [t EXCEPT !.x = Larger(@ - n, 0)]

cursor_right(t, n) == [t EXCEPT !.x = Smaller(@ + n, COLS - 1)]

(* Mutant: the wrap stays pending. *)
backspace_wrapped(t) == cursor_left(t, 1)

backspace(t) == [cursor_left(t, 1) EXCEPT !.need_wrap = FALSE]

carriage_return(t) == [t EXCEPT !.x = 0, !.need_wrap = FALSE]

line_feed(t) ==
    IF t.y + 1 >= ROWS THEN [scroll(t, 1) EXCEPT !.need_wrap = FALSE]
    ELSE [t EXCEPT !.y = @ + 1, !.need_wrap = FALSE]

(* cursor.y is an unsigned field of 12 bits: it wraps and is never negative. *)
reverse_linefeed(t) == [t EXCEPT !.y = (@ + 4095) % 4096, !.need_wrap = FALSE]

(* The next tab stop, or the last column.  (From the last column the code also *)
(* reads tabstops[COLS], to the same effect whatever it finds.)                *)
tab(t) ==
    LET next == {i \in t.tabs : i > t.x}
    IN  [t EXCEPT !.x = IF next = {} THEN COLS - 1 ELSE CHOOSE i \in next : \A j \in next : i <= j]

-----------------------------------------------------------------------------
FlagOn == [p \in {1, 2, 3, 4, 5, 7} |->
              CASE p = 1 -> "bright" [] p = 2 -> "faint" [] p = 3 -> "italic"
                [] p = 4 -> "underline" [] p = 5 -> "blink" [] p = 7 -> "invert"]

(* Set Graphics Rendition: one parameter. *)
csi_m(a, p) ==
    CASE p = 0                -> DefaultAttr
      [] p \in DOMAIN FlagOn  -> [a EXCEPT !.flags = @ \cup {FlagOn[p]}]
      [] p = 22               -> [a EXCEPT !.flags = @ \ {"bright", "faint"}]
      [] p \in {23, 24, 25, 27} -> [a EXCEPT !.flags = @ \ {FlagOn[p - 20]}]
      [] p \in 30 .. 37       -> [a EXCEPT !.fg = p - 30]
      [] p \in 40 .. 47       -> [a EXCEPT !.bg = p - 40]
      [] p = 39               -> [a EXCEPT !.fg = DefaultAttr.fg]
      [] p = 49               -> [a EXCEPT !.bg = DefaultAttr.bg]
      [] p \in 90 .. 97       -> [a EXCEPT !.fg = p - 90, !.flags = @ \cup {"bright"}]
      [] p \in 100 .. 107     -> [a EXCEPT !.bg = p - 100,
                                           !.flags = IF "blink" \in @ THEN @ \ {"bright"}
                                                                      ELSE @ \cup {"bright"}]
      [] OTHER                -> a

(* ... and all of them, in order. *)
csi_ms(t) ==
    LET after[i \in 0 .. t.idx + 1] ==
            IF i = 0 THEN t.attr ELSE csi_m(after[i - 1], Larger(t.param[i - 1], 0))
    IN  [t EXCEPT !.attr = after[t.idx + 1]]

csi_done(t) == [t EXCEPT !.need_wrap = FALSE, !.state = "NORM"]

csi(t, c) ==
    LET p == Larger(t.param[0], 1)
        q == Larger(t.param[1], 1)
        m == Larger(t.param[0], 0)
    IN  CASE c = "A" -> csi_done(cursor_up(t, p))
          [] c = "B" -> csi_done(cursor_down(t, p))
          [] c = "C" -> csi_done(cursor_right(t, p))
          [] c = "D" -> csi_done(cursor_left(t, p))
          [] c = "E" -> csi_done(cursor_down([t EXCEPT !.x = 0], p))
          [] c = "F" -> csi_done(cursor_up([t EXCEPT !.x = 0], p))
          [] c = "G" -> csi_done([t EXCEPT !.x = Smaller(p, COLS) - 1])
          [] c = "H" -> csi_done([t EXCEPT !.y = Smaller(p, ROWS) - 1, !.x = Smaller(q, COLS) - 1])
          [] c = "J" -> csi_done(erase(t, m))
          [] c = "K" -> csi_done(erase_line(t, m))
          [] c = "S" -> csi_done(scroll(t, p))
          [] c = "T" -> csi_done(scroll(t, -p))
          [] c = "m" -> csi_done(csi_ms(t))
          [] c = "s" -> csi_done(save_cursor(t))
          [] c = "u" -> csi_done(restore_cursor(t))
          [] c = ";" -> IF t.idx + 1 >= MAX_CSIPARAM THEN csi_done([t EXCEPT !.idx = @ + 1])
                        ELSE [t EXCEPT !.idx = @ + 1]
          [] isdigit(c) -> [t EXCEPT !.param[t.idx] = Larger(@, 0) * 10 + DigitValue(c)]
          [] OTHER -> csi_done(t)

esc_done(t) == [t EXCEPT !.need_wrap = FALSE, !.state = "NORM"]

esc(t, c) ==
    CASE c = "D" -> esc_done(line_feed(t))
      [] c = "E" -> esc_done(line_feed(carriage_return(t)))
      [] c = "H" -> esc_done([t EXCEPT !.tabs = @ \cup {t.x}])
      [] c = "h" -> esc_done([t EXCEPT !.tabs = @ \ {t.x}])
      [] c = "M" -> esc_done(reverse_linefeed(t))
      [] c = "[" -> [t EXCEPT !.param = NoParams, !.idx = 0, !.state = "CSI"]
      [] c = "3" -> esc_done([t EXCEPT !.blink_on = FALSE])
      [] c = "4" -> esc_done([t EXCEPT !.blink_on = TRUE])
      [] c = "5" -> esc_done([t EXCEPT !.hidden = TRUE])
      [] c = "6" -> esc_done([t EXCEPT !.hidden = FALSE])
      [] c = "7" -> esc_done(save_terminal(t))
      [] c = "8" -> esc_done(terminal_restore(t))
      [] c = "c" -> esc_done(erase(terminal_defaults(t), 2))
      [] OTHER   -> esc_done(t)

-----------------------------------------------------------------------------
(* Advance the cursor; at the edge it stays and the wrap is deferred. *)
advance(t) ==
    IF t.x + 1 >= COLS THEN [t EXCEPT !.need_wrap = TRUE] ELSE [t EXCEPT !.x = @ + 1]

(* An ordinary character: the deferred wrap, then the character, then the cursor. *)
print(t, c) ==
    LET w == IF t.need_wrap THEN line_feed(carriage_return(t)) ELSE t
        a == IF {"bright", "faint"} \subseteq w.attr.flags
             THEN [w EXCEPT !.attr.flags = @ \ {"bright"}] ELSE w
    IN  Fill(advance(a), {xy2pos(w.x, w.y)}, c)

(* terminal_putchar with the lock held. *)
body(t, c) ==
    CASE c \notin Cntrl /\ t.state = "ESC" -> esc(t, c)
      [] c \notin Cntrl /\ t.state = "CSI" -> csi(t, c)
      [] c \notin Cntrl /\ t.state = "NORM" -> print(t, c)
      [] c = "BS"  -> backspace(t)
      [] c = "HT"  -> tab(t)
      [] c \in {"LF", "VT", "FF"} -> line_feed(t)
      [] c = "CR"  -> carriage_return(t)
      [] c = "CAN" -> [t EXCEPT !.state = "NORM"]
      [] c = "ESC" -> [t EXCEPT !.state = "ESC"]
      [] OTHER     -> t

(* Mutant: a restored cursor is not shown. *)
refresh_norestore(t, c) ==
    IF c \notin Cntrl /\ t.state = "CSI" /\ c = "u" THEN {"pos"} ELSE
    CASE c \in {"CAN", "ESC", "NUL"} -> {}
      [] c \in Cntrl \ {"CAN", "ESC", "NUL"} -> {"pos"}
      [] c \notin Cntrl /\ t.state = "NORM" ->
            IF ~t.need_wrap /\ t.x + 1 >= COLS THEN {} ELSE {"pos"}
      [] c \notin Cntrl /\ t.state = "ESC" ->
            CASE c \in {"3", "4"} -> {"pos", "blink"}
              [] c \in {"5", "6"} -> {"pos", "hidden"}
              [] c \in {"8", "c"} -> {"pos", "blink", "hidden"}
              [] OTHER            -> {"pos"}
      [] OTHER -> {"pos"}

(* The VGA registers terminal_putchar writes when the terminal is the one shown: *)
(* the cursor position except on the paths to "done" and at a deferred wrap, and *)
(* those of esc and csi (enable_blink, enable_cursor, update_vga_state).         *)
refresh(t, c) ==
    CASE c \in {"CAN", "ESC", "NUL"} -> {}
      [] c \in Cntrl \ {"CAN", "ESC", "NUL"} -> {"pos"}
      [] c \notin Cntrl /\ t.state = "NORM" ->
            IF ~t.need_wrap /\ t.x + 1 >= COLS THEN {} ELSE {"pos"}
      [] c \notin Cntrl /\ t.state = "ESC" ->
            CASE c \in {"3", "4"} -> {"pos", "blink"}
              [] c \in {"5", "6"} -> {"pos", "hidden"}
              [] c \in {"8", "c"} -> {"pos", "blink", "hidden"}
              [] OTHER            -> {"pos"}
      [] OTHER -> IF c = "u" THEN {"pos", "blink", "hidden"} ELSE {"pos"}
=============================================================================
