-------------------------------- MODULE KeyMap --------------------------------
(***************************************************************************)
(* The tables of the PS/2 keyboard driver (ps2kb.c) and what kb_interrupt  *)
(* does with a key once its state is known: scancode to key, key to        *)
(* character, character to control character.  Keys, bytes and characters  *)
(* are numbers, as in the code.                                            *)
(***************************************************************************)
EXTENDS Integers, Sequences, TLC

ESC == 27
Special == 224                 \* 0xE0 in keymap: the key sends a sequence

(* input.h: the keys whose number is not the character printed on them. *)
KEY == [LCTRL |-> 1, RCTRL |-> 2, LSHIFT |-> 3, RSHIFT |-> 4, LALT |-> 5,
        RALT |-> 6, BREAK |-> 7, BACKSPACE |-> 8, TAB |-> 9, ENTER |-> 10,
        F1 |-> 11, F12 |-> 22, LWIN |-> 23, RWIN |-> 24, MENU |-> 25,
        PAUSE |-> 26, SYSRQ |-> 28, CAPSLK |-> 29, NUMLK |-> 30, SCRLK |-> 31,
        K2 |-> 50, K6 |-> 54, KPMINUS |-> 97, KPDOT |-> 98, KPSLASH |-> 99,
        KP0 |-> 100, KP5 |-> 105, KP9 |-> 109, KPENTER |-> 110, PRTSC |-> 111,
        INSERT |-> 112, DELETE |-> 113, HOME |-> 114, END |-> 115,
        PGUP |-> 116, PGDOWN |-> 117, LEFT |-> 118, DOWN |-> 119,
        RIGHT |-> 120, UP |-> 121]

is_alt(k) == k \in {KEY.LALT, KEY.RALT}
is_numpad(k) == k \in KEY.KP0 .. KEY.KP9
is_fnkey(k) == k \in KEY.F1 .. KEY.F12
fnkey_index(k) == k - KEY.F1 + 1
numpad_index(k) == k - KEY.KP0
IsLetter(k) == k \in 65 .. 90

(* scanmap: the rows of the table in scancode order, from code 0. *)
scanmap ==
    << 0, 27, 49, 50, 51, 52, 53, 54,   55, 56, 57, 48, 45, 61, 8, 9,
       81, 87, 69, 82, 84, 89, 85, 73,  79, 80, 91, 93, 10, 1, 65, 83,
       68, 70, 71, 72, 74, 75, 76, 59,  39, 96, 3, 92, 90, 88, 67, 86,
       66, 78, 77, 44, 46, 47, 4, 42,   5, 32, 29, 11, 12, 13, 14, 15,
       16, 17, 18, 19, 20, 30, 31, 107, 108, 109, 97, 104, 105, 106, 43, 101,
       102, 103, 100, 98, 28, 0, 0, 21, 22 >>

(* scanmap_e0: the keys behind the E0 prefix, by scancode. *)
scanmap_e0(sc) ==
    CASE sc = 28 -> KEY.KPENTER [] sc = 29 -> KEY.RCTRL  [] sc = 42 -> KEY.LSHIFT
      [] sc = 53 -> KEY.KPSLASH [] sc = 54 -> KEY.RSHIFT [] sc = 55 -> KEY.PRTSC
      [] sc = 56 -> KEY.RALT    [] sc = 70 -> KEY.BREAK  [] sc = 71 -> KEY.HOME
      [] sc = 72 -> KEY.UP      [] sc = 73 -> KEY.PGUP   [] sc = 75 -> KEY.LEFT
      [] sc = 77 -> KEY.RIGHT   [] sc = 79 -> KEY.END    [] sc = 80 -> KEY.DOWN
      [] sc = 81 -> KEY.PGDOWN  [] sc = 82 -> KEY.INSERT [] sc = 83 -> KEY.DELETE
      [] sc = 91 -> KEY.LWIN    [] sc = 92 -> KEY.RWIN   [] sc = 93 -> KEY.MENU
      [] OTHER -> 0

(* The key of a make code, 0 where the tables have none. *)
KeyOf(e0, sc) ==
    IF e0 THEN scanmap_e0(sc) ELSE IF sc < Len(scanmap) THEN scanmap[sc + 1] ELSE 0

(* keymap and keymap_shift. *)
keymap(k) ==
    CASE k = 8 -> 127                 [] k = 9 -> 9
      [] k \in {10, 110} -> 13        [] k \in 11 .. 22 \cup 111 .. 121 -> Special
      [] k \in {27, 32, 39, 59, 61, 91, 92, 93, 96} \cup 42 .. 57 -> k
      [] k \in 65 .. 90 -> k + 32     [] k \in 97 .. 99 -> k - 52
      [] k \in 100 .. 109 -> k - 52   [] OTHER -> 0

keymap_shift(k) ==
    CASE k \in {32, 42, 43} \cup 65 .. 90 -> k
      [] k = 39 -> 34  [] k = 44 -> 60  [] k = 45 -> 95  [] k = 46 -> 62  [] k = 47 -> 63
      [] k = 48 -> 41  [] k = 49 -> 33  [] k = 50 -> 64  [] k = 51 -> 35  [] k = 52 -> 36
      [] k = 53 -> 37  [] k = 54 -> 94  [] k = 55 -> 38  [] k = 56 -> 42  [] k = 57 -> 40
      [] k = 59 -> 58  [] k = 61 -> 43  [] k = 91 -> 123 [] k = 92 -> 124 [] k = 93 -> 125
      [] k = 96 -> 126 [] OTHER -> 0

(* With Num Lock off, what a keypad key stands for. *)
Unlocked(k) ==
    CASE k = 100 -> KEY.INSERT [] k = 101 -> KEY.END   [] k = 102 -> KEY.DOWN
      [] k = 103 -> KEY.PGDOWN [] k = 104 -> KEY.LEFT  [] k = 106 -> KEY.RIGHT
      [] k = 107 -> KEY.HOME   [] k = 108 -> KEY.UP    [] k = 109 -> KEY.PGUP
      [] k = 98 -> KEY.DELETE  [] OTHER -> k

(* The escape sequences of the keys without a character: "\e[A", "\e[1~", *)
(* "\e[11~".  The tag after the bracket stands for the text. *)
Sequence(k) ==
    LET letter == CASE k = KEY.UP -> 65 [] k = KEY.DOWN -> 66 [] k = KEY.RIGHT -> 67
                    [] k = KEY.LEFT -> 68 [] k = KEY.KP5 -> 71 [] k = KEY.PRTSC -> 80
                    [] OTHER -> 0
        digit == CASE k = KEY.HOME -> 49 [] k = KEY.INSERT -> 50 [] k = KEY.DELETE -> 51
                   [] k = KEY.END -> 52 [] k = KEY.PGUP -> 53 [] k = KEY.PGDOWN -> 54
                   [] OTHER -> 0
        fn == <<11, 12, 13, 14, 15, 17, 18, 19, 20, 21, 23, 24>>
    IN  CASE letter # 0 -> <<ESC, 91, letter>>
          [] digit # 0 -> <<ESC, 91, digit, 126>>
          [] is_fnkey(k) -> LET n == fn[fnkey_index(k)]
                            IN  <<ESC, 91, 48 + (n \div 10), 48 + (n % 10), 126>>
          [] OTHER -> << >>

(* c ^= 0x40 for '@' .. '_' and '?'. *)
Control(c) == IF c = 63 THEN 127 ELSE IF c \in 64 .. 95 THEN c - 64 ELSE c

(* The character of a key held with CTRL; c is what keymap gave it. *)
CtrlChar(k, c) ==
    Control(CASE k = KEY.K2 -> 64 [] k = KEY.K6 -> 94 [] k = 45 -> 95 [] k = 47 -> 63
              [] k = KEY.BACKSPACE -> 8
              [] k \in 91 .. 93 \/ IsLetter(k) -> k
              [] OTHER -> c)

(* tolower / toupper under Caps Lock. *)
CapsChar(c) ==
    IF c \in 65 .. 90 THEN c + 32 ELSE IF c \in 97 .. 122 THEN c - 32 ELSE c

(* Mutant: the code is kept in an int. *)
AltDigit_wide(a, k) == 10 * a + numpad_index(k)

(* altchar is a char: it wraps. *)
AltDigit(a, k) == (10 * a + numpad_index(k)) % 256

-------------------------------------------------------------------------------
(* What a user at a US keyboard means by a keystroke, stated without the   *)
(* driver's tables: the reference the driver is checked against.  m is the *)
(* modifiers, caps and num the locks.                                      *)

(* The control, the lower or the upper character of a key. *)
UsChosen(m, control, lower, upper) ==
    IF "ctrl" \in m THEN control ELSE IF "shift" \in m THEN upper ELSE lower

(* The character of a key that has one, without ALT. *)
UsCharacter(k, m, caps, num) ==
    CASE IsLetter(k) -> <<IF caps /\ "alt" \notin m THEN UsChosen(m, k - 64, k, k + 32)
                          ELSE UsChosen(m, k - 64, k + 32, k)>>
      [] k = 50 -> <<UsChosen(m, 0, 50, 64)>>
      [] k = 47 -> <<UsChosen(m, 127, 47, 63)>>
      [] k = 45 -> <<UsChosen(m, 31, 45, 95)>>
      [] k = 91 -> <<UsChosen(m, 27, 91, 123)>>
      [] k = 32 -> <<32>>
      [] is_numpad(k) /\ num -> <<48 + numpad_index(k)>>
      [] OTHER -> << >>

(* The sequence of a key that has none; CTRL+ALT+DELETE means no text. *)
UsSequence(k, m, num) ==
    CASE k = KEY.UP \/ (k = 108 /\ ~num) -> <<ESC, 91, 65>>
      [] k = KEY.DOWN -> <<ESC, 91, 66>>
      [] k = KEY.RIGHT -> <<ESC, 91, 67>>
      [] k = KEY.LEFT -> <<ESC, 91, 68>>
      [] k = 109 /\ ~num -> <<ESC, 91, 53, 126>>
      [] k = KEY.DELETE /\ ~({"ctrl", "alt"} \subseteq m) -> <<ESC, 91, 51, 126>>
      [] k = KEY.F1 -> <<ESC, 91, 49, 49, 126>>
      [] k = KEY.F1 + 8 -> <<ESC, 91, 50, 48, 126>>
      [] OTHER -> << >>

UsText(k, m, caps, num) ==
    LET plain == UsCharacter(k, m, caps, num)
    IN  IF plain = << >> THEN UsSequence(k, m, num)
        ELSE IF "alt" \in m THEN <<ESC>> \o plain ELSE plain
===============================================================================
