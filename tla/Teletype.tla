------------------------------ MODULE Teletype ------------------------------
(***************************************************************************)
(* What a virtual terminal promises for plain text: a sheet of lines on    *)
(* which each character is typed in turn, whatever else goes on.  Column   *)
(* COLS is "just past the edge": the next character starts a new line.     *)
(***************************************************************************)
EXTENDS Integers

CONSTANTS Sheets,       \* one sheet per terminal
          COLS, ROWS,   \* size of a sheet
          Letters,      \* characters that are typed
          BLANK

VARIABLES line,   \* the text: line[n][row][column]
          row, col

tvars == <<line, row, col>>

Rows == 0 .. ROWS - 1
Columns == 0 .. COLS - 1

TypeOK ==
    /\ line \in [Sheets -> [Rows -> [Columns -> Letters \cup {BLANK}]]]
    /\ row \in [Sheets -> Rows]
    /\ col \in [Sheets -> 0 .. COLS]

Init == TypeOK

BlankLine == [j \in Columns |-> BLANK]

(* The sheet after the paper moved up one line, if the last line is reached. *)
FeedLine(n) ==
    IF row[n] < ROWS - 1 THEN line[n]
    ELSE [i \in Rows |-> IF i < ROWS - 1 THEN line[n][i + 1] ELSE BlankLine]

FeedRow(n) == IF row[n] < ROWS - 1 THEN row[n] + 1 ELSE row[n]

Feed(n) ==
    /\ line' = [line EXCEPT ![n] = FeedLine(n)]
    /\ row' = [row EXCEPT ![n] = FeedRow(n)]
    /\ col' = [col EXCEPT ![n] = IF @ = COLS THEN COLS - 1 ELSE @]

Return(n) ==
    /\ col' = [col EXCEPT ![n] = 0]
    /\ UNCHANGED <<line, row>>

Back(n) ==
    /\ col' = [col EXCEPT ![n] = IF @ = COLS THEN COLS - 2 ELSE IF @ = 0 THEN 0 ELSE @ - 1]
    /\ UNCHANGED <<line, row>>

Type(n, c) ==
    IF col[n] < COLS
    THEN /\ line' = [line EXCEPT ![n][row[n]][col[n]] = c]
         /\ col' = [col EXCEPT ![n] = @ + 1]
         /\ UNCHANGED row
    ELSE /\ line' = [line EXCEPT ![n] = [FeedLine(n) EXCEPT ![FeedRow(n)][0] = c]]
         /\ row' = [row EXCEPT ![n] = FeedRow(n)]
         /\ col' = [col EXCEPT ![n] = 1]

Next ==
    \E n \in Sheets :
        \/ Feed(n) \/ Return(n) \/ Back(n)
        \/ \E c \in Letters : Type(n, c)

Spec == Init /\ [][Next]_tvars
=============================================================================
