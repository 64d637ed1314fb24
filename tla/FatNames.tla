------------------------------ MODULE FatNames ------------------------------
(* File names of tools/fatfs (fat.c): the space-padded 8.3 label of a directory
   entry, and the chain of long-file-name links in front of one.  Characters are
   numbers; a string is a sequence of them without its NUL. *)
EXTENDS Integers, Sequences, FiniteSets, SequencesExt

NAME_LENGTH      == 8
EXTENSION_LENGTH == 3
LABEL_LENGTH     == NAME_LENGTH + EXTENSION_LENGTH
SHORTNAME_LENGTH == NAME_LENGTH + 1 + EXTENSION_LENGTH
LONGNAME_LENGTH  == 255

SPACE == 32
DOT   == 46

Spaces == {SPACE} \cup 9..13
isalnum(c) == c \in (48..57) \cup (65..90) \cup (97..122)
toupper(c) == IF c \in 97..122 THEN c - 32 ELSE c
Upper(s)   == [i \in 1..Len(s) |-> toupper(s[i])]

\* s without the leading and trailing characters that are in drop.
Trim(s, drop) ==
  LET kept == {i \in 1..Len(s) : s[i] \notin drop}
  IN IF kept = {} THEN <<>>
     ELSE SubSeq(s, CHOOSE i \in kept : \A j \in kept : i <= j,
                    CHOOSE i \in kept : \A j \in kept : i >= j)

ReadFatString(src) == Trim(src, {SPACE})

WriteFatString(src, n) == [i \in 1..n |-> IF i <= Len(src) THEN src[i] ELSE SPACE]

-----------------------------------------------------------------------------
(* Short names. *)

\* $ % ' - _ @ ~ ` ! ( ) { } ^ # &
Symbols == {36, 37, 39, 45, 95, 64, 126, 96, 33, 40, 41, 123, 125, 94, 35, 38}

\* Where the extension begins: the first dot, or the end of the name.
DotOf(src) ==
  LET dots == {i \in 1..Len(src) : src[i] = DOT}
  IN IF dots = {} THEN Len(src) + 1 ELSE CHOOSE i \in dots : \A j \in dots : i <= j

ValidName(src, dot) ==
  /\ Len(src) \in 1..SHORTNAME_LENGTH
  /\ \A i \in 1..Len(src) : \/ isalnum(src[i]) \/ src[i] > 127
                           \/ src[i] \in Symbols \/ i = dot \/ src[i] = SPACE
  /\ dot - 1 \in 1..NAME_LENGTH
  /\ Len(src) - dot <= EXTENSION_LENGTH

LabelOf(src, dot) ==
  LET base == Upper(SubSeq(src, 1, dot - 1))
  IN WriteFatString(IF base[1] = 229 THEN [base EXCEPT ![1] = 5] ELSE base, NAME_LENGTH)
       \o WriteFatString(Upper(SubSeq(src, dot + 1, Len(src))), EXTENSION_LENGTH)

LabelOrNone(src, dot) == IF ValidName(src, dot) THEN LabelOf(src, dot) ELSE <<>>

\* The label SetShortName stores for a name, or the empty sequence where it
\* refuses the name.
SetShortName(name) ==
  LET src == Trim(name, Spaces) IN LabelOrNone(src, DotOf(src))

GetShortName(label) ==
  LET base == ReadFatString(SubSeq(label, 1, NAME_LENGTH))
      ext  == ReadFatString(SubSeq(label, NAME_LENGTH + 1, LABEL_LENGTH))
      fix  == IF base # <<>> /\ base[1] = 5 THEN [base EXCEPT ![1] = 229] ELSE base
  IN IF ext # <<>> THEN fix \o <<DOT>> \o ext ELSE fix

\* FindFileInDir compares short names without regard to case (strncasecmp).
SameName(label, name) == Upper(GetShortName(label)) = Upper(name)

SetLabel(src) == WriteFatString(src, LABEL_LENGTH)

-----------------------------------------------------------------------------
(* Long names: the last chunk of the name is the first link of the chain. *)

ChunkLength    == 13

GetShortNameChecksum(label) ==
  FoldLeft(LAMBDA sum, c : ((sum % 2) * 128 + (sum \div 2) + c) % 256, 0, label)

\* " * / : < > ? ` |
LongForbidden == {34, 42, 47, 58, 60, 62, 63, 96, 124}

\* The links of SetLongName, or the empty sequence where it refuses the name.
\* A chunk that does not fill its link ends in a NUL; a full one has none.
SetLongName(name, label) ==
  LET lead == Trim(name, Spaces)
      src  == IF lead = <<>> THEN <<>>
              ELSE LET t == Trim(<<0>> \o Tail(lead), Spaces \cup {DOT})
                   IN <<lead[1]>> \o Tail(t)
      n    == (Len(src) + ChunkLength - 1) \div ChunkLength
  IN IF Len(src) \notin 1..LONGNAME_LENGTH \/ \E i \in 1..Len(src) : src[i] \in LongForbidden
     THEN <<>>
     ELSE [k \in 1..n |->
            LET seq  == n - k + 1
                last == IF seq = n THEN Len(src) ELSE seq * ChunkLength
            IN [seq      |-> seq,
                first    |-> seq = n,
                checksum |-> GetShortNameChecksum(label),
                name     |-> SubSeq(src, (seq - 1) * ChunkLength + 1, last)]]

\* What GetLongName finds: the name, empty on a checksum mismatch, and how many
\* entries it steps over to the short-name entry.  The checksums are compared
\* through one running XOR: pairs of equal bytes cancel, an odd one out is
\* cancelled by repeating the last.
XorCancels(sums) ==
  \A bit \in 0..7 :
    LET ones == {i \in 1..Len(sums) : (sums[i] \div 2^bit) % 2 = 1}
        last == IF Len(sums) % 2 = 1 THEN (sums[Len(sums)] \div 2^bit) % 2 ELSE 0
    IN (Cardinality(ones) + last) % 2 = 0

GetLongName(links, label) ==
  LET sums == [k \in 1..Len(links) |-> links[k].checksum]
      text == FlattenSeq([k \in 1..Len(links) |-> links[Len(links) - k + 1].name])
  IN IF XorCancels(sums) /\ sums[Len(sums)] = GetShortNameChecksum(label)
     THEN text ELSE <<>>

=============================================================================
