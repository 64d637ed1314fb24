------------------------------- MODULE MCFat --------------------------------
(* The names main.mk gives to tools/fatfs, as numbers: the loader asks for
   BOOT.SYS and OHWES.SYS, which the build writes in lower case. *)
EXTENDS BootLoader

BootSys  == <<98, 111, 111, 116, 46, 115, 121, 115>>
BOOTSYS  == <<66, 79, 79, 84, 46, 83, 89, 83>>
OhwesSys == <<111, 104, 119, 101, 115, 46, 115, 121, 115>>
Dir      == <<100>>

MCLabels    == {<<>>, <<79, 83>>}
MCFilePaths == {<<BootSys>>, <<BOOTSYS>>, <<OhwesSys>>, <<Dir, OhwesSys>>}
MCDirPaths  == {<<Dir>>}

(* No command stores a long name, so they are checked here on their own: names
   that fill a link, leave it one short or run one over come back as they were
   stored, and not at all when the checksum of one link is another. *)
LongName(n) == [i \in 1..n |-> 97 + (i % 26)]
LongLabel   == SetShortName(BootSys)
Lengths     == {1, 12, 13, 14, 25, 26, 27, 39, 40, 255}

ASSUME LongNamesRoundTrip ==
  \A n \in Lengths : GetLongName(SetLongName(LongName(n), LongLabel), LongLabel) = LongName(n)

ASSUME LongNameCorruptionSeen ==
  \A n \in Lengths \ {255} :
    LET links == SetLongName(LongName(n), LongLabel)
    IN \A k \in 1..Len(links) :
         GetLongName([links EXCEPT ![k].checksum = (@ + 1) % 256], LongLabel) = <<>>
=============================================================================
