----------------------------- MODULE MCSerialTty -----------------------------
(***************************************************************************)
(* Constants of the SerialTty instances that a .cfg file cannot write.     *)
(***************************************************************************)
EXTENDS SerialTty

(* default_termios of tty.c *)
Default == {"ICRNL", "IXON", "OPOST", "ONLCR", "ECHO", "ECHOCTL"}

NoneSet == {}
NoFlags == {{}}
XonSet == {{"IXON"}}
Xoff == {"IXOFF"}
XonXoff == {"IXON", "IXOFF"}
XoffRts == {"IXOFF", "CRTSCTS"}
CookedXon == {"IXON", "OPOST", "ONLCR"}
RtsCts == {"CRTSCTS"}
Ignore == {"IGNCR"}
EchoCooked == {"ECHO", "OPOST", "IXON"}

Letter == <<120>>
Newline == <<10>>
Word == <<120, 120>>

LetterBuf == {Letter}
NewlineBuf == {Newline}
WordBuf == {Word}
NoBuf == {<<>>}
=============================================================================
