------------------------------- MODULE MCWire -------------------------------
(***************************************************************************)
(* Instances of Dialog for TLC.                                            *)
(***************************************************************************)
EXTENDS Dialog

\* Big-endian, 32-bit x86 and 64-bit x86.
AllPlatforms == Builds \ {[littleEndian |-> FALSE, i386 |-> TRUE]}

Command(o, id, data) == [op |-> o, id |-> id, data |-> data]

\* Short names that are commands' letters, messages that spell commands; and, as
\* oddities, what is empty or longer than the buffer.
Logins == {Command("LL", NoID, <<<<65>>, <<65, 65>>>>),
           Command("LL", NoID, <<<<>>, <<65>>>>),
           Command("RE", NoID, <<<<65>>, <<82>>, <<69>>>>)}

Plains == {Command("MS", <<1, 0, 0, 2>>, <<<<77, 83>>>>),
           Command("MS", <<0, 3, 0, 0>>, <<<<1>>>>),
           Command("AU", NoID, <<<<65>>, <<83, 77>>>>)}

Oddities == {Command("MS", <<1, 0, 0, 2>>, <<<<1, 77, 83>>>>),
             Command("MS", <<1, 0, 0, 2>>, <<<<>>>>),
             Command("AU", NoID, <<<<>>, <<1>>>>)}

Answers == {Command("AO", <<1, 0, 0, 2>>, <<>>)}

AllFrames == {Command("LO", NoID, <<>>), Command("LP", NoID, <<>>),
              Command("LU", NoID, <<>>), Command("AR", NoID, <<>>),
              Command("AC", <<1, 0, 0, 2>>, <<<<65>>>>),
              Command("AL", <<1, 0, 0, 2>>, <<<<65, 67>>, <<82>>>>),
              Command("RM", <<1, 0, 0, 2>>, <<<<82, 77>>>>),
              Command("QU", <<1, 0, 0, 2>>, <<<<65>>>>)}

AllCommands == Plains \cup Oddities \cup Answers
NoFrames == {}
SomeCommands == Plains \cup Answers
=============================================================================
