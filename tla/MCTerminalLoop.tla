---------------------------- MODULE MCTerminalLoop ----------------------------
(* Small instances of TerminalLoop for TLC. *)
EXTENDS TerminalLoop

Sequence(op, bytes) == [op |-> op, bytes |-> bytes]

Text == Sequence("text", <<"q">>)
ShiftOut == Sequence("shift", <<"SO">>)
LinesG0 == Sequence("designate", <<"ESC", "(", "0">>)
LinesG1 == Sequence("designate", <<"ESC", ")", "0">>)
AskCursor == Sequence("ask", <<"ESC", "[", "6", "n">>)
AskSize == Sequence("ask", <<"ESC", "[", "18", "t">>)
Move == Sequence("move", <<"ESC", "[", "6", "f">>)
Title == Sequence("string", <<"ESC", "]", "q", "ESC", "\\">>)
ArrowsOn == Sequence("mode", <<"ESC", "[", "?", "1", "h">>)
MouseOn == Sequence("mode", <<"ESC", "[", "?", "1000", ";", "1006", "h">>)
MouseAll == Sequence("mode", <<"ESC", "[", "?", "1003", "h">>)
MouseOff == Sequence("mode", <<"ESC", "[", "?", "1000", "l">>)

\* Modes of the cursor keys and of the mouse in one sequence: the first is missed.
Combined == Sequence("mode", <<"ESC", "[", "?", "1", ";", "1000", "h">>)

Scripts ==
    {<<LinesG1, ShiftOut, Text>>, <<LinesG0, Text, AskCursor>>, <<Text, AskCursor, Text>>,
     <<AskCursor, Move, AskCursor>>, <<Title, Text>>, <<Title, AskCursor>>, <<AskSize, ArrowsOn>>,
     <<ArrowsOn, AskSize>>, <<MouseOn, MouseOff>>, <<MouseOn, MouseAll>>, <<MouseAll, MouseOff>>,
     <<MouseAll, MouseOn>>}

\* What the theorems about the stream assume of the scripts.
ASSUME ScriptsWellFormed == \A item \in Item : WellFormed(item)

Arrow == [kind |-> "arrow", button |-> 0, mods |-> 0, col |-> 0, row |-> 0]
Mouse(kind, button, mods, col) ==
    [kind |-> kind, button |-> button, mods |-> mods, col |-> col, row |-> 0]
Events ==
    {Arrow, Mouse("down", 0, 28, 222), Mouse("up", 2, 4, 223), Mouse("move", 3, 0, 0),
     Mouse("drag", 2, 0, 5), Mouse("scroll", 64, 16, 223)}
=============================================================================
