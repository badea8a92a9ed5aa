------------------------------ MODULE TermParser ------------------------------
(***************************************************************************)
(* The filter between the PTY and the vt100 parser (src/tui.rs, Term): it  *)
(* translates the DEC Special Graphics set, turns HVP into CUP, notes the  *)
(* modes the app asks for and answers its queries.  A sequence may be cut  *)
(* by the end of a read at any byte; the state it keeps is all there is    *)
(* between two reads.                                                      *)
(*                                                                         *)
(* A byte is a string; the number of a mode and the argument of a query    *)
(* are one each.                                                           *)
(***************************************************************************)
EXTENDS Integers, Sequences, SequencesExt

Control == {"ESC", "BEL", "SO", "SI"}                \* below 0x20
Final == {"B", "[", "]", "\\", "f", "h", "l", "n", "q", "t"}  \* 0x40 to 0x7e
MouseModes == {"1000", "1002", "1003", "1006", "1015"}
CursorQuery == <<"6", "n">>
SizeQuery == <<"18", "t">>

TermStates == {"ground", "escape", "(", ")", "csi", "string", "stringEscape"}

\* "(" and ")" are CharsetSelect with the set that is being selected.
NewTerm ==
    [state |-> "ground", g0 |-> FALSE, g1 |-> FALSE, usingG1 |-> FALSE,
     cursorKeys |-> FALSE, mouse |-> {}, csi |-> <<>>]

DecActive(term) == IF term.usingG1 THEN term.g1 ELSE term.g0

\* push_dec_special_graphic: of the bytes here, q has a glyph.
Graphic(b) == IF b = "q" THEN "line" ELSE b

\* While a chunk is processed: the state, the bytes the vt100 parser has (fed)
\* and those translated and not yet fed (out), the answers, the size.
Push(w, bytes) == [w EXCEPT !.out = @ \o bytes]
Go(w, s) == [w EXCEPT !.term.state = s]
Feed(w) == [w EXCEPT !.fed = @ \o w.out, !.out = <<>>]

InGround(w, b) ==
    CASE b = "ESC" -> Go(w, "escape")
      [] b = "SO" -> [w EXCEPT !.term.usingG1 = TRUE]
      [] b = "SI" -> [w EXCEPT !.term.usingG1 = FALSE]
      [] OTHER -> Push(w, <<IF b \notin Control /\ DecActive(w.term) THEN Graphic(b) ELSE b>>)

InEscape(w, b) ==
    CASE b \in {"(", ")"} -> Go(w, b)
      [] b = "[" -> [Go(Push(w, <<"ESC", b>>), "csi") EXCEPT !.term.csi = <<>>]
      [] b \in {"]", "P"} -> Go(Push(w, <<"ESC", b>>), "string")
      [] OTHER -> Go(Push(w, <<"ESC", b>>), "ground")

InCharset(w, b) ==
    IF w.term.state = "(" THEN [Go(w, "ground") EXCEPT !.term.g0 = (b = "0")]
                          ELSE [Go(w, "ground") EXCEPT !.term.g1 = (b = "0")]

\* CSI ? modes h, or l: the modes are the numbers between, in any number.
PrivateModes(mouse, csi) ==
    LET private == Len(csi) >= 3 /\ Head(csi) = "?"
        asked == ToSet(SubSeq(csi, 2, Len(csi) - 1)) \cap MouseModes IN
    CASE private /\ Last(csi) = "h" -> mouse \cup asked
      [] private /\ Last(csi) = "l" -> mouse \ asked
      [] OTHER -> mouse

\* The cursor is where the parser has been brought by what it was fed, so the
\* answer holds how much that was.
Answer(w) ==
    [query |-> w.term.csi, value |-> IF w.term.csi = CursorQuery THEN Len(w.fed) ELSE w.size]

\* Slip: the answer is given before the bytes ahead of the query are parsed.
CsiCompleteAnswersFirst(w) ==
    LET t == [w.term EXCEPT !.mouse = PrivateModes(@, w.term.csi), !.state = "ground", !.csi = <<>>,
                            !.cursorKeys = CASE w.term.csi = <<"?", "1", "h">> -> TRUE
                                             [] w.term.csi = <<"?", "1", "l">> -> FALSE
                                             [] OTHER -> @] IN
    IF w.term.csi \in {CursorQuery, SizeQuery}
    THEN Feed([w EXCEPT !.term = t, !.replies = Append(@, Answer(w))])
    ELSE [w EXCEPT !.term = t]

CsiComplete(w) ==
    LET t == [w.term EXCEPT !.mouse = PrivateModes(@, w.term.csi), !.state = "ground", !.csi = <<>>,
                            !.cursorKeys = CASE w.term.csi = <<"?", "1", "h">> -> TRUE
                                             [] w.term.csi = <<"?", "1", "l">> -> FALSE
                                             [] OTHER -> @] IN
    IF w.term.csi \in {CursorQuery, SizeQuery}
    THEN [Feed(w) EXCEPT !.term = t, !.replies = Append(@, Answer(Feed(w)))]
    ELSE [w EXCEPT !.term = t]

InCsi(w, b) ==
    LET v == [Push(w, <<IF b = "f" THEN "H" ELSE b>>) EXCEPT !.term.csi = Append(@, b)] IN
    IF b \in Final THEN CsiComplete(v) ELSE v

InString(w, b) ==
    Go(Push(w, <<b>>), CASE b = "BEL" -> "ground" [] b = "ESC" -> "stringEscape" [] OTHER -> "string")

InStringEscape(w, b) == Go(Push(w, <<b>>), IF b = "\\" THEN "ground" ELSE "string")

ProcessByte(w, b) ==
    CASE w.term.state = "ground" -> InGround(w, b)
      [] w.term.state = "escape" -> InEscape(w, b)
      [] w.term.state \in {"(", ")"} -> InCharset(w, b)
      [] w.term.state = "csi" -> InCsi(w, b)
      [] w.term.state = "string" -> InString(w, b)
      [] w.term.state = "stringEscape" -> InStringEscape(w, b)

\* What w has become after each byte of the chunk.
ProcessedUpTo(w, chunk) ==
    LET processed[i \in 0..Len(chunk)] ==
            IF i = 0 THEN w ELSE ProcessByte(processed[i - 1], chunk[i])
    IN  processed

\* Slip: every read is parsed from the start.
ProcessAfresh(term, fed, size, chunk) ==
    Feed(ProcessedUpTo([term |-> [term EXCEPT !.state = "ground"], fed |-> fed, out |-> <<>>,
                        replies |-> <<>>, size |-> size],
                       chunk)[Len(chunk)])

Process(term, fed, size, chunk) ==
    Feed(ProcessedUpTo([term |-> term, fed |-> fed, out |-> <<>>, replies |-> <<>>, size |-> size],
                       chunk)[Len(chunk)])

-----------------------------------------------------------------------------
(* What the user's keys and mouse become.                                  *)

Tracking(term) ==
    IF "1003" \in term.mouse THEN "any"
    ELSE IF "1002" \in term.mouse THEN "button"
    ELSE IF "1000" \in term.mouse THEN "normal" ELSE "off"

MouseEncoding(term) ==
    IF "1006" \in term.mouse THEN "sgr"
    ELSE IF "1015" \in term.mouse THEN "urxvt" ELSE "x10"

Key == {"char", "arrow"}
KeyBytes(key, term) ==
    IF key = "arrow" THEN <<"ESC", IF term.cursorKeys THEN "O" ELSE "[", "A">> ELSE <<"x">>

\* A mouse event: kind, button (3 is none, 64 the wheel), modifiers, cell from 0.
Code(e) == e.button + e.mods + (IF e.kind \in {"drag", "move"} THEN 32 ELSE 0)

Reported(e, tracking) ==
    /\ tracking # "off"
    /\ tracking = "normal" => e.kind \notin {"drag", "move"}
    /\ tracking = "button" => e.kind # "move"

Byte(n) == n % 256     \* as u8

\* Slip: the limit of a byte is one too high.
LegacyBytesOffByOne(e, code) ==
    IF e.col + 1 > 224 \/ e.row + 1 > 224 \/ code + 32 > 255 THEN <<>>
    ELSE <<Byte(code + 32), Byte(e.col + 1 + 32), Byte(e.row + 1 + 32)>>

LegacyBytes(e, code) ==
    IF e.col + 1 > 223 \/ e.row + 1 > 223 \/ code + 32 > 255 THEN <<>>
    ELSE <<Byte(code + 32), Byte(e.col + 1 + 32), Byte(e.row + 1 + 32)>>

\* The byte a report in the SGR encoding ends with: M, or m when a button is released.
PressByte == 77
ReleaseByte == 109

\* The numbers of the report, in the SGR encoding with its last byte; none at all if
\* nothing is reported.
MouseNumbers(e, term) ==
    LET legacy == IF e.kind = "up" THEN 3 ELSE Code(e) IN
    IF ~Reported(e, Tracking(term)) THEN <<>>
    ELSE CASE MouseEncoding(term) = "sgr" ->
                <<Code(e), e.col + 1, e.row + 1, IF e.kind = "up" THEN ReleaseByte ELSE PressByte>>
           [] MouseEncoding(term) = "urxvt" -> <<legacy + 32, e.col + 1, e.row + 1>>
           [] MouseEncoding(term) = "x10" -> LegacyBytes(e, legacy)
=============================================================================
