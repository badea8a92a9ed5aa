----------------------------- MODULE TerminalLoop -----------------------------
(***************************************************************************)
(* The loop that stands between the user's terminal and the app in the VM  *)
(* (src/tui.rs, event_loop).  The app writes escape sequences into a PTY;  *)
(* the loop reads them in pieces, keeps the emulator, sets the user's      *)
(* terminal up as the app asks, answers queries, and passes keys, mouse    *)
(* and size on.                                                            *)
(*                                                                         *)
(* The popup and the status socket are the same loop's work and are        *)
(* modelled in StatusOverlay; here no dialog takes the keys.               *)
(***************************************************************************)
EXTENDS TermParser, FiniteSets

CONSTANTS
    Script,         \* what the app may write: sequences of items [op, bytes]
    Event,          \* what the user does: a key or a mouse event
    PipeCap,        \* bytes the PTY holds on the way to the loop
    UnreadCap,      \* writes the PTY holds that the app has not read
    Burst,          \* how many events one read of the user's terminal takes
    EarlyResize,    \* may the window change before the loop hears of it?
    MayFail,        \* may the user's terminal fail?
    MaxEvents, MaxResizes   \* bounds

ASSUME ConstantsOK ==
    /\ \A s \in Script : \A i \in ToSet(s) : i.bytes \in Seq(STRING) /\ i.bytes # <<>>
    /\ {PipeCap, UnreadCap, Burst, MaxEvents, MaxResizes} \subseteq Nat
    /\ {EarlyResize, MayFail} \subseteq BOOLEAN
    /\ Event \subseteq [kind : Key \cup {"down", "up", "drag", "move", "scroll"},
                       button : Nat, mods : Nat, col : Nat, row : Nat]

VARIABLES
    app,        \* "on" or "ended"
    sent,       \* history: the items it has written
    pipe,       \* bytes in the PTY that the loop has not read
    written,    \* history: what the loop has written to the PTY
    unread,     \* how many of these the app has not read
    pc,         \* where the loop stands
    ready,      \* what the last poll found readable
    term,       \* Term
    fed,        \* history: what the vt100 parser was fed
    responses,  \* answers not yet written
    outer,      \* the user's terminal: raw, alternate, capture, size
    failed,     \* history: what of it a command that failed should have switched
    tty,        \* events the user's terminal has sent
    held,       \* events crossterm has read and not yet returned
    resized,    \* RESIZED
    handler,    \* is SIGWINCH handled?
    last,       \* last_rows and last_cols
    size,       \* the size the emulator and the PTY have
    result,     \* of the loop: "none", "ok", "error", "unstarted"
    events      \* history: how many events the user has made

appVars == <<app, sent, pipe>>
toApp == <<written, unread, responses>>
emulator == <<term, fed>>
user == <<outer, failed, tty, held, events>>
window == <<resized, handler, last, size>>
vars == <<appVars, toApp, emulator, user, window, pc, ready, result>>

Switch == {"raw", "alternate", "capture"}
Plain(sz) == [raw |-> FALSE, alternate |-> FALSE, capture |-> FALSE, size |-> sz]

Init ==
    /\ app = "on" /\ sent = <<>> /\ pipe = <<>>
    /\ written = <<>> /\ unread = 0 /\ responses = <<>>
    /\ term = NewTerm /\ fed = <<>>
    /\ outer = Plain(0) /\ failed = {} /\ tty = <<>> /\ held = <<>> /\ events = 0
    /\ resized = FALSE /\ handler = FALSE /\ last = 0 /\ size = 0
    /\ pc = "off" /\ ready = {} /\ result = "none"

-----------------------------------------------------------------------------
(* The app, the user and the window.                                       *)

Item == UNION {ToSet(s) : s \in Script}

AppWrites(item) ==
    /\ app = "on"
    /\ \E s \in Script : IsPrefix(Append(sent, item), s)
    /\ Len(pipe) + Len(item.bytes) <= PipeCap
    /\ sent' = Append(sent, item)
    /\ pipe' = pipe \o item.bytes
    /\ UNCHANGED <<app, toApp, emulator, user, window, pc, ready, result>>

AppReads ==
    /\ app = "on" /\ unread > 0
    /\ unread' = unread - 1
    /\ UNCHANGED <<appVars, written, responses, emulator, user, window, pc, ready, result>>

\* It may end at any time, whatever it has been sent.
AppEnds ==
    /\ app = "on"
    /\ app' = "ended"
    /\ UNCHANGED <<sent, pipe, toApp, emulator, user, window, pc, ready, result>>

\* Mouse events only come while capture is on.
UserActs(e) ==
    /\ pc \notin {"off", "out"} /\ events < MaxEvents
    /\ e.kind \notin Key => outer.capture
    /\ tty' = Append(tty, e)
    /\ events' = events + 1
    /\ UNCHANGED <<appVars, toApp, emulator, outer, failed, held, window, pc, ready, result>>

WindowChanges ==
    /\ outer.size < MaxResizes
    /\ handler \/ EarlyResize
    /\ outer' = [outer EXCEPT !.size = @ + 1]
    /\ resized' = (resized \/ handler)
    /\ UNCHANGED <<appVars, toApp, emulator, failed, tty, held, events, handler, last, size, pc,
                   ready, result>>

-----------------------------------------------------------------------------
(* The loop.                                                               *)

Start ==
    /\ pc = "off"
    /\ outer' = [outer EXCEPT !.raw = TRUE, !.alternate = TRUE]
    /\ handler' = TRUE
    /\ pc' = "top"
    /\ UNCHANGED <<appVars, toApp, emulator, failed, tty, held, events, resized, last, size,
                   ready, result>>

\* Each of these is a `?` of its own, and none takes the ones before it back.
StartFails ==
    /\ MayFail /\ pc = "off"
    /\ \E raw \in BOOLEAN, alternate \in BOOLEAN :
        /\ alternate => raw
        /\ outer' = [outer EXCEPT !.raw = raw, !.alternate = alternate]
    /\ pc' = "out" /\ result' = "unstarted"
    /\ UNCHANGED <<appVars, toApp, emulator, failed, tty, held, events, window, ready>>

\* cleanup_terminal, on every way out of the loop.  Each switch is tried, the capture if
\* it is known to be on, and whether that succeeds is not asked.
CleanUp(refused, capture) ==
    /\ refused # {} => MayFail
    /\ outer' = [outer EXCEPT !.raw = "raw" \in refused, !.alternate = "alternate" \in refused,
                              !.capture = capture]

Leave(how) ==
    /\ \E refused \in SUBSET Switch :
        /\ CleanUp(refused, outer.capture /\ "capture" \in refused)
        /\ failed' = refused
    /\ handler' = FALSE
    /\ pc' = "out" /\ result' = how

\* RESIZED.swap; the size is asked for after it.
SeeResized ==
    /\ pc = "top"
    /\ resized' = FALSE
    /\ pc' = IF resized THEN "size" ELSE "poll"
    /\ UNCHANGED <<appVars, toApp, emulator, user, handler, last, size, ready, result>>

\* terminal::size; nothing more is to be done if the size is the last one.
ReadSize ==
    /\ pc = "size"
    /\ last' = outer.size
    /\ pc' = IF last = outer.size THEN "poll" ELSE "apply"
    /\ UNCHANGED <<appVars, toApp, emulator, user, resized, handler, size, ready, result>>

\* Slip: the flag is reset once more when the size has been taken.
ApplySizeAndForget ==
    /\ pc = "apply"
    /\ size' = last
    /\ resized' = FALSE
    /\ pc' = "poll"
    /\ UNCHANGED <<appVars, toApp, emulator, user, handler, last, ready, result>>

\* set_size and TIOCSWINSZ.
ApplySize ==
    /\ pc = "apply"
    /\ size' = last
    /\ pc' = "poll"
    /\ UNCHANGED <<appVars, toApp, emulator, user, resized, handler, last, ready, result>>

\* Slip: only POLLIN is looked at, so that the app's end is not seen.
PollMissesHangup ==
    /\ pc = "poll"
    /\ ready' = {f \in {"pty", "tty"} : IF f = "pty" THEN pipe # <<>> ELSE tty # <<>>}
    /\ pc' = "pty"
    /\ UNCHANGED <<appVars, toApp, emulator, user, window, result>>

\* Poll returns what is readable, or after 16 ms.
Poll ==
    /\ pc = "poll"
    /\ ready' = {f \in {"pty", "tty"} :
                    IF f = "pty" THEN pipe # <<>> \/ app = "ended" ELSE tty # <<>>}
    /\ pc' = "pty"
    /\ UNCHANGED <<appVars, toApp, emulator, user, window, result>>

\* A signal: EINTR.
PollInterrupted ==
    /\ pc = "poll" /\ resized
    /\ pc' = "top"
    /\ UNCHANGED <<appVars, toApp, emulator, user, window, ready, result>>

\* Slip: capture is switched on and never off.
ReadPtyOnlyOn ==
    /\ pc = "pty" /\ "pty" \in ready /\ pipe # <<>>
    /\ \E n \in 1..Len(pipe) :
        LET w == Process(term, fed, size, SubSeq(pipe, 1, n)) IN
            /\ pipe' = SubSeq(pipe, n + 1, Len(pipe))
            /\ term' = w.term /\ fed' = w.fed
            /\ responses' = w.replies
            /\ outer' = [outer EXCEPT !.capture = @ \/ Tracking(term') # "off"]
    /\ pc' = "answer"
    /\ UNCHANGED <<app, sent, written, unread, failed, tty, held, events, window, ready, result>>

\* One read, of what is there or less; then the capture is made to fit.
ReadPty ==
    /\ pc = "pty" /\ "pty" \in ready /\ pipe # <<>>
    /\ \E n \in 1..Len(pipe) :
        LET w == Process(term, fed, size, SubSeq(pipe, 1, n)) IN
            /\ pipe' = SubSeq(pipe, n + 1, Len(pipe))
            /\ term' = w.term /\ fed' = w.fed
            /\ responses' = w.replies
            /\ outer' = [outer EXCEPT !.capture = Tracking(term') # "off"]
    /\ pc' = "answer"
    /\ UNCHANGED <<app, sent, written, unread, failed, tty, held, events, window, ready, result>>

\* EnableMouseCapture or DisableMouseCapture fails, having switched it or not.
\* cleanup_terminal switches off what was on before; what a failed EnableMouseCapture
\* has done stays.
CaptureFails ==
    /\ MayFail
    /\ pc = "pty" /\ "pty" \in ready /\ pipe # <<>>
    /\ \E n \in 1..Len(pipe) :
        LET w == Process(term, fed, size, SubSeq(pipe, 1, n)) IN
            /\ outer.capture # (Tracking(w.term) # "off")
            /\ pipe' = SubSeq(pipe, n + 1, Len(pipe))
            /\ term' = w.term /\ fed' = w.fed
            /\ responses' = w.replies
    /\ \E on \in BOOLEAN, refused \in SUBSET Switch :
        /\ CleanUp(refused, on /\ (outer.capture => "capture" \in refused))
        /\ failed' = refused \cup (IF outer.capture THEN {} ELSE {"capture"})
    /\ handler' = FALSE
    /\ pc' = "out" /\ result' = "error"
    /\ UNCHANGED <<app, sent, written, unread, tty, held, events, resized, last, size, ready>>

\* The read returns nothing or an error: the child has gone.
ReadPtyEnds ==
    /\ pc = "pty" /\ "pty" \in ready /\ pipe = <<>>
    /\ Leave("ok")
    /\ UNCHANGED <<appVars, toApp, emulator, tty, held, events, resized, last, size, ready>>

NoPty ==
    /\ pc = "pty" /\ "pty" \notin ready
    /\ pc' = "tty"
    /\ UNCHANGED <<appVars, toApp, emulator, user, window, ready, result>>

\* A write blocks while the PTY is full; once the app has gone it goes nowhere.
Write(record) ==
    /\ app = "on" => unread < UnreadCap
    /\ written' = Append(written, record)
    /\ unread' = IF app = "on" THEN unread + 1 ELSE unread

WriteAnswer ==
    /\ pc = "answer" /\ responses # <<>>
    /\ Write([kind |-> "answer", data |-> Head(responses)])
    /\ responses' = Tail(responses)
    /\ UNCHANGED <<appVars, emulator, user, window, pc, ready, result>>

AnswersWritten ==
    /\ pc = "answer" /\ responses = <<>>
    /\ pc' = "tty"
    /\ UNCHANGED <<appVars, toApp, emulator, user, window, ready, result>>

\* event::read: an event crossterm holds from an earlier read, else the first of
\* those it reads now.
NextEvent(e) ==
    IF held # <<>>
    THEN /\ e = Head(held)
         /\ held' = Tail(held)
         /\ UNCHANGED tty
    ELSE \E n \in 1..Len(tty) :
            /\ n <= Burst
            /\ e = Head(tty)
            /\ held' = SubSeq(tty, 2, n)
            /\ tty' = SubSeq(tty, n + 1, Len(tty))

\* What an event is written as: <<>> or one write.
Encoded(e) ==
    IF e.kind \in Key THEN <<[kind |-> "key", data |-> KeyBytes(e.kind, term), of |-> e]>>
    ELSE LET n == MouseNumbers(e, term) IN
         IF n = <<>> THEN <<>>
         ELSE <<[kind |-> "mouse", data |-> n, of |-> e,
                 encoding |-> MouseEncoding(term), tracking |-> Tracking(term)]>>

ReadTty ==
    /\ pc = "tty" /\ "tty" \in ready
    /\ \E e \in Event :
        /\ NextEvent(e)
        /\ IF Encoded(e) = <<>> THEN UNCHANGED <<written, unread>> ELSE Write(Encoded(e)[1])
    /\ pc' = "draw" /\ ready' = {}
    /\ UNCHANGED <<appVars, responses, emulator, outer, failed, events, window, result>>

NoTty ==
    /\ pc = "tty" /\ "tty" \notin ready
    /\ pc' = "draw" /\ ready' = {}
    /\ UNCHANGED <<appVars, toApp, emulator, user, window, result>>

Draw ==
    /\ pc = "draw"
    /\ pc' = "top"
    /\ UNCHANGED <<appVars, toApp, emulator, user, window, ready, result>>

\* poll or terminal.draw fails.
LoopFails ==
    /\ MayFail /\ pc \in {"poll", "draw"}
    /\ Leave("error")
    /\ UNCHANGED <<appVars, toApp, emulator, tty, held, events, resized, last, size, ready>>

-----------------------------------------------------------------------------

App == AppReads \/ AppEnds \/ \E item \in Item : AppWrites(item)

Turn ==
    \/ Start \/ SeeResized \/ ReadSize \/ ApplySize \/ Poll \/ ReadPty \/ ReadPtyEnds \/ NoPty
    \/ WriteAnswer \/ AnswersWritten \/ ReadTty \/ NoTty \/ Draw

Fault == StartFails \/ CaptureFails \/ LoopFails

Next ==
    \/ App
    \/ \E e \in Event : UserActs(e)
    \/ WindowChanges
    \/ Turn \/ PollInterrupted \/ Fault

Spec == Init /\ [][Next]_vars

\* The loop is never starved; the app reads what it is sent and may run for ever.
FairSpec ==
    /\ Spec
    /\ WF_vars(Turn)
    /\ WF_vars(AppReads)

-----------------------------------------------------------------------------
(* Properties.                                                             *)

\* What a sequence of items means to a terminal that gets each of them whole.
Means(m, item) ==
    LET dec == IF m.usingG1 THEN m.g1 ELSE m.g0
        parts == ToSet(item.bytes)
        on == Last(item.bytes) = "h"
        shown == [m EXCEPT !.fed = @ \o item.bytes] IN
    CASE item.op = "text" ->
            [m EXCEPT !.fed = @ \o [i \in DOMAIN item.bytes |->
                IF dec /\ item.bytes[i] = "q" THEN "line" ELSE item.bytes[i]]]
      [] item.op = "shift" -> [m EXCEPT !.usingG1 = ("SO" \in parts)]
      [] item.op = "designate" ->
            IF "(" \in parts THEN [m EXCEPT !.g0 = ("0" \in parts)]
                             ELSE [m EXCEPT !.g1 = ("0" \in parts)]
      [] item.op = "mode" ->
            [shown EXCEPT !.cursorKeys = IF "1" \in parts THEN on ELSE @,
                          !.mouse = IF on THEN @ \cup (parts \cap MouseModes) ELSE @ \ parts]
      [] item.op = "ask" ->
            [shown EXCEPT !.replies = Append(@, IF "6" \in parts THEN Len(shown.fed) ELSE 0)]
      [] item.op = "move" -> [m EXCEPT !.fed = @ \o Front(item.bytes) \o <<"H">>]
      [] OTHER -> shown

\* The items Means is about: each is one sequence as an app writes it, whole.  The
\* mode of the cursor keys comes by itself; with others in one sequence it is missed.
WellFormed(item) ==
    LET b == item.bytes
        n == Len(item.bytes)
        parameters == 3..(n - 1)
        body(e) == \A i \in 3..e : b[i] \notin {"BEL", "ESC"} IN
    \/ item.op = "text" /\ ToSet(b) \cap {"ESC", "SO", "SI"} = {}
    \/ item.op = "shift" /\ b \in {<<"SO">>, <<"SI">>}
    \/ item.op = "designate" /\ b \in {<<"ESC", g, c>> : g \in {"(", ")"}, c \in {"0", "B"}}
    \/ item.op = "ask" /\ b \in {<<"ESC", "[">> \o q : q \in {CursorQuery, SizeQuery}}
    \/ /\ item.op = "mode" /\ n >= 5
       /\ b[1] = "ESC" /\ b[2] = "[" /\ b[3] = "?" /\ b[n] \in {"h", "l"}
       /\ \A i \in parameters : b[i] \notin Final
       /\ "1" \in ToSet(b) => n = 5
    \/ /\ item.op = "move" /\ n >= 3
       /\ b[1] = "ESC" /\ b[2] = "[" /\ b[n] = "f"
       /\ \A i \in parameters : b[i] \notin Final
    \/ /\ item.op = "string" /\ n >= 3
       /\ b[1] = "ESC" /\ b[2] \in {"]", "P"}
       /\ \/ b[n] = "BEL" /\ body(n - 1)
          \/ n >= 4 /\ b[n - 1] = "ESC" /\ b[n] = "\\" /\ body(n - 2)

Blank ==
    [fed |-> <<>>, g0 |-> FALSE, g1 |-> FALSE, usingG1 |-> FALSE, cursorKeys |-> FALSE,
     mouse |-> {}, replies |-> <<>>]

\* The meaning of the first k items, for each k.
Meaning(items) ==
    LET meaning[k \in 0..Len(items)] ==
            IF k = 0 THEN Blank ELSE Means(meaning[k - 1], items[k])
    IN  meaning

\* How many bytes the first k items have.
Offset(items) ==
    LET offset[k \in 0..Len(items)] ==
            IF k = 0 THEN 0 ELSE offset[k - 1] + Len(items[k].bytes)
    IN  offset

\* When the loop has read k items whole, and nothing after them.
HasRead(k) == Offset(sent)[Len(sent)] - Len(pipe) = Offset(sent)[k]

\* Wherever the reads have cut the sequences: when the last one is complete, the
\* vt100 parser has got every byte once and in order, with the glyphs, the modes
\* and the character sets the app asked for, and nothing of a title or of a
\* sequence is taken for text.
StreamUnderstood ==
    \A k \in 0..Len(sent) : HasRead(k) =>
        LET m == Meaning(sent)[k] IN
            /\ fed = m.fed
            /\ [f \in {"g0", "g1", "usingG1", "cursorKeys"} |-> term[f]]
                = [f \in {"g0", "g1", "usingG1", "cursorKeys"} |-> m[f]]
            /\ term.mouse = m.mouse
            /\ term.state = "ground"

AnswersOf(records) ==
    LET value(r) == IF r.query = CursorQuery THEN r.value ELSE 0 IN
    [i \in DOMAIN records |-> value(records[i])]

\* The answers among the first i writes, for each i.
Given(records) ==
    LET given[i \in 0..Len(records)] ==
            IF i = 0 THEN <<>>
            ELSE IF records[i].kind = "answer" THEN Append(given[i - 1], records[i].data)
            ELSE given[i - 1]
    IN  given

\* Every query is answered once, in order, with the place the cursor had when all
\* before the query had been drawn and nothing behind it; no answer is lost, left
\* for the next read or given for half a query.
QueriesAnswered ==
    \A k \in 0..Len(sent) : HasRead(k) =>
        AnswersOf(Given(written)[Len(written)] \o responses) = Meaning(sent)[k].replies

\* Whenever the loop has read what the app wrote up to an item's end, wherever the
\* reads have cut it, the user's terminal captures the mouse just if the app has asked
\* for it, so that selecting text works otherwise; and what is still switched when the
\* loop has been left, on any way out, is what the command that switches it failed for
\* (event_loop, cleanup_terminal).
CaptureFollows ==
    /\ pc \notin {"off", "out"} =>
        \A k \in 0..Len(sent) : HasRead(k) =>
            (outer.capture <=> Meaning(sent)[k].mouse \cap {"1000", "1002", "1003"} # {})
    /\ pc = "out" /\ result # "unstarted" => \A s \in Switch : outer[s] => s \in failed

\* What a mouse report says, read as the app reads it, is where the mouse was and
\* what it did, at the edge of what a byte holds as well; and the app had asked
\* for events of this kind when it was sent.
Where(r) ==
    IF r.encoding = "x10" THEN [col |-> r.data[2] - 33, row |-> r.data[3] - 33]
                          ELSE [col |-> r.data[2] - 1, row |-> r.data[3] - 1]

ReportsDecode ==
    \A i \in DOMAIN written :
        LET r == written[i] IN r.kind = "mouse" =>
            /\ r.encoding = "sgr" => (r.data[4] = ReleaseByte <=> r.of.kind = "up")
            /\ Where(r) = [col |-> r.of.col, row |-> r.of.row]
            /\ r.data[1] = IF r.encoding = "sgr" THEN Code(r.of)
                           ELSE 32 + IF r.of.kind = "up" THEN 3 ELSE Code(r.of)
            /\ r.of.kind \in CASE r.tracking = "any" -> {"down", "up", "scroll", "drag", "move"}
                               [] r.tracking = "button" -> {"down", "up", "scroll", "drag"}
                               [] r.tracking = "normal" -> {"down", "up", "scroll"}

\* Whenever the window changes, be it while the size is being taken, the app gets
\* to know its last size.
SizeSettles == <>[](pc # "out" => size = outer.size)

\* Whatever the app writes is read, up to its end, at which the loop is left: the
\* app's output and the loop's answers, both through PTYs that fill up, never wait
\* for each other as long as the app reads.
LoopServes ==
    /\ pipe # <<>> ~> (pipe = <<>> \/ pc = "out")
    /\ app = "ended" ~> (pc = "out" /\ (result = "ok" => pipe = <<>>))

\* The keys the user has pressed are written to the app, the last of them as well.
KeysArrive ==
    LET waiting == SelectSeq(held \o tty, LAMBDA e : e.kind \in Key) IN
    waiting # <<>> ~> (waiting = <<>> \/ pc = "out")
=============================================================================
