------------------------- MODULE TerminalLoop_proofs -------------------------
(***************************************************************************)
(* Proofs about TerminalLoop, for every script, every event at any place   *)
(* of the screen and all bounds:                                           *)
(*                                                                         *)
(*   - the user's terminal captures the mouse just while the app asks for  *)
(*     it, and when the loop is left nothing stays switched but what the   *)
(*     command that switches it failed for;                                *)
(*   - every report of the mouse says where it was;                        *)
(*   - whatever well-formed sequences the app writes, and wherever the     *)
(*     reads cut them, they are understood as if each had come whole, and  *)
(*     each query is answered once, in order and for its own place.        *)
(*                                                                         *)
(* The third takes most of this module; the first rests on it, since what  *)
(* the app asks for is what its bytes mean.                                *)
(***************************************************************************)
EXTENDS TerminalLoop, SequenceTheorems, WellFoundedInduction, TLAPS

(***************************************************************************)
(* The inductive invariant.                                                *)
(***************************************************************************)

\* A step that sets one field of the terminal keeps the others only if the fields are
\* these.
OuterOK == outer \in [raw : BOOLEAN, alternate : BOOLEAN, capture : BOOLEAN, size : Nat]

\* Before the loop nothing is captured and nothing asked for; it has no result until
\* it is left, and is left only with one.
Fresh == pc = "off" => ~outer.capture /\ term = NewTerm
Outcome == pc = "out" <=> result # "none"

\* In the loop the capture goes with the modes the emulator has, and after it nothing
\* is switched but what its command failed for.
Captures == pc \notin {"off", "out"} => (outer.capture <=> Tracking(term) # "off")
Left == pc = "out" /\ result # "unstarted" => \A s \in Switch : outer[s] => s \in failed

IInv == OuterOK /\ Fresh /\ Outcome /\ Captures /\ Left

\* An app that has asked for nothing does not track the mouse.
LEMMA NewIsOff == Tracking(NewTerm) = "off"
BY DEF Tracking, NewTerm

\* A terminal nothing is switched of has the fields of a terminal.
LEMMA PlainOK ==
    ASSUME NEW sz \in Nat
    PROVE  /\ Plain(sz) \in [raw : BOOLEAN, alternate : BOOLEAN, capture : BOOLEAN, size : Nat]
           /\ ~Plain(sz).raw /\ ~Plain(sz).alternate /\ ~Plain(sz).capture
           /\ Plain(sz).size = sz
BY DEF Plain

LEMMA Initially == Init => IInv
BY PlainOK DEF Init, IInv, OuterOK, Fresh, Outcome, Captures, Left

\* A step that leaves the user's terminal, the emulator and the loop's place alone.
LEMMA Elsewhere ==
    ASSUME IInv, outer' = outer, failed' = failed, term' = term, result' = result,
           pc' = pc \/ (pc \notin {"off", "out"} /\ pc' \notin {"off", "out"})
    PROVE  IInv'
BY DEF IInv, OuterOK, Fresh, Outcome, Captures, Left

\* The app, the user and the window: of these only the window touches the terminal.
LEMMA OthersKeep ==
    ASSUME IInv, App \/ (\E e \in Event : UserActs(e)) \/ WindowChanges
    PROVE  IInv'
<1>1. CASE App
    <2>1. outer' = outer /\ failed' = failed /\ term' = term /\ pc' = pc /\ result' = result
        BY <1>1 DEF App, AppReads, AppEnds, AppWrites, user, emulator
    <2>2. QED
        BY <2>1, Elsewhere
<1>2. CASE \E e \in Event : UserActs(e)
    <2>1. outer' = outer /\ failed' = failed /\ term' = term /\ pc' = pc /\ result' = result
        BY <1>2 DEF UserActs, emulator
    <2>2. QED
        BY <2>1, Elsewhere
<1>3. CASE WindowChanges
    <2>1. OuterOK'
        BY <1>3 DEF WindowChanges, IInv, OuterOK
    <2>2. UNCHANGED <<term, pc, result, failed>>
        BY <1>3 DEF WindowChanges, emulator
    <2>3. /\ outer'.raw = outer.raw /\ outer'.alternate = outer.alternate
          /\ outer'.capture = outer.capture
        BY <1>3 DEF WindowChanges, IInv, OuterOK
    <2>4. Left'
        BY <2>2, <2>3 DEF IInv, Left, Switch
    <2>5. QED
        BY <2>1, <2>2, <2>3, <2>4 DEF IInv, Fresh, Outcome, Captures
<1>4. QED
    BY <1>1, <1>2, <1>3

\* cleanup_terminal: a switch stays only if its command is among those that fail.
LEMMA CleanUpLeaves ==
    ASSUME OuterOK, NEW refused \in SUBSET Switch, NEW capture \in BOOLEAN,
           CleanUp(refused, capture), capture => "capture" \in failed', refused \subseteq failed'
    PROVE  OuterOK' /\ \A s \in Switch : outer'[s] => s \in failed'
<1> DEFINE raw == "raw" \in refused
           alternate == "alternate" \in refused
<1>1. raw \in BOOLEAN /\ alternate \in BOOLEAN
    OBVIOUS
<1>2. outer' = [outer EXCEPT !.raw = raw, !.alternate = alternate, !.capture = capture]
    BY DEF CleanUp
<1>3. (raw => "raw" \in failed') /\ (alternate => "alternate" \in failed')
    OBVIOUS
<1> HIDE DEF raw, alternate
<1>4. OuterOK'
    BY <1>1, <1>2 DEF OuterOK
<1>5. outer'.raw = raw /\ outer'.alternate = alternate /\ outer'.capture = capture
    BY <1>1, <1>2 DEF OuterOK
<1>6. (outer'.raw => "raw" \in failed') /\ (outer'.alternate => "alternate" \in failed')
    BY <1>3, <1>5
<1>7. outer'.capture => "capture" \in failed'
    BY <1>5
<1>8. QED
    BY <1>4, <1>6, <1>7 DEF Switch

\* The loop is left, with whatever result.
LEMMA LeaveKeeps ==
    ASSUME IInv, NEW how \in {"ok", "error"}, Leave(how)
    PROVE  IInv'
<1>1. PICK refused \in SUBSET Switch :
        /\ CleanUp(refused, outer.capture /\ "capture" \in refused)
        /\ failed' = refused
    BY DEF Leave
<1>2. (outer.capture /\ "capture" \in refused) \in BOOLEAN
    OBVIOUS
<1>3. OuterOK' /\ \A s \in Switch : outer'[s] => s \in failed'
    BY <1>1, <1>2, CleanUpLeaves DEF IInv
<1>4. pc' = "out" /\ result' = how
    BY DEF Leave
<1>5. QED
    BY <1>3, <1>4 DEF IInv, Fresh, Outcome, Captures, Left

\* The turns of the loop.  ReadPty is the one that changes what the app asks for, and
\* sets the capture in the same step; the others only go on or leave.
LEMMA TurnKeeps ==
    ASSUME IInv, Turn
    PROVE  IInv'
<1>1. CASE Start
    BY <1>1, NewIsOff DEF Start, emulator, IInv, OuterOK, Fresh, Outcome, Captures, Left
<1>2. CASE SeeResized \/ ReadSize \/ ApplySize \/ Poll \/ NoPty \/ AnswersWritten \/ NoTty \/ Draw
    BY <1>2, Elsewhere DEF SeeResized, ReadSize, ApplySize, Poll, NoPty, AnswersWritten, NoTty,
                           Draw, user, emulator
<1>3. CASE WriteAnswer
    BY <1>3, Elsewhere DEF WriteAnswer, user, emulator
<1>4. CASE ReadTty
    BY <1>4, Elsewhere DEF ReadTty, emulator
<1>5. CASE ReadPtyEnds
    BY <1>5, LeaveKeeps DEF ReadPtyEnds
<1>6. CASE ReadPty
    <2>1. /\ outer' = [outer EXCEPT !.capture = Tracking(term') # "off"]
          /\ pc = "pty" /\ pc' = "answer" /\ result' = result
        BY <1>6 DEF ReadPty
    <2>2. QED
        BY <2>1 DEF IInv, OuterOK, Fresh, Outcome, Captures, Left
<1>7. QED
    BY <1>1, <1>2, <1>3, <1>4, <1>5, <1>6 DEF Turn

\* Faults: a start that fails leaves the mode it has set, and the loop has no result
\* but "unstarted"; a failed switch of the capture is followed by cleanup_terminal.
LEMMA FaultKeeps ==
    ASSUME IInv, Fault
    PROVE  IInv'
<1>1. CASE StartFails
    <2>1. PICK raw \in BOOLEAN, alternate \in BOOLEAN :
            outer' = [outer EXCEPT !.raw = raw, !.alternate = alternate]
        BY <1>1 DEF StartFails
    <2>2. pc' = "out" /\ result' = "unstarted"
        BY <1>1 DEF StartFails
    <2>3. QED
        BY <2>1, <2>2 DEF IInv, OuterOK, Fresh, Outcome, Captures, Left
<1>2. CASE CaptureFails
    <2>1. PICK on \in BOOLEAN, refused \in SUBSET Switch :
            /\ CleanUp(refused, on /\ (outer.capture => "capture" \in refused))
            /\ failed' = refused \cup (IF outer.capture THEN {} ELSE {"capture"})
        BY <1>2 DEF CaptureFails
    <2> DEFINE capture == on /\ (outer.capture => "capture" \in refused)
    <2>2. capture \in BOOLEAN /\ refused \subseteq failed'
        BY <2>1
    <2>3. capture => "capture" \in failed'
        BY <2>1
    <2>4. CleanUp(refused, capture)
        BY <2>1
    <2> HIDE DEF capture
    <2>5. OuterOK' /\ \A s \in Switch : outer'[s] => s \in failed'
        BY <2>2, <2>3, <2>4, CleanUpLeaves DEF IInv
    <2>6. pc' = "out" /\ result' = "error"
        BY <1>2 DEF CaptureFails
    <2>7. QED
        BY <2>5, <2>6 DEF IInv, Fresh, Outcome, Captures, Left
<1>3. CASE LoopFails
    BY <1>3, LeaveKeeps DEF LoopFails
<1>4. QED
    BY <1>1, <1>2, <1>3 DEF Fault

LEMMA StepKeeps == IInv /\ [Next]_vars => IInv'
<1>1. ASSUME IInv, UNCHANGED vars PROVE IInv'
    BY <1>1, Elsewhere DEF vars, user, emulator
<1>2. ASSUME IInv, PollInterrupted PROVE IInv'
    BY <1>2, Elsewhere DEF PollInterrupted, user, emulator
<1>3. QED
    BY <1>1, <1>2, OthersKeep, TurnKeeps, FaultKeeps DEF Next

(***************************************************************************)
(* The reports.  An event is encoded for the modes there are when it is    *)
(* read, and the record of a write says which they were.                   *)
(***************************************************************************)

Mouse == {"down", "up", "drag", "move", "scroll"}

\* What ReportsDecode says of one write.
Decodes(r) ==
    r.kind = "mouse" =>
        /\ r.encoding = "sgr" => (r.data[4] = ReleaseByte <=> r.of.kind = "up")
        /\ Where(r) = [col |-> r.of.col, row |-> r.of.row]
        /\ r.data[1] = IF r.encoding = "sgr" THEN Code(r.of)
                       ELSE 32 + IF r.of.kind = "up" THEN 3 ELSE Code(r.of)
        /\ r.of.kind \in CASE r.tracking = "any" -> {"down", "up", "scroll", "drag", "move"}
                           [] r.tracking = "button" -> {"down", "up", "scroll", "drag"}
                           [] r.tracking = "normal" -> {"down", "up", "scroll"}

WrittenOK == (\E S : written \in Seq(S)) /\ \A i \in DOMAIN written : Decodes(written[i])

\* A write is added to those before it and changes none of them.
LEMMA WriteKeeps ==
    ASSUME WrittenOK, NEW r, Decodes(r), written' = Append(written, r)
    PROVE  WrittenOK'
<1>1. PICK T : written \in Seq(T)
    BY DEF WrittenOK
<1> DEFINE S == T \cup {r}
<1>2. written \in Seq(S) /\ Len(written) \in Nat /\ DOMAIN written = 1..Len(written)
    BY <1>1, SeqMonotonic, LenProperties
<1>3. /\ Append(written, r) \in Seq(S) /\ Len(Append(written, r)) = Len(written) + 1
      /\ \A i \in 1..Len(written) : Append(written, r)[i] = written[i]
      /\ Append(written, r)[Len(written) + 1] = r
    BY <1>2, AppendProperties
<1>4. DOMAIN written' = 1..Len(written) + 1
    BY <1>3, LenProperties
<1>5. \A i \in DOMAIN written' : Decodes(written'[i])
    BY <1>2, <1>3, <1>4 DEF WrittenOK
<1>6. QED
    BY <1>3, <1>5 DEF WrittenOK

\* The numbers of a report, for every encoding: up to column and row 223 the old one
\* has a byte for each, and beyond it says nothing.
LEMMA NumbersDecode ==
    ASSUME NEW e \in Event, NEW t, e.kind \notin Key, MouseNumbers(e, t) # <<>>
    PROVE  Decodes([kind |-> "mouse", data |-> MouseNumbers(e, t), of |-> e,
                    encoding |-> MouseEncoding(t), tracking |-> Tracking(t)])
<1> DEFINE n == MouseNumbers(e, t)
           legacy == IF e.kind = "up" THEN 3 ELSE Code(e)
           r == [kind |-> "mouse", data |-> n, of |-> e,
                 encoding |-> MouseEncoding(t), tracking |-> Tracking(t)]
<1>1. /\ e.kind \in Mouse /\ e.button \in Nat /\ e.mods \in Nat /\ e.col \in Nat /\ e.row \in Nat
    BY ConstantsOK DEF Mouse
<1>2. Code(e) \in Nat /\ legacy \in Nat
    BY <1>1 DEF Code
<1>3. Reported(e, Tracking(t))
    BY DEF MouseNumbers
<1>4. e.kind \in CASE Tracking(t) = "any" -> {"down", "up", "scroll", "drag", "move"}
                   [] Tracking(t) = "button" -> {"down", "up", "scroll", "drag"}
                   [] Tracking(t) = "normal" -> {"down", "up", "scroll"}
    BY <1>1, <1>3 DEF Reported, Tracking, Mouse
<1>5. ASSUME Where(r) = [col |-> e.col, row |-> e.row],
             n[1] = IF MouseEncoding(t) = "sgr" THEN Code(e) ELSE 32 + legacy,
             MouseEncoding(t) = "sgr" => (n[4] = ReleaseByte <=> e.kind = "up")
      PROVE  Decodes(r)
    BY <1>4, <1>5 DEF Decodes
<1>6. CASE MouseEncoding(t) = "sgr"
    <2>1. n = <<Code(e), e.col + 1, e.row + 1,
                IF e.kind = "up" THEN ReleaseByte ELSE PressByte>>
        BY <1>3, <1>6 DEF MouseNumbers
    <2>2. n[4] = ReleaseByte <=> e.kind = "up"
        BY <2>1 DEF ReleaseByte, PressByte
    <2>3. n[1] = Code(e) /\ n[2] = e.col + 1 /\ n[3] = e.row + 1
        BY <2>1
    <2>4. Where(r) = [col |-> e.col, row |-> e.row]
        BY <1>1, <1>6, <2>3 DEF Where
    <2>5. QED
        BY <1>5, <1>6, <2>2, <2>3, <2>4
<1>7. CASE MouseEncoding(t) = "urxvt"
    <2>1. n = <<legacy + 32, e.col + 1, e.row + 1>>
        BY <1>3, <1>7 DEF MouseNumbers
    <2>2. QED
        BY <1>1, <1>2, <1>5, <1>7, <2>1 DEF Where
<1>8. CASE MouseEncoding(t) = "x10"
    <2>1. n = LegacyBytes(e, legacy)
        BY <1>3, <1>8 DEF MouseNumbers
    <2>2. /\ e.col + 1 <= 223 /\ e.row + 1 <= 223 /\ legacy + 32 <= 255
          /\ n = <<Byte(legacy + 32), Byte(e.col + 1 + 32), Byte(e.row + 1 + 32)>>
        <3>1. CASE e.col + 1 > 223 \/ e.row + 1 > 223 \/ legacy + 32 > 255
            BY <2>1, <3>1 DEF LegacyBytes
        <3>2. CASE ~(e.col + 1 > 223 \/ e.row + 1 > 223 \/ legacy + 32 > 255)
            <4>1. n = <<Byte(legacy + 32), Byte(e.col + 1 + 32), Byte(e.row + 1 + 32)>>
                BY <2>1, <3>2 DEF LegacyBytes
            <4>2. e.col + 1 <= 223 /\ e.row + 1 <= 223 /\ legacy + 32 <= 255
                BY <1>1, <1>2, <3>2
            <4>3. QED
                BY <4>1, <4>2
        <3>3. QED
            BY <3>1, <3>2
    <2>3. \A k \in 0..255 : Byte(k) = k
        BY DEF Byte
    <2>4. n = <<legacy + 32, e.col + 1 + 32, e.row + 1 + 32>>
        BY <1>1, <1>2, <2>2, <2>3
    <2>5. QED
        BY <1>1, <1>2, <1>5, <1>8, <2>4 DEF Where
<1>9. QED
    BY <1>6, <1>7, <1>8 DEF MouseEncoding

\* One event of the user's, a key or the mouse: if anything is written, it decodes.
LEMMA ReadTtyKeeps ==
    ASSUME WrittenOK, ReadTty
    PROVE  WrittenOK'
<1>1. PICK e \in Event :
        IF Encoded(e) = <<>> THEN UNCHANGED <<written, unread>> ELSE Write(Encoded(e)[1])
    BY DEF ReadTty
<1>2. CASE Encoded(e) = <<>>
    BY <1>1, <1>2 DEF WrittenOK
<1>3. CASE Encoded(e) # <<>>
    <2>1. written' = Append(written, Encoded(e)[1])
        BY <1>1, <1>3 DEF Write
    <2>2. Decodes(Encoded(e)[1])
        <3>1. CASE e.kind \in Key
            BY <3>1 DEF Encoded, Decodes
        <3>2. CASE e.kind \notin Key
            <4>1. /\ MouseNumbers(e, term) # <<>>
                  /\ Encoded(e)[1] = [kind |-> "mouse", data |-> MouseNumbers(e, term), of |-> e,
                                      encoding |-> MouseEncoding(term), tracking |-> Tracking(term)]
                BY <1>3, <3>2 DEF Encoded
            <4>2. QED
                BY <3>2, <4>1, NumbersDecode
        <3>3. QED
            BY <3>1, <3>2
    <2>3. QED
        BY <2>1, <2>2, WriteKeeps
<1>4. QED
    BY <1>2, <1>3

\* Nothing but answers and events is ever written.
LEMMA WrittenStays == WrittenOK /\ [Next]_vars => WrittenOK'
<1> SUFFICES ASSUME WrittenOK, [Next]_vars PROVE WrittenOK'
    OBVIOUS
<1>1. CASE WriteAnswer
    <2>1. written' = Append(written, [kind |-> "answer", data |-> Head(responses)])
        BY <1>1 DEF WriteAnswer, Write
    <2>2. Decodes([kind |-> "answer", data |-> Head(responses)])
        BY DEF Decodes
    <2>3. QED
        BY <2>1, <2>2, WriteKeeps
<1>2. CASE ReadTty
    BY <1>2, ReadTtyKeeps
<1>3. CASE written' = written
    BY <1>3 DEF WrittenOK
<1>4. QED
    BY <1>1, <1>2, <1>3
    DEF vars, toApp, Next, App, AppReads, AppEnds, AppWrites, UserActs, WindowChanges, Turn, Start,
        SeeResized, ReadSize, ApplySize, Poll, PollInterrupted, ReadPty, ReadPtyEnds, NoPty,
        AnswersWritten, NoTty, Draw, Fault, StartFails, CaptureFails, LoopFails

\* Every report of the mouse says where it was and what it did, wherever that was and
\* whatever the encoding (encode_mouse): at the edge of what a byte holds nothing wraps.
THEOREM ReportsHold == Spec => []ReportsDecode
<1>1. Init => WrittenOK
    <2>1. ASSUME Init PROVE written \in Seq({}) /\ DOMAIN written = {}
        BY <2>1 DEF Init
    <2>2. QED
        BY <2>1 DEF WrittenOK
<1>2. WrittenOK => ReportsDecode
    BY DEF WrittenOK, Decodes, ReportsDecode
<1>3. QED
    BY <1>1, <1>2, WrittenStays, PTL DEF Spec

(***************************************************************************)
(* The stream.  Induction is over numbers, and over sets of them: the      *)
(* theorems that take a predicate cannot be cited.                         *)
(***************************************************************************)

\* < on the naturals.
Below == OpToRel(<, Nat)

\* Among some naturals there is a least: induction without an operator parameter.
LEMMA LeastNumber ==
    ASSUME NEW T \in SUBSET Nat, T # {}
    PROVE  \E m \in T : \A k \in T : m <= k
<1>1. IsWellFoundedOn(Below, Nat)
    BY NatLessThanWellFounded DEF Below
<1>2. PICK m \in T : \A k \in T : ~ (<<k, m>> \in Below)
    BY <1>1, WFMin
<1>3. \A k \in T : k < m => <<k, m>> \in Below
    BY DEF Below, OpToRel
<1>4. \A k \in T : ~ (k < m)
    BY <1>2, <1>3
<1>5. QED
    BY <1>4

\* A set that has 0 and with every number the next one has all up to n.
LEMMA Climb ==
    ASSUME NEW n \in Nat, NEW S, 0 \in S, \A i \in 1..n : i - 1 \in S => i \in S
    PROVE  \A i \in 0..n : i \in S
<1> DEFINE Bad == {i \in 0..n : i \notin S}
<1>1. SUFFICES ASSUME Bad # {} PROVE FALSE
    OBVIOUS
<1>2. Bad \in SUBSET Nat
    OBVIOUS
<1>3. PICK m \in Bad : \A k \in Bad : m <= k
    <2> HIDE DEF Bad
    <2>1. QED
        BY <1>1, <1>2, LeastNumber
<1>4. m \in 1..n /\ m - 1 \in 0..n /\ ~ (m <= m - 1)
    BY <1>3
<1>5. QED
    BY <1>3, <1>4

(***************************************************************************)
(* What one byte does.                                                     *)
(***************************************************************************)

\* The bytes there are: the app's, and those the filter puts in their place.
Octet == {"ESC", "H", "line"} \cup UNION {ToSet(i.bytes) : i \in Item}
Bytes == Seq(Octet)
Terms == [state : TermStates, g0 : BOOLEAN, g1 : BOOLEAN, usingG1 : BOOLEAN,
          cursorKeys : BOOLEAN, mouse : SUBSET MouseModes, csi : Bytes]
Reply == [query : Bytes, value : Nat]
World == [term : Terms, fed : Bytes, out : Bytes, replies : Seq(Reply), size : Nat]

\* Concatenation as an operator the provers do not look into.
Cat(s, t) == s \o t

LEMMA Join ==
    ASSUME NEW s \in Bytes, NEW t \in Bytes
    PROVE  Cat(s, t) \in Bytes /\ Cat(s, <<>>) = s
BY ConcatProperties, ConcatEmptySeq DEF Bytes, Cat

LEMMA JoinThree ==
    ASSUME NEW s \in Bytes, NEW t \in Bytes, NEW u \in Bytes
    PROVE  Cat(Cat(s, t), u) = Cat(s, Cat(t, u))
<1>1. (s \o t) \o u = s \o (t \o u)
    BY ConcatAssociative DEF Bytes
<1>2. QED
    BY <1>1, Zenon DEF Cat

\* What the vt100 parser has or is about to get.
Shown(w) == Cat(w.fed, w.out)

\* v is w with another emulator and some bytes more for the vt100 parser, unfed.
Moves(w, v, t, more) ==
    /\ v \in World /\ v.term = t
    /\ Shown(v) = Cat(Shown(w), more)
    /\ v.replies = w.replies

\* v is w with what is there and some bytes more fed, and an answer given.
Answers(w, v, t, more, r) ==
    /\ v \in World /\ v.term = t
    /\ Shown(v) = Cat(Shown(w), more)
    /\ v.replies = Append(w.replies, r)

LEMMA ShownOK ==
    ASSUME NEW w \in World
    PROVE  /\ Shown(w) \in Bytes
           /\ w.fed \in Bytes /\ w.out \in Bytes
           /\ w.term \in Terms /\ w.replies \in Seq(Reply) /\ w.size \in Nat
<1>1. w.fed \in Bytes /\ w.out \in Bytes /\ w.term \in Terms /\ w.replies \in Seq(Reply) /\ w.size \in Nat
    BY DEF World
<1>2. QED
    BY <1>1, Join, Zenon DEF Shown

\* The fields of a world are all there is of it.
LEMMA WorldMoves ==
    ASSUME NEW w \in World, NEW t \in Terms, NEW more \in Bytes, NEW v,
           v = [w EXCEPT !.term = t, !.out = @ \o more]
    PROVE  Moves(w, v, t, more)
<1>1. v = [w EXCEPT !.term = t, !.out = Cat(w.out, more)]
    BY Zenon DEF Cat
<1>2. w.fed \in Bytes /\ w.out \in Bytes
    BY ShownOK
<1>3. Cat(w.out, more) \in Bytes
    BY <1>2, Join
<1>4. /\ v.term = t /\ v.fed = w.fed /\ v.out = Cat(w.out, more)
      /\ v.replies = w.replies /\ v.size = w.size
    BY <1>1 DEF World
<1>5. v \in World
    BY <1>1, <1>3 DEF World
<1>6. Cat(Cat(w.fed, w.out), more) = Cat(w.fed, Cat(w.out, more))
    BY <1>2, JoinThree
<1>7. QED
    BY <1>4, <1>5, <1>6, Zenon DEF Moves, Shown

\* ... and without bytes.
LEMMA WorldGoes ==
    ASSUME NEW w \in World, NEW t \in Terms, NEW v, v = [w EXCEPT !.term = t]
    PROVE  Moves(w, v, t, <<>>)
<1>1. v \in World /\ v.term = t /\ v.fed = w.fed /\ v.out = w.out /\ v.replies = w.replies
    BY DEF World
<1>2. Cat(Shown(w), <<>>) = Shown(w)
    BY ShownOK, Join, Zenon
<1>3. QED
    BY <1>1, <1>2, Zenon DEF Moves, Shown

Text(t, b) == IF DecActive(t) /\ b = "q" THEN "line" ELSE b

LEMMA InGroundMoves ==
    ASSUME NEW w \in World, NEW b \in Octet, NEW v, v = InGround(w, b)
    PROVE  /\ b = "ESC" => Moves(w, v, [w.term EXCEPT !.state = "escape"], <<>>)
           /\ b = "SO" => Moves(w, v, [w.term EXCEPT !.usingG1 = TRUE], <<>>)
           /\ b = "SI" => Moves(w, v, [w.term EXCEPT !.usingG1 = FALSE], <<>>)
           /\ b \notin {"ESC", "SO", "SI"} => Moves(w, v, w.term, <<Text(w.term, b)>>)
<1>1. w.term \in Terms
    BY DEF World
<1>2. CASE b = "ESC"
    <2>1. v = [w EXCEPT !.term = [w.term EXCEPT !.state = "escape"]]
        BY <1>2 DEF InGround, Go
    <2>2. [w.term EXCEPT !.state = "escape"] \in Terms
        BY <1>1 DEF Terms, TermStates
    <2>3. QED
        BY <1>2, <2>1, <2>2, WorldGoes
<1>3. CASE b = "SO"
    <2>1. v = [w EXCEPT !.term = [w.term EXCEPT !.usingG1 = TRUE]]
        BY <1>3 DEF InGround
    <2>2. [w.term EXCEPT !.usingG1 = TRUE] \in Terms
        BY <1>1 DEF Terms
    <2>3. QED
        BY <1>3, <2>1, <2>2, WorldGoes
<1>4. CASE b = "SI"
    <2>1. v = [w EXCEPT !.term = [w.term EXCEPT !.usingG1 = FALSE]]
        BY <1>4 DEF InGround
    <2>2. [w.term EXCEPT !.usingG1 = FALSE] \in Terms
        BY <1>1 DEF Terms
    <2>3. QED
        BY <1>4, <2>1, <2>2, WorldGoes
<1>5. CASE b \notin {"ESC", "SO", "SI"}
    <2>1. (IF b \notin Control /\ DecActive(w.term) THEN Graphic(b) ELSE b) = Text(w.term, b)
        BY <1>5 DEF Control, Graphic, Text
    <2>2. v = Push(w, <<Text(w.term, b)>>)
        BY <1>5, <2>1 DEF InGround
    <2>3. v = [w EXCEPT !.term = w.term, !.out = @ \o <<Text(w.term, b)>>]
        BY <2>2 DEF Push, World
    <2>4. Text(w.term, b) \in Octet
        BY DEF Text, Octet
    <2>6. <<Text(w.term, b)>> \in Bytes
        BY <2>4 DEF Bytes
    <2>5. QED
        BY <1>1, <1>5, <2>3, <2>6, WorldMoves
<1>6. QED
    BY <1>2, <1>3, <1>4, <1>5

\* A step to another state, with bytes for the vt100 parser.
LEMMA GoesOn ==
    ASSUME NEW w \in World, NEW more \in Bytes, NEW s \in TermStates, NEW v,
           v = Go(Push(w, more), s)
    PROVE  Moves(w, v, [w.term EXCEPT !.state = s], more)
<1>1. [w.term EXCEPT !.state = s] \in Terms
    BY ShownOK DEF Terms
<1>2. v = [w EXCEPT !.term = [w.term EXCEPT !.state = s], !.out = @ \o more]
    BY DEF Go, Push, World
<1>3. QED
    BY <1>1, <1>2, WorldMoves

LEMMA Opening ==
    ASSUME NEW b \in Octet
    PROVE  <<"ESC", b>> \in Bytes /\ <<b>> \in Bytes /\ <<"H">> \in Bytes
BY DEF Bytes, Octet

LEMMA InEscapeMoves ==
    ASSUME NEW w \in World, NEW b \in Octet, NEW v, v = InEscape(w, b)
    PROVE  /\ b \in {"(", ")"} => Moves(w, v, [w.term EXCEPT !.state = b], <<>>)
           /\ b = "[" => Moves(w, v, [w.term EXCEPT !.state = "csi", !.csi = <<>>], <<"ESC", b>>)
           /\ b \in {"]", "P"} => Moves(w, v, [w.term EXCEPT !.state = "string"], <<"ESC", b>>)
           /\ b \notin {"(", ")", "[", "]", "P"} =>
                Moves(w, v, [w.term EXCEPT !.state = "ground"], <<"ESC", b>>)
<1>1. w.term \in Terms
    BY ShownOK
<1>2. CASE b \in {"(", ")"}
    <2>1. v = [w EXCEPT !.term = [w.term EXCEPT !.state = b]]
        BY <1>2 DEF InEscape, Go
    <2>2. [w.term EXCEPT !.state = b] \in Terms
        BY <1>1, <1>2 DEF Terms, TermStates
    <2>3. QED
        BY <1>2, <2>1, <2>2, WorldGoes
<1>3. CASE b = "["
    <2>1. v = [Go(Push(w, <<"ESC", b>>), "csi") EXCEPT !.term.csi = <<>>]
        BY <1>3 DEF InEscape
    <2> DEFINE t == [w.term EXCEPT !.state = "csi", !.csi = <<>>]
    <2>2. v = [w EXCEPT !.term = t, !.out = @ \o <<"ESC", b>>]
        BY <1>1, <2>1 DEF Go, Push, World, Terms
    <2>3. t \in Terms
        <3>1. <<>> \in Bytes
            BY DEF Bytes
        <3>2. QED
            BY <1>1, <3>1 DEF Terms, TermStates
    <2>4. QED
        BY <1>3, <2>2, <2>3, Opening, WorldMoves
<1>4. CASE b \in {"]", "P"}
    <2>1. v = Go(Push(w, <<"ESC", b>>), "string") /\ "string" \in TermStates
        BY <1>4 DEF InEscape, TermStates
    <2>2. QED
        BY <1>4, <2>1, Opening, GoesOn
<1>5. CASE b \notin {"(", ")", "[", "]", "P"}
    <2>1. v = Go(Push(w, <<"ESC", b>>), "ground") /\ "ground" \in TermStates
        BY <1>5 DEF InEscape, TermStates
    <2>2. QED
        BY <1>5, <2>1, Opening, GoesOn
<1>6. QED
    BY <1>2, <1>3, <1>4, <1>5

LEMMA InCharsetMoves ==
    ASSUME NEW w \in World, NEW b \in Octet, NEW v, v = InCharset(w, b)
    PROVE  /\ w.term.state = "(" =>
                Moves(w, v, [w.term EXCEPT !.state = "ground", !.g0 = (b = "0")], <<>>)
           /\ w.term.state # "(" =>
                Moves(w, v, [w.term EXCEPT !.state = "ground", !.g1 = (b = "0")], <<>>)
<1>1. w.term \in Terms
    BY ShownOK
<1>2. CASE w.term.state = "("
    <2> DEFINE t == [w.term EXCEPT !.state = "ground", !.g0 = (b = "0")]
    <2>1. v = [w EXCEPT !.term = t]
        BY <1>1, <1>2 DEF InCharset, Go, World, Terms
    <2>2. t \in Terms
        BY <1>1 DEF Terms, TermStates
    <2>3. QED
        BY <1>2, <2>1, <2>2, WorldGoes
<1>3. CASE w.term.state # "("
    <2> DEFINE t == [w.term EXCEPT !.state = "ground", !.g1 = (b = "0")]
    <2>1. v = [w EXCEPT !.term = t]
        BY <1>1, <1>3 DEF InCharset, Go, World, Terms
    <2>2. t \in Terms
        BY <1>1 DEF Terms, TermStates
    <2>3. QED
        BY <1>3, <2>1, <2>2, WorldGoes
<1>4. QED
    BY <1>2, <1>3

LEMMA InStringMoves ==
    ASSUME NEW w \in World, NEW b \in Octet, NEW v, v = InString(w, b)
    PROVE  Moves(w, v, [w.term EXCEPT !.state = CASE b = "BEL" -> "ground"
                                                  [] b = "ESC" -> "stringEscape"
                                                  [] OTHER -> "string"], <<b>>)
<1> DEFINE s == CASE b = "BEL" -> "ground" [] b = "ESC" -> "stringEscape" [] OTHER -> "string"
<1>1. v = Go(Push(w, <<b>>), s)
    BY DEF InString
<1>2. s \in TermStates
    BY DEF TermStates
<1> HIDE DEF s
<1>3. Moves(w, v, [w.term EXCEPT !.state = s], <<b>>)
    BY <1>1, <1>2, Opening, GoesOn
<1>4. QED
    BY <1>3 DEF s

LEMMA InStringEscapeMoves ==
    ASSUME NEW w \in World, NEW b \in Octet, NEW v, v = InStringEscape(w, b)
    PROVE  Moves(w, v, [w.term EXCEPT !.state = IF b = "\\" THEN "ground" ELSE "string"], <<b>>)
<1> DEFINE s == IF b = "\\" THEN "ground" ELSE "string"
<1>1. v = Go(Push(w, <<b>>), s)
    BY DEF InStringEscape
<1>2. s \in TermStates
    BY DEF TermStates
<1> HIDE DEF s
<1>3. Moves(w, v, [w.term EXCEPT !.state = s], <<b>>)
    BY <1>1, <1>2, Opening, GoesOn
<1>4. QED
    BY <1>3 DEF s

\* The emulator when the sequence c is complete.
Completed(t, c) ==
    [t EXCEPT !.mouse = PrivateModes(@, c), !.state = "ground", !.csi = <<>>,
              !.cursorKeys = CASE c = <<"?", "1", "h">> -> TRUE
                               [] c = <<"?", "1", "l">> -> FALSE
                               [] OTHER -> @]

LEMMA CompletedOK ==
    ASSUME NEW t \in Terms, NEW c
    PROVE  Completed(t, c) \in Terms
<1>1. PrivateModes(t.mouse, c) \in SUBSET MouseModes
    <2>1. t.mouse \in SUBSET MouseModes
        BY DEF Terms
    <2>2. QED
        BY <2>1 DEF PrivateModes
<1>2. <<>> \in Bytes /\ "ground" \in TermStates
    BY DEF Bytes, TermStates
<1> DEFINE keys == CASE c = <<"?", "1", "h">> -> TRUE
                     [] c = <<"?", "1", "l">> -> FALSE
                     [] OTHER -> t.cursorKeys
<1>3. keys \in BOOLEAN
    <2>1. t.cursorKeys \in BOOLEAN
        BY DEF Terms
    <2>2. QED
        BY <2>1
<1>4. Completed(t, c) = [t EXCEPT !.mouse = PrivateModes(t.mouse, c), !.state = "ground",
                                  !.csi = <<>>, !.cursorKeys = keys]
    BY DEF Completed
<1> HIDE DEF keys
<1>5. QED
    BY <1>1, <1>2, <1>3, <1>4 DEF Terms

Drawn(b) == <<IF b = "f" THEN "H" ELSE b>>

\* The answer to the query c of an app that has drawn so much.
AnswerTo(c, shown, sz) == [query |-> c, value |-> IF c = CursorQuery THEN Len(shown) ELSE sz]

\* Everything is fed before the answer is given.
LEMMA CsiCompleteAnswers ==
    ASSUME NEW w \in World, w.term.csi \in {CursorQuery, SizeQuery}, NEW v, v = CsiComplete(w)
    PROVE  /\ v \in World /\ v.term = Completed(w.term, w.term.csi)
           /\ Shown(v) = Shown(w)
           /\ v.replies = Append(w.replies, AnswerTo(w.term.csi, Shown(w), w.size))
<1> DEFINE t == Completed(w.term, w.term.csi)
           r == AnswerTo(w.term.csi, Shown(w), w.size)
           f == [w EXCEPT !.fed = Shown(w), !.out = <<>>]
<1>1. /\ w.term \in Terms /\ w.fed \in Bytes /\ w.out \in Bytes /\ Shown(w) \in Bytes
      /\ w.replies \in Seq(Reply) /\ w.size \in Nat /\ w.term.csi \in Bytes
    BY ShownOK DEF Terms
<1>2. Feed(w) = f
    <2>1. w.fed \o w.out = Shown(w)
        BY Zenon DEF Shown, Cat
    <2>2. QED
        BY <2>1 DEF Feed
<1>3. f.fed = Shown(w) /\ f.term = w.term /\ f.size = w.size /\ f.replies = w.replies /\ f.out = <<>>
    BY DEF World
<1>4. Answer(f) = r
    <2> HIDE DEF f
    <2>1. QED
        BY <1>3 DEF Answer, AnswerTo
<1>5. v = [f EXCEPT !.term = t, !.replies = Append(@, r)]
    BY <1>2, <1>4 DEF CsiComplete, Completed
<1>6. t \in Terms
    BY <1>1, CompletedOK
<1>7. r \in Reply
    <2>1. Len(Shown(w)) \in Nat
        BY <1>1, LenProperties DEF Bytes
    <2>2. QED
        BY <1>1, <2>1 DEF Reply, AnswerTo
<1>8. Append(w.replies, r) \in Seq(Reply)
    BY <1>1, <1>7, AppendProperties
<1> DEFINE rs == Append(w.replies, r)
<1> HIDE DEF t, r, rs
<1>9. v.term = t /\ v.fed = Shown(w) /\ v.out = <<>> /\ v.replies = rs /\ v.size = w.size
    BY <1>3, <1>5 DEF World, rs
<1>10. v \in World
    <2>1. <<>> \in Bytes /\ rs \in Seq(Reply)
        BY <1>8 DEF Bytes, rs
    <2>2. v = [term |-> t, fed |-> Shown(w), out |-> <<>>, replies |-> rs, size |-> w.size]
        BY <1>5, <1>3 DEF World, rs
    <2>3. QED
        BY <1>1, <1>6, <2>1, <2>2 DEF World
<1>11. Shown(v) = Shown(w)
    BY <1>1, <1>9, Join, Zenon DEF Shown
<1>12. QED
    BY <1>9, <1>10, <1>11, Zenon DEF t, r, rs

LEMMA InCsiMoves ==
    ASSUME NEW w \in World, NEW b \in Octet, NEW v, v = InCsi(w, b),
           NEW c, c = Append(w.term.csi, b)
    PROVE  /\ b \notin Final => Moves(w, v, [w.term EXCEPT !.csi = c], Drawn(b))
           /\ b \in Final /\ c \notin {CursorQuery, SizeQuery} =>
                Moves(w, v, Completed(w.term, c), Drawn(b))
           /\ b \in Final /\ c \in {CursorQuery, SizeQuery} =>
                Answers(w, v, Completed(w.term, c), Drawn(b),
                        AnswerTo(c, Cat(Shown(w), Drawn(b)), w.size))
<1> DEFINE t == [w.term EXCEPT !.csi = c]
           u == [Push(w, Drawn(b)) EXCEPT !.term.csi = Append(@, b)]
<1>1. w.term \in Terms /\ w.term.csi \in Bytes
    BY ShownOK DEF Terms
<1>2. c \in Bytes
    BY <1>1, AppendProperties DEF Bytes
<1>3. t \in Terms /\ t.csi = c
    BY <1>1, <1>2 DEF Terms
<1>4. Drawn(b) \in Bytes
    BY DEF Drawn, Bytes, Octet
<1>5. u = [w EXCEPT !.term = t, !.out = @ \o Drawn(b)]
    BY DEF Push, World
<1>6. v = IF b \in Final THEN CsiComplete(u) ELSE u
    BY DEF InCsi, Drawn
<1> HIDE DEF t, u
<1>7. Moves(w, u, t, Drawn(b))
    BY <1>3, <1>4, <1>5, WorldMoves
<1>8. u \in World /\ u.term = t /\ u.term.csi = c /\ u.size = w.size
      /\ Completed(t, c) = Completed(w.term, c)
    <2>1. u \in World /\ u.term = t
        BY <1>7 DEF Moves
    <2>2. u.size = w.size
        BY <1>5 DEF World
    <2>3. Completed(t, c) = Completed(w.term, c)
        BY <1>1 DEF t, Completed, Terms
    <2>4. QED
        BY <1>3, <2>1, <2>2, <2>3
<1>9. CASE b \notin Final
    BY <1>6, <1>7, <1>9 DEF t
<1>10. CASE b \in Final /\ c \notin {CursorQuery, SizeQuery}
    <2>1. v = [u EXCEPT !.term = Completed(u.term, c)]
        BY <1>6, <1>8, <1>10 DEF CsiComplete, Completed
    <2>2. Completed(u.term, c) \in Terms
        BY <1>3, <1>8, CompletedOK
    <2>3. Moves(u, v, Completed(u.term, c), <<>>)
        BY <1>8, <2>1, <2>2, WorldGoes
    <2>4. Shown(v) = Shown(u)
        BY <1>8, <2>3, ShownOK, Join, Zenon DEF Moves
    <2>5. QED
        BY <1>7, <1>8, <1>10, <2>3, <2>4 DEF Moves
<1>11. CASE b \in Final /\ c \in {CursorQuery, SizeQuery}
    <2>1. v = CsiComplete(u)
        BY <1>6, <1>11
    <2>2. /\ v \in World /\ v.term = Completed(u.term, c) /\ Shown(v) = Shown(u)
          /\ v.replies = Append(u.replies, AnswerTo(c, Shown(u), u.size))
        BY <1>8, <1>11, <2>1, CsiCompleteAnswers
    <2>3. Shown(u) = Cat(Shown(w), Drawn(b)) /\ u.replies = w.replies
        BY <1>7 DEF Moves
    <2>4. QED
        BY <1>8, <1>11, <2>2, <2>3 DEF Answers
<1>12. QED
    BY <1>9, <1>10, <1>11

(***************************************************************************)
(* What an item means, and where a reader is that has read a part of it.   *)
(***************************************************************************)

Sense == [fed : Bytes, g0 : BOOLEAN, g1 : BOOLEAN, usingG1 : BOOLEAN, cursorKeys : BOOLEAN,
          mouse : SUBSET MouseModes, replies : Seq(Nat)]

\* The first j bytes of a text, as they are shown.
Glyphs(m, b, j) ==
    [i \in 1..j |-> IF (IF m.usingG1 THEN m.g1 ELSE m.g0) /\ b[i] = "q" THEN "line" ELSE b[i]]

LEMMA ItemOK ==
    ASSUME NEW item \in Item
    PROVE  /\ item.bytes \in Bytes
           /\ Len(item.bytes) \in Nat \ {0}
           /\ DOMAIN item.bytes = 1..Len(item.bytes)
           /\ \A i \in 1..Len(item.bytes) : item.bytes[i] \in Octet
           /\ ToSet(item.bytes) = {item.bytes[i] : i \in 1..Len(item.bytes)}
<1>1. PICK s \in Script : item \in ToSet(s)
    BY DEF Item
<1>2. item.bytes \in Seq(STRING) /\ item.bytes # <<>>
    BY <1>1, ConstantsOK
<1> DEFINE T == STRING
<1>3. item.bytes \in Seq(T)
    BY <1>2
<1> HIDE DEF T
<1>4. Len(item.bytes) \in Nat /\ DOMAIN item.bytes = 1..Len(item.bytes)
    BY <1>3, LenProperties
<1>5. Len(item.bytes) # 0
    BY <1>2, <1>3, EmptySeq
<1>6. ToSet(item.bytes) = {item.bytes[i] : i \in 1..Len(item.bytes)}
    BY <1>4 DEF ToSet
<1>7. \A i \in 1..Len(item.bytes) : item.bytes[i] \in Octet
    BY <1>6 DEF Octet
<1>8. item.bytes = [i \in 1..Len(item.bytes) |-> item.bytes[i]]
    BY <1>3, <1>4, LenProperties
<1>9. item.bytes \in Bytes
    BY <1>3, <1>4, <1>7, <1>8, IsASeq DEF Bytes
<1>10. QED
    BY <1>4, <1>5, <1>6, <1>7, <1>9

\* What is shown after an item, and what else it changes.
LEMMA MeansShown ==
    ASSUME NEW m, NEW item
    PROVE  LET shown == [m EXCEPT !.fed = Cat(@, item.bytes)]
               on == Last(item.bytes) = "h" IN
           /\ item.op = "text" /\ DOMAIN item.bytes = 1..Len(item.bytes) =>
                Means(m, item) = [m EXCEPT !.fed = Cat(@, Glyphs(m, item.bytes, Len(item.bytes)))]
           /\ item.op = "shift" => Means(m, item) = [m EXCEPT !.usingG1 = ("SO" \in ToSet(item.bytes))]
           /\ item.op = "designate" =>
                Means(m, item) = IF "(" \in ToSet(item.bytes)
                                 THEN [m EXCEPT !.g0 = ("0" \in ToSet(item.bytes))]
                                 ELSE [m EXCEPT !.g1 = ("0" \in ToSet(item.bytes))]
           /\ item.op = "mode" =>
                Means(m, item) =
                    [shown EXCEPT !.cursorKeys = IF "1" \in ToSet(item.bytes) THEN on ELSE @,
                                  !.mouse = IF on THEN @ \cup (ToSet(item.bytes) \cap MouseModes)
                                            ELSE @ \ ToSet(item.bytes)]
           /\ item.op = "ask" =>
                Means(m, item) =
                    [shown EXCEPT !.replies = Append(@, IF "6" \in ToSet(item.bytes)
                                                        THEN Len(shown.fed) ELSE 0)]
           /\ item.op = "move" =>
                Means(m, item) = [m EXCEPT !.fed = Cat(Cat(@, Front(item.bytes)), <<"H">>)]
           /\ item.op = "string" => Means(m, item) = shown
<1>1. CASE item.op = "text"
    BY <1>1 DEF Means, Glyphs, Cat
<1>2. CASE item.op = "shift"
    BY <1>2 DEF Means
<1>3. CASE item.op = "designate"
    BY <1>3 DEF Means
<1>4. CASE item.op = "mode"
    BY <1>4 DEF Means, Cat
<1>5. CASE item.op = "ask"
    BY <1>5 DEF Means, Cat
<1>6. CASE item.op = "move"
    BY <1>6 DEF Means, Cat
<1>7. CASE item.op = "string"
    BY <1>7 DEF Means, Cat
<1>8. QED
    BY <1>1, <1>2, <1>3, <1>4, <1>5, <1>6, <1>7

Knows(m, t) ==
    /\ t.g0 = m.g0 /\ t.g1 = m.g1 /\ t.usingG1 = m.usingG1
    /\ t.cursorKeys = m.cursorKeys /\ t.mouse = m.mouse

\* Between two items: all that has come is understood.
Whole(m, t, shown, replies) ==
    /\ t.state = "ground" /\ Knows(m, t)
    /\ shown = m.fed /\ AnswersOf(replies) = m.replies

\* After j bytes of an item, neither none nor all of them.
Midway(m, item, j, t, shown, replies) ==
    /\ Knows(m, t) /\ AnswersOf(replies) = m.replies
    /\ \/ /\ item.op = "text" /\ t.state = "ground"
          /\ shown = Cat(m.fed, Glyphs(m, item.bytes, j))
       \/ item.op # "text" /\ j = 1 /\ t.state = "escape" /\ shown = m.fed
       \/ item.op = "designate" /\ j = 2 /\ t.state = item.bytes[2] /\ shown = m.fed
       \/ /\ item.op \in {"mode", "ask", "move"} /\ j >= 2
          /\ t.state = "csi" /\ t.csi = SubSeq(item.bytes, 3, j)
          /\ shown = Cat(m.fed, SubSeq(item.bytes, 1, j))
       \/ /\ item.op = "string" /\ j >= 2
          /\ t.state = IF j >= 3 /\ item.bytes[j] = "ESC" THEN "stringEscape" ELSE "string"
          /\ shown = Cat(m.fed, SubSeq(item.bytes, 1, j))

At(m, item, j, t, shown, replies) ==
    IF j = 0 THEN Whole(m, t, shown, replies)
    ELSE IF j = Len(item.bytes) THEN Whole(Means(m, item), t, shown, replies)
    ELSE Midway(m, item, j, t, shown, replies)

\* The next byte of a text is its glyph.
LEMMA GlyphsGrow ==
    ASSUME NEW m \in Sense, NEW item \in Item, NEW j \in 0..(Len(item.bytes) - 1)
    PROVE  LET dec == IF m.usingG1 THEN m.g1 ELSE m.g0
               x == item.bytes[j + 1]
               g == IF dec /\ x = "q" THEN "line" ELSE x IN
           /\ <<g>> \in Bytes
           /\ Glyphs(m, item.bytes, j) \in Bytes
           /\ Cat(Cat(m.fed, Glyphs(m, item.bytes, j)), <<g>>)
                = Cat(m.fed, Glyphs(m, item.bytes, j + 1))
<1> DEFINE b == item.bytes
           dec == IF m.usingG1 THEN m.g1 ELSE m.g0
           G(i) == IF dec /\ b[i] = "q" THEN "line" ELSE b[i]
<1>1. \A i \in 1..Len(b) : G(i) \in Octet
    BY ItemOK DEF Octet
<1>2. Len(b) \in Nat \ {0} /\ j \in Nat /\ j + 1 \in 1..Len(b) /\ m.fed \in Bytes
    BY ItemOK DEF Sense
<1> HIDE DEF G
<1>3. Glyphs(m, b, j) = [i \in 1..j |-> G(i)] /\ Glyphs(m, b, j + 1) = [i \in 1..(j + 1) |-> G(i)]
    BY DEF Glyphs, G
<1> HIDE DEF b
<1>4. [i \in 1..j |-> G(i)] \in Bytes /\ Len([i \in 1..j |-> G(i)]) = j
    <2>1. \A i \in 1..j : G(i) \in Octet
        BY <1>1, <1>2
    <2>2. QED
        BY <1>2, <2>1, IsASeq DEF Bytes
<1>5. Append([i \in 1..j |-> G(i)], G(j + 1)) = [i \in 1..(j + 1) |-> G(i)]
    <2> DEFINE s == [i \in 1..j |-> G(i)]
               e == G(j + 1)
               l == [i \in 1..(j + 1) |-> G(i)]
    <2>1. G(j + 1) \in Octet
        BY <1>1, <1>2
    <2>2. l \in Bytes /\ Len(l) = j + 1
        <3>1. \A i \in 1..(j + 1) : G(i) \in Octet
            BY <1>1, <1>2
        <3>2. QED
            BY <1>2, <3>1, IsASeq DEF Bytes
    <2>3. \A i \in 1..j : s[i] = l[i]
        OBVIOUS
    <2>4. l[j + 1] = e
        BY <1>2
    <2>5. s \in Bytes /\ Len(s) = j
        BY <1>4
    <2> HIDE DEF s, e, l
    <2>6. /\ Append(s, e) \in Bytes /\ Len(Append(s, e)) = j + 1
          /\ \A i \in 1..j : Append(s, e)[i] = s[i]
          /\ Append(s, e)[j + 1] = e
        BY <2>1, <2>5, AppendProperties DEF Bytes, e
    <2>7. \A i \in 1..(j + 1) : Append(s, e)[i] = l[i]
        BY <1>2, <2>3, <2>4, <2>6
    <2>8. Append(s, e) = l
        BY <2>2, <2>6, <2>7, SeqEqual DEF Bytes
    <2>9. QED
        BY <2>8 DEF s, e, l
<1>6. G(j + 1) \in Octet
    BY <1>1, <1>2
<1>7. <<G(j + 1)>> \in Bytes
    BY <1>6 DEF Bytes
<1>8. Cat(Glyphs(m, b, j), <<G(j + 1)>>) = Glyphs(m, b, j + 1)
    <2>1. Cat(Glyphs(m, b, j), <<G(j + 1)>>) = Append(Glyphs(m, b, j), G(j + 1))
        BY <1>3, <1>4, <1>6, AppendIsConcat, Zenon DEF Cat, Bytes
    <2>2. QED
        BY <1>3, <1>5, <2>1, Zenon
<1>9. Glyphs(m, b, j) \in Bytes
    BY <1>3, <1>4, Zenon
<1>10. Cat(Cat(m.fed, Glyphs(m, b, j)), <<G(j + 1)>>) = Cat(m.fed, Cat(Glyphs(m, b, j), <<G(j + 1)>>))
    BY <1>2, <1>7, <1>9, JoinThree
<1>11. QED
    BY <1>7, <1>8, <1>9, <1>10, Zenon DEF G, b

\* w has j bytes of the item, and v is w after the next of them.
Reads(m, item, j, w, v, before) ==
    /\ m \in Sense /\ item \in Item /\ WellFormed(item) /\ j \in 0..(Len(item.bytes) - 1)
    /\ w \in World /\ v = ProcessByte(w, item.bytes[j + 1])
    /\ At(m, item, j, w.term, Shown(w), Cat(before, w.replies))

\* What that says of the values there are.
Step(m, item, j, w, v, before) ==
    /\ m \in Sense /\ item \in Item /\ w \in World /\ w.term \in Terms
    /\ WellFormed(item)
    /\ m.fed \in Bytes /\ Shown(w) \in Bytes /\ item.bytes \in Bytes
    /\ Len(item.bytes) \in Nat \ {0} /\ j \in Nat /\ j + 1 \in 1..Len(item.bytes)
    /\ item.bytes[j + 1] \in Octet
    /\ v = ProcessByte(w, item.bytes[j + 1])
    /\ Knows(m, w.term) /\ AnswersOf(Cat(before, w.replies)) = m.replies
    /\ j = 0 => w.term.state = "ground" /\ Shown(w) = m.fed
    /\ j # 0 => Midway(m, item, j, w.term, Shown(w), Cat(before, w.replies))

LEMMA ReadsStep ==
    ASSUME NEW m, NEW item, NEW j, NEW w, NEW v, NEW before, Reads(m, item, j, w, v, before)
    PROVE  Step(m, item, j, w, v, before)
<1>1. /\ m \in Sense /\ item \in Item /\ w \in World /\ j \in 0..(Len(item.bytes) - 1)
      /\ WellFormed(item) /\ v = ProcessByte(w, item.bytes[j + 1])
      /\ At(m, item, j, w.term, Shown(w), Cat(before, w.replies))
    BY DEF Reads
<1>2. m.fed \in Bytes /\ Shown(w) \in Bytes /\ w.term \in Terms
    BY <1>1, ShownOK DEF Sense
<1>3. item.bytes \in Bytes /\ Len(item.bytes) \in Nat \ {0}
      /\ \A i \in 1..Len(item.bytes) : item.bytes[i] \in Octet
    BY <1>1, ItemOK
<1>4. j \in Nat /\ j + 1 \in 1..Len(item.bytes) /\ j # Len(item.bytes)
    BY <1>1, <1>3
<1>5. item.bytes[j + 1] \in Octet
    BY <1>3, <1>4
<1>6. CASE j = 0
    <2>1. Whole(m, w.term, Shown(w), Cat(before, w.replies))
        BY <1>1, <1>6 DEF At
    <2>2. QED
        BY <1>1, <1>2, <1>3, <1>4, <1>5, <1>6, <2>1 DEF Step, Whole
<1>7. CASE j # 0
    <2>1. Midway(m, item, j, w.term, Shown(w), Cat(before, w.replies))
        BY <1>1, <1>4, <1>7 DEF At
    <2>2. Knows(m, w.term) /\ AnswersOf(Cat(before, w.replies)) = m.replies
        BY <2>1 DEF Midway
    <2>3. QED
        BY <1>1, <1>2, <1>3, <1>4, <1>5, <1>7, <2>1, <2>2, Zenon DEF Step
<1>8. QED
    BY <1>6, <1>7

\* A byte that does not end the item, and answers nothing.
LEMMA GoesMidway ==
    ASSUME NEW m, NEW item, NEW j, NEW w, NEW v, NEW before, Step(m, item, j, w, v, before),
           j + 1 # Len(item.bytes), v.replies = w.replies,
           Midway(m, item, j + 1, v.term, Shown(v), Cat(before, w.replies))
    PROVE  At(m, item, j + 1, v.term, Shown(v), Cat(before, v.replies))
<1>1. j + 1 # 0
    BY DEF Step
<1>2. QED
    BY <1>1, Zenon DEF At

\* One that ends it.
LEMMA GoesWhole ==
    ASSUME NEW m, NEW item, NEW j, NEW w, NEW v, NEW before, Step(m, item, j, w, v, before),
           j + 1 = Len(item.bytes), v.replies = w.replies,
           v.term.state = "ground", Knows(Means(m, item), v.term),
           Shown(v) = Means(m, item).fed, Means(m, item).replies = m.replies
    PROVE  At(m, item, j + 1, v.term, Shown(v), Cat(before, v.replies))
<1>1. j + 1 # 0 /\ AnswersOf(Cat(before, w.replies)) = m.replies
    BY DEF Step
<1>2. Whole(Means(m, item), v.term, Shown(v), Cat(before, v.replies))
    BY <1>1, Zenon DEF Whole
<1>3. QED
    BY <1>1, <1>2, Zenon DEF At

LEMMA TextStep ==
    ASSUME NEW m, NEW item, NEW j, NEW w, NEW v, NEW before, Step(m, item, j, w, v, before),
           item.op = "text"
    PROVE  At(m, item, j + 1, v.term, Shown(v), Cat(before, v.replies))
<1> DEFINE b == item.bytes
           x == item.bytes[j + 1]
           dec == IF m.usingG1 THEN m.g1 ELSE m.g0
           g == IF dec /\ x = "q" THEN "line" ELSE x
<1>1. w.term.state = "ground"
    BY DEF Step, Midway
<1>2. Shown(w) = Cat(m.fed, Glyphs(m, b, j))
    <2>1. CASE j = 0
        <3>1. Glyphs(m, b, j) = <<>>
            BY <2>1 DEF Glyphs
        <3>2. Shown(w) = m.fed /\ m.fed \in Bytes
            BY <2>1 DEF Step
        <3>3. Cat(m.fed, <<>>) = m.fed
            BY <3>2, Join
        <3>4. QED
            BY <3>1, <3>2, <3>3, Zenon
    <2>2. CASE j # 0
        BY <2>2 DEF Step, Midway
    <2>3. QED
        BY <2>1, <2>2
<1>3. w \in World /\ x \in Octet /\ x \notin {"ESC", "SO", "SI"}
    <2>1. ToSet(b) \cap {"ESC", "SO", "SI"} = {}
        BY DEF Step, WellFormed
    <2>2. x \in ToSet(b)
        BY ItemOK DEF Step
    <2>3. QED
        BY <2>1, <2>2 DEF Step
<1>4. v = InGround(w, x)
    BY <1>1 DEF Step, ProcessByte
<1>5. Moves(w, v, w.term, <<Text(w.term, x)>>)
    BY <1>3, <1>4, InGroundMoves
<1>6. Text(w.term, x) = g
    BY DEF Text, DecActive, Step, Knows
<1>7. Cat(Cat(m.fed, Glyphs(m, b, j)), <<g>>) = Cat(m.fed, Glyphs(m, b, j + 1))
    <2>1. m \in Sense /\ item \in Item /\ j \in 0..(Len(item.bytes) - 1)
        BY DEF Step
    <2>2. QED
        BY <2>1, GlyphsGrow
<1> HIDE DEF g
<1>8. v.term = w.term /\ v.replies = w.replies /\ Shown(v) = Cat(m.fed, Glyphs(m, b, j + 1))
    BY <1>2, <1>5, <1>6, <1>7, Zenon DEF Moves
<1>9. CASE j + 1 = Len(b)
    <2>1. Means(m, item) = [m EXCEPT !.fed = Cat(@, Glyphs(m, b, Len(b)))]
        BY ItemOK, MeansShown DEF Step
    <2>2. /\ Means(m, item).g0 = m.g0 /\ Means(m, item).g1 = m.g1
          /\ Means(m, item).usingG1 = m.usingG1 /\ Means(m, item).cursorKeys = m.cursorKeys
          /\ Means(m, item).mouse = m.mouse /\ Means(m, item).replies = m.replies
          /\ Means(m, item).fed = Cat(m.fed, Glyphs(m, b, Len(b)))
        BY <2>1 DEF Step, Sense
    <2>3. Knows(Means(m, item), v.term) /\ Shown(v) = Means(m, item).fed
        BY <1>8, <1>9, <2>2 DEF Step, Knows
    <2>4. QED
        BY <1>1, <1>8, <1>9, <2>2, <2>3, GoesWhole
<1>10. CASE j + 1 # Len(b)
    <2>1. Midway(m, item, j + 1, v.term, Shown(v), Cat(before, w.replies))
        BY <1>1, <1>8 DEF Step, Midway
    <2>2. QED
        BY <1>8, <1>10, <2>1, GoesMidway
<1>11. QED
    BY <1>9, <1>10

LEMMA ShiftStep ==
    ASSUME NEW m, NEW item, NEW j, NEW w, NEW v, NEW before, Step(m, item, j, w, v, before),
           item.op = "shift"
    PROVE  At(m, item, j + 1, v.term, Shown(v), Cat(before, v.replies))
<1> DEFINE x == item.bytes[1]
<1>1. item.bytes \in {<<"SO">>, <<"SI">>}
    BY DEF Step, WellFormed
<1>2. Len(item.bytes) = 1 /\ x \in {"SO", "SI"} /\ ("SO" \in ToSet(item.bytes) <=> x = "SO")
    BY <1>1 DEF ToSet
<1>3. j = 0 /\ item.bytes[j + 1] = x
    BY <1>2 DEF Step
<1>4. /\ w \in World /\ x \in Octet /\ w.term.state = "ground" /\ m.fed \in Bytes
      /\ Shown(w) = m.fed /\ v = ProcessByte(w, x)
    BY <1>3, Zenon DEF Step
<1> HIDE DEF x
<1>5. v = InGround(w, x)
    BY <1>4 DEF ProcessByte
<1>6. Moves(w, v, [w.term EXCEPT !.usingG1 = (x = "SO")], <<>>)
    <2>1. CASE x = "SO"
        BY <1>4, <1>5, <2>1, InGroundMoves
    <2>2. CASE x = "SI"
        BY <1>4, <1>5, <2>2, InGroundMoves
    <2>3. QED
        BY <1>2, <2>1, <2>2
<1>7. Shown(v) = m.fed /\ v.replies = w.replies /\ v.term = [w.term EXCEPT !.usingG1 = (x = "SO")]
    <2>1. Cat(m.fed, <<>>) = m.fed
        BY <1>4, Join
    <2>2. QED
        BY <1>4, <1>6, <2>1, Zenon DEF Moves
<1>8. Means(m, item) = [m EXCEPT !.usingG1 = (x = "SO")]
    BY <1>2 DEF Means
<1>9. v.term.state = "ground" /\ Knows(Means(m, item), v.term)
    BY <1>4, <1>7, <1>8 DEF Step, Knows, Terms, Sense
<1>10. Means(m, item).fed = m.fed /\ Means(m, item).replies = m.replies
    BY <1>8 DEF Step, Sense
<1>11. j + 1 = Len(item.bytes)
    BY <1>2, <1>3
<1>12. QED
    BY <1>7, <1>9, <1>10, <1>11, GoesWhole

\* The first byte of a sequence of several.
LEMMA EscapeStep ==
    ASSUME NEW m, NEW item, NEW j, NEW w, NEW v, NEW before, Step(m, item, j, w, v, before),
           item.op # "text", j = 0, item.bytes[1] = "ESC", Len(item.bytes) > 1
    PROVE  At(m, item, j + 1, v.term, Shown(v), Cat(before, v.replies))
<1>1. item.bytes[j + 1] = "ESC" /\ j + 1 = 1
    OBVIOUS
<1>2. /\ w \in World /\ "ESC" \in Octet /\ w.term.state = "ground" /\ m.fed \in Bytes
      /\ Shown(w) = m.fed /\ v = ProcessByte(w, "ESC")
      /\ w.term \in Terms /\ Knows(m, w.term) /\ AnswersOf(Cat(before, w.replies)) = m.replies
    BY <1>1, Zenon DEF Step
<1>3. v = InGround(w, "ESC")
    BY <1>2 DEF ProcessByte
<1>4. Moves(w, v, [w.term EXCEPT !.state = "escape"], <<>>)
    BY <1>2, <1>3, InGroundMoves
<1>5. Shown(v) = m.fed /\ v.replies = w.replies /\ v.term = [w.term EXCEPT !.state = "escape"]
    <2>1. Cat(m.fed, <<>>) = m.fed
        BY <1>2, Join
    <2>2. QED
        BY <1>2, <1>4, <2>1, Zenon DEF Moves
<1>6. v.term.state = "escape" /\ Knows(m, v.term)
    BY <1>2, <1>5 DEF Knows, Terms
<1>7. Midway(m, item, j + 1, v.term, Shown(v), Cat(before, w.replies))
    BY <1>1, <1>2, <1>5, <1>6 DEF Midway
<1>8. QED
    BY <1>1, <1>5, <1>7, GoesMidway

\* The second byte says what kind of sequence it is.
LEMMA SecondByte ==
    ASSUME NEW m, NEW item, NEW j, NEW w, NEW v, NEW before, Step(m, item, j, w, v, before),
           item.op # "text", j = 1
    PROVE  /\ item.bytes[2] \in Octet /\ w \in World /\ w.term \in Terms /\ Knows(m, w.term)
           /\ w.term.state = "escape" /\ Shown(w) = m.fed /\ m.fed \in Bytes
           /\ v = InEscape(w, item.bytes[2])
           /\ AnswersOf(Cat(before, w.replies)) = m.replies
<1>1. item.bytes[j + 1] = item.bytes[2] /\ j # 0
    OBVIOUS
<1>2. /\ item.bytes[2] \in Octet /\ w \in World /\ w.term \in Terms /\ Knows(m, w.term)
      /\ m.fed \in Bytes /\ v = ProcessByte(w, item.bytes[2])
      /\ AnswersOf(Cat(before, w.replies)) = m.replies
      /\ Midway(m, item, j, w.term, Shown(w), Cat(before, w.replies))
    BY <1>1, Zenon DEF Step
<1>3. w.term.state = "escape" /\ Shown(w) = m.fed
    BY <1>2 DEF Midway
<1>4. QED
    BY <1>2, <1>3 DEF ProcessByte

LEMMA DesignateStep ==
    ASSUME NEW m, NEW item, NEW j, NEW w, NEW v, NEW before, Step(m, item, j, w, v, before),
           item.op = "designate"
    PROVE  At(m, item, j + 1, v.term, Shown(v), Cat(before, v.replies))
<1>1. PICK g \in {"(", ")"}, c \in {"0", "B"} : item.bytes = <<"ESC", g, c>>
    BY DEF Step, WellFormed
<1>2. /\ Len(item.bytes) = 3 /\ item.bytes[1] = "ESC" /\ item.bytes[2] = g /\ item.bytes[3] = c
      /\ "(" \in ToSet(item.bytes) <=> g = "("
      /\ "0" \in ToSet(item.bytes) <=> c = "0"
    BY <1>1 DEF ToSet
<1>3. j \in {0, 1, 2}
    BY <1>2 DEF Step
<1>4. CASE j = 0
    BY <1>2, <1>4, EscapeStep
<1>5. CASE j = 1
    <2>1. /\ g \in Octet /\ w \in World /\ w.term \in Terms /\ Knows(m, w.term)
          /\ Shown(w) = m.fed /\ m.fed \in Bytes /\ v = InEscape(w, g)
          /\ AnswersOf(Cat(before, w.replies)) = m.replies
        BY <1>2, <1>5, SecondByte
    <2>2. Moves(w, v, [w.term EXCEPT !.state = g], <<>>)
        BY <2>1, InEscapeMoves
    <2>3. Shown(v) = m.fed /\ v.replies = w.replies /\ v.term = [w.term EXCEPT !.state = g]
        <3>1. Cat(m.fed, <<>>) = m.fed
            BY <2>1, Join
        <3>2. QED
            BY <2>1, <2>2, <3>1, Zenon DEF Moves
    <2>4. v.term.state = g /\ Knows(m, v.term)
        BY <2>1, <2>3 DEF Knows, Terms
    <2>5. Midway(m, item, 2, v.term, Shown(v), Cat(before, w.replies))
        BY <1>2, <2>1, <2>3, <2>4 DEF Midway
    <2>6. j + 1 = 2 /\ j + 1 # Len(item.bytes)
        BY <1>2, <1>5
    <2>7. QED
        BY <2>3, <2>5, <2>6, GoesMidway
<1>6. CASE j = 2
    <2>1. item.bytes[j + 1] = c /\ j # 0 /\ j + 1 = Len(item.bytes)
        BY <1>2, <1>6
    <2>2. /\ c \in Octet /\ w \in World /\ w.term \in Terms /\ Knows(m, w.term) /\ m \in Sense
          /\ m.fed \in Bytes /\ v = ProcessByte(w, c)
          /\ Midway(m, item, j, w.term, Shown(w), Cat(before, w.replies))
        BY <2>1, Zenon DEF Step
    <2>3. w.term.state = g /\ Shown(w) = m.fed
        BY <1>2, <1>6, <2>2 DEF Midway
    <2>4. v = InCharset(w, c)
        BY <2>2, <2>3 DEF ProcessByte
    <2>5. Moves(w, v, IF g = "(" THEN [w.term EXCEPT !.state = "ground", !.g0 = (c = "0")]
                                 ELSE [w.term EXCEPT !.state = "ground", !.g1 = (c = "0")], <<>>)
        <3>1. CASE g = "("
            BY <2>2, <2>3, <2>4, <3>1, InCharsetMoves
        <3>2. CASE g # "("
            BY <2>2, <2>3, <2>4, <3>2, InCharsetMoves
        <3>3. QED
            BY <3>1, <3>2
    <2>6. /\ Shown(v) = m.fed /\ v.replies = w.replies
          /\ v.term = IF g = "(" THEN [w.term EXCEPT !.state = "ground", !.g0 = (c = "0")]
                                 ELSE [w.term EXCEPT !.state = "ground", !.g1 = (c = "0")]
        <3>1. Cat(m.fed, <<>>) = m.fed
            BY <2>2, Join
        <3>2. QED
            BY <2>3, <2>5, <3>1, Zenon DEF Moves
    <2>7. Means(m, item) = IF g = "(" THEN [m EXCEPT !.g0 = (c = "0")] ELSE [m EXCEPT !.g1 = (c = "0")]
        <3>1. Means(m, item) = IF "(" \in ToSet(item.bytes)
                               THEN [m EXCEPT !.g0 = ("0" \in ToSet(item.bytes))]
                               ELSE [m EXCEPT !.g1 = ("0" \in ToSet(item.bytes))]
            BY MeansShown
        <3>2. QED
            BY <1>2, <3>1
    <2>8. v.term.state = "ground" /\ Knows(Means(m, item), v.term)
        BY <2>2, <2>6, <2>7 DEF Knows, Terms, Sense
    <2>9. Means(m, item).fed = m.fed /\ Means(m, item).replies = m.replies
        BY <2>2, <2>7 DEF Sense
    <2>10. QED
        BY <2>1, <2>6, <2>8, <2>9, GoesWhole
<1>7. QED
    BY <1>3, <1>4, <1>5, <1>6

\* The part that has come, one byte longer.
LEMMA PartGrows ==
    ASSUME NEW item \in Item, NEW j \in Nat, j >= 1, j + 1 <= Len(item.bytes), NEW f \in Bytes
    PROVE  /\ Cat(Cat(f, SubSeq(item.bytes, 1, j)), <<item.bytes[j + 1]>>)
                = Cat(f, SubSeq(item.bytes, 1, j + 1))
           /\ j >= 2 => Append(SubSeq(item.bytes, 3, j), item.bytes[j + 1])
                            = SubSeq(item.bytes, 3, j + 1)
<1> DEFINE b == item.bytes
<1>1. b \in Bytes /\ Len(b) \in Nat /\ \A i \in 1..Len(b) : b[i] \in Octet
    BY ItemOK
<1> HIDE DEF b
<1>2. /\ SubSeq(b, 1, j) \in Bytes /\ b[j + 1] \in Octet
      /\ SubSeq(b, 1, j + 1) = Append(SubSeq(b, 1, j), b[j + 1])
    <2>1. \A i \in 1..j : b[i] \in Octet
        BY <1>1 DEF b
    <2>2. j + 1 \in 1..Len(b)
        BY <1>1 DEF b
    <2>3. SubSeq(b, 1, j) \in Bytes
        BY <2>1, SubSeqProperties DEF Bytes
    <2>4. SubSeq(b, 1, j + 1) = Append(SubSeq(b, 1, j + 1 - 1), b[j + 1])
        BY <1>1, <2>2, SubSeqRecursiveSecond DEF Bytes
    <2>5. QED
        BY <1>1, <2>2, <2>3, <2>4
<1>3. <<b[j + 1]>> \in Bytes
    BY <1>2 DEF Bytes
<1>4. Append(SubSeq(b, 1, j), b[j + 1]) = Cat(SubSeq(b, 1, j), <<b[j + 1]>>)
    BY <1>2, AppendIsConcat DEF Cat, Bytes
<1>5. Cat(Cat(f, SubSeq(b, 1, j)), <<b[j + 1]>>) = Cat(f, Cat(SubSeq(b, 1, j), <<b[j + 1]>>))
    BY <1>2, <1>3, JoinThree
<1>6. ASSUME j >= 2 PROVE Append(SubSeq(b, 3, j), b[j + 1]) = SubSeq(b, 3, j + 1)
    <2>1. 3 \in 1..Len(b) /\ j + 1 \in 3..Len(b)
        BY <1>1, <1>6 DEF b
    <2>2. SubSeq(b, 3, j + 1) = Append(SubSeq(b, 3, j + 1 - 1), b[j + 1])
        BY <1>1, <2>1, SubSeqRecursiveSecond DEF Bytes
    <2>3. j + 1 - 1 = j
        OBVIOUS
    <2>4. QED
        BY <2>2, <2>3
<1>7. QED
    BY <1>2, <1>4, <1>5, <1>6, Zenon DEF b

LEMMA FirstTwo ==
    ASSUME NEW item \in Item, Len(item.bytes) >= 2, item.bytes[1] = "ESC"
    PROVE  /\ SubSeq(item.bytes, 1, 2) = <<"ESC", item.bytes[2]>>
           /\ SubSeq(item.bytes, 3, 2) = <<>>
           /\ SubSeq(item.bytes, 1, Len(item.bytes)) = item.bytes
<1> DEFINE b == item.bytes
<1>1. b \in Bytes /\ Len(b) \in Nat
    BY ItemOK
<1>2. SubSeq(b, 1, 2) = <<b[1], b[2]>>
    <2> DEFINE s == SubSeq(b, 1, 2)
               t == <<b[1], b[2]>>
    <2>1. b[1] \in Octet /\ b[2] \in Octet
        BY ItemOK
    <2> HIDE DEF b
    <2>2. \A i \in 1..2 : b[i] \in Octet
        BY <2>1
    <2>3. s \in Bytes /\ Len(s) = 2 /\ \A i \in 1..2 : s[i] = b[i]
        BY <2>2, SubSeqProperties DEF Bytes
    <2>4. t \in Bytes /\ Len(t) = 2 /\ t[1] = b[1] /\ t[2] = b[2]
        BY <2>1 DEF Bytes
    <2> HIDE DEF s, t
    <2>5. \A i \in 1..Len(s) : s[i] = t[i]
        BY <2>3, <2>4
    <2>6. s = t
        BY <2>3, <2>4, <2>5, SeqEqual DEF Bytes
    <2>7. QED
        BY <2>6 DEF s, t
<1>3. SubSeq(b, 1, Len(b)) = b
    BY <1>1, SubSeqFull DEF Bytes
<1>4. SubSeq(b, 3, 2) = <<>>
    BY SubSeqEmpty
<1>5. QED
    BY <1>2, <1>3, <1>4

\* The body of a CSI sequence: what comes is kept and shown.
LEMMA CsiMidway ==
    ASSUME NEW m, NEW item, NEW j, NEW w, NEW v, NEW before, Step(m, item, j, w, v, before),
           item.op \in {"mode", "ask", "move"}, item.bytes[1] = "ESC", item.bytes[2] = "[",
           j >= 1, j + 1 # Len(item.bytes),
           j >= 2 => item.bytes[j + 1] \notin Final
    PROVE  At(m, item, j + 1, v.term, Shown(v), Cat(before, v.replies))
<1> DEFINE b == item.bytes
           x == item.bytes[j + 1]
<1>1. /\ item \in Item /\ j \in Nat /\ j + 1 <= Len(b) /\ Len(b) \in Nat /\ m.fed \in Bytes
      /\ w \in World /\ w.term \in Terms /\ Knows(m, w.term) /\ x \in Octet
      /\ v = ProcessByte(w, x) /\ AnswersOf(Cat(before, w.replies)) = m.replies
      /\ Midway(m, item, j, w.term, Shown(w), Cat(before, w.replies))
    BY DEF Step
<1>2. /\ v.replies = w.replies /\ Knows(m, v.term) /\ v.term.state = "csi"
      /\ v.term.csi = SubSeq(b, 3, j + 1)
      /\ Shown(v) = Cat(m.fed, SubSeq(b, 1, j + 1))
    <2>1. CASE j = 1
        <3>1. v = InEscape(w, "[") /\ Shown(w) = m.fed /\ "[" \in Octet
            BY <2>1, SecondByte
        <3>2. Moves(w, v, [w.term EXCEPT !.state = "csi", !.csi = <<>>], <<"ESC", "[">>)
            BY <1>1, <3>1, InEscapeMoves
        <3>3. v.term = [w.term EXCEPT !.state = "csi", !.csi = <<>>] /\ v.replies = w.replies
              /\ Shown(v) = Cat(m.fed, <<"ESC", "[">>)
            BY <3>1, <3>2 DEF Moves
        <3>4. SubSeq(b, 1, 2) = <<"ESC", "[">> /\ SubSeq(b, 3, 2) = <<>>
            BY <1>1, <2>1, FirstTwo
        <3>5. Knows(m, v.term) /\ v.term.state = "csi" /\ v.term.csi = <<>>
            BY <1>1, <3>3 DEF Knows, Terms
        <3>6. j + 1 = 2
            BY <2>1
        <3>7. QED
            BY <3>3, <3>4, <3>5, <3>6
    <2>2. CASE j >= 2
        <3>1. w.term.state = "csi" /\ w.term.csi = SubSeq(b, 3, j)
              /\ Shown(w) = Cat(m.fed, SubSeq(b, 1, j))
            BY <1>1, <2>2 DEF Midway
        <3>2. v = InCsi(w, x)
            BY <1>1, <3>1 DEF ProcessByte
        <3>3. x \notin Final
            BY <2>2
        <3>4. Drawn(x) = <<x>>
            BY <3>3 DEF Final, Drawn
        <3> DEFINE c == Append(w.term.csi, x)
        <3> HIDE DEF x
        <3>5. Moves(w, v, [w.term EXCEPT !.csi = c], Drawn(x))
            BY <1>1, <3>2, <3>3, InCsiMoves
        <3>6. c = SubSeq(b, 3, j + 1) /\ Cat(Shown(w), <<x>>) = Cat(m.fed, SubSeq(b, 1, j + 1))
            BY <1>1, <2>2, <3>1, PartGrows DEF x
        <3> HIDE DEF c
        <3>7. v.term = [w.term EXCEPT !.csi = c] /\ v.replies = w.replies
              /\ Shown(v) = Cat(m.fed, SubSeq(b, 1, j + 1))
            BY <3>4, <3>5, <3>6, Zenon DEF Moves
        <3>8. Knows(m, v.term) /\ v.term.state = "csi" /\ v.term.csi = c
            BY <1>1, <3>1, <3>7 DEF Knows, Terms
        <3>9. QED
            BY <3>6, <3>7, <3>8, Zenon
    <2>3. QED
        BY <1>1, <2>1, <2>2
<1>3. Midway(m, item, j + 1, v.term, Shown(v), Cat(before, w.replies))
    <2>1. j + 1 >= 2
        BY <1>1
    <2>2. QED
        BY <1>1, <1>2, <2>1 DEF Midway
<1>4. QED
    BY <1>2, <1>3, GoesMidway

LEMMA Piece ==
    ASSUME NEW s, NEW k \in Int, NEW e \in Int, k <= e, \A i \in k..e : s[i] \in Octet
    PROVE  /\ SubSeq(s, k, e) \in Bytes /\ Len(SubSeq(s, k, e)) = e - k + 1
           /\ \A i \in 1..(e - k + 1) : SubSeq(s, k, e)[i] = s[k + i - 1]
BY SubSeqProperties DEF Bytes

\* What c, a CSI sequence, has after its first two bytes.
Parts(item, c) ==
    /\ c \in Bytes /\ Len(c) = Len(item.bytes) - 2
    /\ \A i \in 1..(Len(item.bytes) - 2) : c[i] = item.bytes[i + 2]
    /\ Head(c) = item.bytes[3] /\ Last(c) = item.bytes[Len(item.bytes)]
    /\ Len(item.bytes) >= 5 =>
            ToSet(SubSeq(c, 2, Len(c) - 1)) = {item.bytes[i] : i \in 4..(Len(item.bytes) - 1)}

LEMMA CsiParts ==
    ASSUME NEW item \in Item, Len(item.bytes) >= 3
    PROVE  Parts(item, SubSeq(item.bytes, 3, Len(item.bytes)))
<1> DEFINE b == item.bytes
           n == Len(item.bytes)
           c == SubSeq(item.bytes, 3, Len(item.bytes))
<1>1. n \in Nat /\ \A i \in 1..n : b[i] \in Octet
    BY ItemOK
<1> HIDE DEF b, n
<1>2. n >= 3
    BY DEF n
<1>3. \A i \in 3..n : b[i] \in Octet
    BY <1>1
<1>4. /\ c \in Bytes /\ Len(c) = n - 2
      /\ \A i \in 1..(n - 2) : c[i] = b[i + 2]
    <2>1. c = SubSeq(b, 3, n)
        BY DEF b, n
    <2>2. /\ SubSeq(b, 3, n) \in Bytes /\ Len(SubSeq(b, 3, n)) = n - 3 + 1
          /\ \A i \in 1..(n - 3 + 1) : SubSeq(b, 3, n)[i] = b[3 + i - 1]
        BY <1>1, <1>2, <1>3, SubSeqProperties DEF Bytes
    <2>3. n - 3 + 1 = n - 2 /\ \A i \in 1..(n - 2) : 3 + i - 1 = i + 2
        BY <1>1
    <2>4. QED
        BY <2>1, <2>2, <2>3
<1>5. Head(c) = b[3] /\ Last(c) = b[n]
    <2>1. Head(c) = c[1] /\ Last(c) = c[n - 2]
        BY <1>4 DEF Last
    <2>2. 1 \in 1..(n - 2) /\ n - 2 \in 1..(n - 2) /\ (n - 2) + 2 = n /\ 1 + 2 = 3
        BY <1>1, <1>2
    <2>3. c[1] = b[1 + 2] /\ c[n - 2] = b[(n - 2) + 2]
        BY <1>4, <2>2
    <2>4. QED
        BY <2>1, <2>2, <2>3
<1>6. ASSUME n >= 5 PROVE ToSet(SubSeq(c, 2, Len(c) - 1)) = {b[i] : i \in 4..(n - 1)}
    <2> DEFINE e == n - 3
               p == SubSeq(c, 2, e)
    <2>1. \A i \in 2..e : c[i] \in Octet
        BY <1>1, <1>4
    <2>2. p \in Bytes /\ Len(p) = n - 4 /\ \A i \in 1..(n - 4) : p[i] = c[i + 1]
        <3>1. 2 \in Int /\ e \in Int /\ 2 <= e /\ e - 2 + 1 = n - 4
            BY <1>1, <1>6
        <3> HIDE DEF e
        <3>2. /\ SubSeq(c, 2, e) \in Bytes /\ Len(SubSeq(c, 2, e)) = e - 2 + 1
              /\ \A i \in 1..(e - 2 + 1) : SubSeq(c, 2, e)[i] = c[2 + i - 1]
            BY <2>1, <3>1, Piece, Zenon
        <3>3. \A i \in 1..(n - 4) : 2 + i - 1 = i + 1
            BY <1>1
        <3>4. QED
            BY <3>1, <3>2, <3>3
    <2>3. \A i \in 1..(n - 4) : p[i] = b[i + 3]
        <3>1. \A i \in 1..(n - 4) : i + 1 \in 1..(n - 2) /\ (i + 1) + 2 = i + 3
            BY <1>1
        <3>2. QED
            BY <1>4, <2>2, <3>1
    <2>4. DOMAIN p = 1..(n - 4)
        BY <2>2, LenProperties DEF Bytes
    <2>5. ToSet(p) = {p[i] : i \in 1..(n - 4)}
        BY <2>4 DEF ToSet
    <2> HIDE DEF p
    <2>6. \A i \in 4..(n - 1) : i - 3 \in 1..(n - 4) /\ (i - 3) + 3 = i
        BY <1>1
    <2>7. \A i \in 1..(n - 4) : i + 3 \in 4..(n - 1)
        BY <1>1
    <2>8. {p[i] : i \in 1..(n - 4)} = {b[i] : i \in 4..(n - 1)}
        BY <2>3, <2>6, <2>7
    <2>9. Len(c) - 1 = n - 3
        BY <1>1, <1>4
    <2>10. QED
        BY <2>5, <2>8, <2>9 DEF p, e
<1> HIDE DEF c
<1>7. QED
    BY <1>4, <1>5, <1>6, Zenon DEF Parts, b, n, c

\* Its last byte: the sequence is complete.
LEMMA CsiLast ==
    ASSUME NEW m, NEW item, NEW j, NEW w, NEW v, NEW before, Step(m, item, j, w, v, before),
           item.op \in {"mode", "ask", "move"}, item.bytes[1] = "ESC", item.bytes[2] = "[",
           j >= 2, j + 1 = Len(item.bytes),
           item.bytes[j + 1] \in Final
    PROVE  /\ Shown(v) = Cat(Cat(m.fed, SubSeq(item.bytes, 1, j)), Drawn(item.bytes[j + 1]))
           /\ \E c :
                /\ Parts(item, c)
                /\ v.term = Completed(w.term, c)
                /\ v.replies = IF c \in {CursorQuery, SizeQuery}
                               THEN Append(w.replies, AnswerTo(c, Shown(v), w.size))
                               ELSE w.replies
<1> DEFINE b == item.bytes
           x == item.bytes[j + 1]
<1>1. /\ item \in Item /\ j \in Nat /\ j + 1 <= Len(b) /\ Len(b) \in Nat /\ m.fed \in Bytes
      /\ w \in World /\ x \in Octet /\ v = ProcessByte(w, x)
      /\ Midway(m, item, j, w.term, Shown(w), Cat(before, w.replies))
    BY DEF Step
<1>2. w.term.state = "csi" /\ w.term.csi = SubSeq(b, 3, j)
      /\ Shown(w) = Cat(m.fed, SubSeq(b, 1, j))
    BY <1>1 DEF Midway
<1>3. v = InCsi(w, x)
    BY <1>1, <1>2 DEF ProcessByte
<1> DEFINE c == Append(w.term.csi, x)
<1>4. c = SubSeq(b, 3, Len(b))
    BY <1>1, <1>2, PartGrows
<1> HIDE DEF c, x
<1>5. /\ c \notin {CursorQuery, SizeQuery} => Moves(w, v, Completed(w.term, c), Drawn(x))
      /\ c \in {CursorQuery, SizeQuery} =>
            Answers(w, v, Completed(w.term, c), Drawn(x),
                    AnswerTo(c, Cat(Shown(w), Drawn(x)), w.size))
    BY <1>1, <1>3, InCsiMoves DEF c, x
<1>6. Shown(v) = Cat(Shown(w), Drawn(x))
    BY <1>5 DEF Moves, Answers
<1>7. v.term = Completed(w.term, c)
    BY <1>5 DEF Moves, Answers
<1>8. v.replies = IF c \in {CursorQuery, SizeQuery}
                  THEN Append(w.replies, AnswerTo(c, Shown(v), w.size)) ELSE w.replies
    <2>1. CASE c \in {CursorQuery, SizeQuery}
        BY <1>5, <1>6, <2>1 DEF Answers
    <2>2. CASE c \notin {CursorQuery, SizeQuery}
        BY <1>5, <2>2 DEF Moves
    <2>3. QED
        BY <2>1, <2>2
<1>9. Parts(item, c)
    <2>1. Parts(item, SubSeq(b, 3, Len(b)))
        BY <1>1, CsiParts
    <2>2. QED
        BY <1>4, <2>1, Zenon
<1>10. Shown(v) = Cat(Cat(m.fed, SubSeq(b, 1, j)), Drawn(x))
    BY <1>2, <1>6, Zenon
<1>11. QED
    BY <1>7, <1>8, <1>9, <1>10, Zenon DEF x

\* What the modes of a sequence become, and what they are to become.
LEMMA ModeCompletes ==
    ASSUME NEW item \in Item, item.op = "mode", WellFormed(item), NEW c, Parts(item, c),
           NEW m \in Sense, NEW t \in Terms, Knows(m, t)
    PROVE  /\ Knows(Means(m, item), Completed(t, c)) /\ Completed(t, c).state = "ground"
           /\ Means(m, item).fed = Cat(m.fed, item.bytes) /\ Means(m, item).replies = m.replies
           /\ c \notin {CursorQuery, SizeQuery}
<1> DEFINE b == item.bytes
           n == Len(item.bytes)
           all == ToSet(item.bytes)
           on == b[n] = "h"
<1>1. /\ n >= 5 /\ b[1] = "ESC" /\ b[2] = "[" /\ b[3] = "?" /\ b[n] \in {"h", "l"}
      /\ "1" \in all => n = 5
    BY DEF WellFormed
<1>2. n \in Nat /\ m.mouse \in SUBSET MouseModes
    BY ItemOK DEF Sense
<1>3. /\ c \in Bytes /\ Len(c) = n - 2 /\ \A i \in 1..(n - 2) : c[i] = b[i + 2]
      /\ Head(c) = "?" /\ Last(c) = b[n]
      /\ ToSet(SubSeq(c, 2, Len(c) - 1)) = {b[i] : i \in 4..(n - 1)}
    BY <1>1 DEF Parts
<1>4. all = {b[i] : i \in 1..n}
    BY ItemOK
<1>5. Last(b) = b[n]
    BY DEF Last
<1>6. Means(m, item) = [[m EXCEPT !.fed = Cat(@, b)] EXCEPT
                            !.cursorKeys = IF "1" \in all THEN on ELSE @,
                            !.mouse = IF on THEN @ \cup (all \cap MouseModes) ELSE @ \ all]
    BY <1>5 DEF Means, Cat
<1> HIDE DEF b, n, all
<1>7. c \notin {CursorQuery, SizeQuery}
    <2>1. Len(c) # 2
        BY <1>1, <1>2, <1>3
    <2>2. Len(CursorQuery) = 2 /\ Len(SizeQuery) = 2
        BY DEF CursorQuery, SizeQuery
    <2>3. QED
        BY <2>1, <2>2, Zenon
<1>8. ToSet(SubSeq(c, 2, Len(c) - 1)) \cap MouseModes = all \cap MouseModes
    <2>1. \A i \in 1..n : i \in 4..(n - 1) \/ i \in {1, 2, 3, n}
        BY <1>2
    <2>2. \A i \in {1, 2, 3, n} : b[i] \notin MouseModes
        BY <1>1 DEF MouseModes
    <2>3. \A i \in 4..(n - 1) : i \in 1..n
        BY <1>2
    <2>4. QED
        BY <1>3, <1>4, <2>1, <2>2, <2>3
<1>9. Completed(t, c).mouse = IF on THEN m.mouse \cup (all \cap MouseModes) ELSE m.mouse \ all
    <2>1. t.mouse = m.mouse /\ Completed(t, c).mouse = PrivateModes(t.mouse, c)
        BY DEF Knows, Terms, Completed
    <2>2. /\ Len(c) >= 3 /\ Head(c) = "?" /\ Last(c) \in {"h", "l"} /\ (Last(c) = "h" <=> on)
        BY <1>1, <1>2, <1>3
    <2> DEFINE asked == ToSet(SubSeq(c, 2, Len(c) - 1)) \cap MouseModes
    <2>3. PrivateModes(t.mouse, c) = IF on THEN m.mouse \cup asked ELSE m.mouse \ asked
        <3> HIDE DEF on
        <3>1. CASE on
            BY <2>1, <2>2, <3>1 DEF PrivateModes
        <3>2. CASE ~on
            BY <2>1, <2>2, <3>2 DEF PrivateModes
        <3>3. QED
            BY <3>1, <3>2
    <2>4. m.mouse \ (all \cap MouseModes) = m.mouse \ all
        BY <1>2
    <2> HIDE DEF on
    <2>5. QED
        BY <1>8, <2>1, <2>3, <2>4
<1>10. "1" \in all <=> (n = 5 /\ b[4] = "1")
    <2>1. ASSUME "1" \in all PROVE n = 5 /\ b[4] = "1"
        <3>1. n = 5
            BY <1>1, <2>1
        <3>2. PICK i \in 1..n : b[i] = "1"
            BY <1>4, <2>1
        <3>3. i \in {1, 2, 3, 4, n}
            BY <3>1
        <3>4. QED
            BY <1>1, <3>1, <3>2, <3>3
    <2>2. ASSUME n = 5, b[4] = "1" PROVE "1" \in all
        BY <1>4, <2>2
    <2>3. QED
        BY <2>1, <2>2
<1>11. ASSUME NEW z \in {"h", "l"}
       PROVE  c = <<"?", "1", z>> <=> ("1" \in all /\ b[n] = z)
    <2>1. ASSUME c = <<"?", "1", z>> PROVE "1" \in all /\ b[n] = z
        <3>1. Len(<<"?", "1", z>>) = 3 /\ <<"?", "1", z>>[2] = "1" /\ <<"?", "1", z>>[3] = z
            OBVIOUS
        <3>2. Len(c) = 3 /\ c[2] = "1" /\ c[3] = z
            BY <2>1, <3>1, Zenon
        <3>3. n = 5 /\ 2 \in 1..(n - 2) /\ 2 + 2 = 4 /\ 3 \in 1..(n - 2) /\ 3 + 2 = n
            <4>1. n - 2 = 3
                BY <1>3, <3>2, Zenon
            <4>2. QED
                BY <1>2, <4>1
        <3>4. c[2] = b[2 + 2] /\ c[3] = b[3 + 2]
            BY <1>3, <3>3, Zenon
        <3>5. QED
            BY <1>10, <3>2, <3>3, <3>4
    <2>2. ASSUME "1" \in all, b[n] = z PROVE c = <<"?", "1", z>>
        <3>1. n = 5 /\ b[4] = "1"
            BY <1>10, <2>2
        <3>2. Len(c) = 3 /\ 1 \in 1..(n - 2) /\ 2 \in 1..(n - 2) /\ 3 \in 1..(n - 2)
              /\ 1 + 2 = 3 /\ 2 + 2 = 4 /\ 3 + 2 = n
            BY <1>3, <3>1
        <3>3. c[1] = b[1 + 2] /\ c[2] = b[2 + 2] /\ c[3] = b[3 + 2]
            BY <1>3, <3>2, Zenon
        <3>4. c[1] = "?" /\ c[2] = "1" /\ c[3] = z
            BY <1>1, <2>2, <3>1, <3>2, <3>3
        <3>5. c = <<c[1], c[2], c[3]>>
            BY <1>3, <3>2 DEF Bytes
        <3>6. QED
            BY <3>4, <3>5, Zenon
    <2>3. QED
        BY <2>1, <2>2
<1>12. Completed(t, c).cursorKeys = IF "1" \in all THEN on ELSE m.cursorKeys
    <2> DEFINE high == c = <<"?", "1", "h">>
               low == c = <<"?", "1", "l">>
               one == "1" \in all
    <2>1. t.cursorKeys = m.cursorKeys
        BY DEF Knows
    <2>2. high <=> one /\ on
        BY <1>11
    <2>3. low <=> one /\ ~on
        BY <1>1, <1>11
    <2>4. Completed(t, c).cursorKeys = CASE high -> TRUE [] low -> FALSE [] OTHER -> t.cursorKeys
        BY DEF Completed, Terms
    <2>5. on \in BOOLEAN
        OBVIOUS
    <2>6. SUFFICES Completed(t, c).cursorKeys = IF one THEN on ELSE m.cursorKeys
        OBVIOUS
    <2> HIDE DEF high, low, one, on
    <2>7. CASE one /\ on
        BY <2>2, <2>3, <2>4, <2>5, <2>7
    <2>8. CASE one /\ ~on
        BY <2>2, <2>3, <2>4, <2>5, <2>8
    <2>9. CASE ~one
        BY <2>1, <2>2, <2>3, <2>4, <2>9
    <2>10. QED
        BY <2>7, <2>8, <2>9
<1> HIDE DEF on
<1>13. /\ Completed(t, c).state = "ground"
       /\ Completed(t, c).g0 = m.g0 /\ Completed(t, c).g1 = m.g1
       /\ Completed(t, c).usingG1 = m.usingG1
    BY DEF Completed, Terms, Knows
<1> DEFINE e == Means(m, item)
<1>14. /\ e.fed = Cat(m.fed, b) /\ e.replies = m.replies
       /\ e.cursorKeys = IF "1" \in all THEN on ELSE m.cursorKeys
       /\ e.mouse = IF on THEN m.mouse \cup (all \cap MouseModes) ELSE m.mouse \ all
       /\ e.g0 = m.g0 /\ e.g1 = m.g1 /\ e.usingG1 = m.usingG1
    BY <1>6 DEF Sense
<1> HIDE DEF e
<1>15. Knows(e, Completed(t, c))
    BY <1>9, <1>12, <1>13, <1>14, Zenon DEF Knows
<1>16. QED
    BY <1>7, <1>13, <1>14, <1>15, Zenon DEF e, b

LEMMA ModeStep ==
    ASSUME NEW m, NEW item, NEW j, NEW w, NEW v, NEW before, Step(m, item, j, w, v, before),
           item.op = "mode"
    PROVE  At(m, item, j + 1, v.term, Shown(v), Cat(before, v.replies))
<1> DEFINE b == item.bytes
           n == Len(item.bytes)
           x == item.bytes[j + 1]
<1>1. /\ n >= 5 /\ b[1] = "ESC" /\ b[2] = "[" /\ b[n] \in {"h", "l"}
      /\ \A i \in 3..(n - 1) : b[i] \notin Final
    BY DEF Step, WellFormed
<1>2. /\ item \in Item /\ n \in Nat /\ j \in 0..(n - 1) /\ m \in Sense /\ m.fed \in Bytes
      /\ w.term \in Terms /\ Knows(m, w.term) /\ WellFormed(item)
    BY DEF Step
<1>3. CASE j = 0
    BY <1>1, <1>3, EscapeStep
<1>4. CASE j >= 1 /\ j + 1 # n
    <2>1. j >= 2 => b[j + 1] \notin Final
        BY <1>1, <1>2, <1>4
    <2>2. QED
        BY <1>1, <1>4, <2>1, CsiMidway
<1>5. CASE j + 1 = n
    <2>1. j >= 2 /\ j >= 1 /\ j \in Nat /\ n >= 2 /\ x \in Final /\ Drawn(x) = <<x>>
        BY <1>1, <1>2, <1>5 DEF Final, Drawn
    <2>2. Shown(v) = Cat(Cat(m.fed, SubSeq(b, 1, j)), <<x>>)
        BY <1>1, <1>5, <2>1, CsiLast
    <2>3. PICK c : /\ Parts(item, c) /\ v.term = Completed(w.term, c)
                   /\ v.replies = IF c \in {CursorQuery, SizeQuery}
                                  THEN Append(w.replies, AnswerTo(c, Shown(v), w.size))
                                  ELSE w.replies
        BY <1>1, <1>5, <2>1, CsiLast
    <2>4. /\ Knows(Means(m, item), Completed(w.term, c)) /\ Completed(w.term, c).state = "ground"
          /\ Means(m, item).fed = Cat(m.fed, b) /\ Means(m, item).replies = m.replies
          /\ c \notin {CursorQuery, SizeQuery}
        BY <1>2, <2>3, ModeCompletes
    <2>5. Cat(Cat(m.fed, SubSeq(b, 1, j)), <<x>>) = Cat(m.fed, b)
        <3>1. Cat(Cat(m.fed, SubSeq(b, 1, j)), <<x>>) = Cat(m.fed, SubSeq(b, 1, j + 1))
            BY <1>2, <1>5, <2>1, PartGrows
        <3>2. SubSeq(b, 1, n) = b
            BY <1>1, <1>2, <2>1, FirstTwo
        <3>3. QED
            BY <1>5, <3>1, <3>2
    <2>6. /\ v.replies = w.replies /\ v.term.state = "ground" /\ Knows(Means(m, item), v.term)
          /\ Shown(v) = Means(m, item).fed
        BY <2>2, <2>3, <2>4, <2>5
    <2>7. QED
        BY <1>5, <2>4, <2>6, GoesWhole
<1>6. QED
    BY <1>2, <1>3, <1>4, <1>5

LEMMA MoveStep ==
    ASSUME NEW m, NEW item, NEW j, NEW w, NEW v, NEW before, Step(m, item, j, w, v, before),
           item.op = "move"
    PROVE  At(m, item, j + 1, v.term, Shown(v), Cat(before, v.replies))
<1> DEFINE b == item.bytes
           n == Len(item.bytes)
           x == item.bytes[j + 1]
<1>1. /\ n >= 3 /\ b[1] = "ESC" /\ b[2] = "[" /\ b[n] = "f"
      /\ \A i \in 3..(n - 1) : b[i] \notin Final
    BY DEF Step, WellFormed
<1>2. /\ item \in Item /\ n \in Nat /\ j \in 0..(n - 1) /\ m \in Sense /\ m.fed \in Bytes
      /\ w.term \in Terms /\ Knows(m, w.term)
    BY DEF Step
<1>3. CASE j = 0
    BY <1>1, <1>3, EscapeStep
<1>4. CASE j >= 1 /\ j + 1 # n
    <2>1. j >= 2 => b[j + 1] \notin Final
        BY <1>1, <1>2, <1>4
    <2>2. QED
        BY <1>1, <1>4, <2>1, CsiMidway
<1>5. CASE j + 1 = n
    <2>1. j >= 2 /\ x \in Final /\ Drawn(x) = <<"H">>
        BY <1>1, <1>2, <1>5 DEF Final, Drawn
    <2>2. Shown(v) = Cat(Cat(m.fed, SubSeq(b, 1, j)), <<"H">>)
        BY <1>1, <1>5, <2>1, CsiLast
    <2>3. PICK c : /\ Parts(item, c) /\ v.term = Completed(w.term, c)
                   /\ v.replies = IF c \in {CursorQuery, SizeQuery}
                                  THEN Append(w.replies, AnswerTo(c, Shown(v), w.size))
                                  ELSE w.replies
        BY <1>1, <1>5, <2>1, CsiLast
    <2>4. Last(c) = "f"
        BY <1>1, <2>3 DEF Parts
    <2>5. /\ c \notin {CursorQuery, SizeQuery}
          /\ c # <<"?", "1", "h">> /\ c # <<"?", "1", "l">>
        <3>1. /\ Last(CursorQuery) = "n" /\ Last(SizeQuery) = "t"
              /\ Last(<<"?", "1", "h">>) = "h" /\ Last(<<"?", "1", "l">>) = "l"
            BY DEF CursorQuery, SizeQuery, Last
        <3>2. "f" # "n" /\ "f" # "t" /\ "f" # "h" /\ "f" # "l"
            OBVIOUS
        <3>3. QED
            BY <2>4, <3>1, <3>2, Zenon
    <2>6. PrivateModes(w.term.mouse, c) = w.term.mouse
        BY <2>4 DEF PrivateModes
    <2>7. Knows(m, Completed(w.term, c)) /\ Completed(w.term, c).state = "ground"
        BY <1>2, <2>5, <2>6 DEF Completed, Terms, Knows
    <2>8. Means(m, item) = [m EXCEPT !.fed = Cat(Cat(@, SubSeq(b, 1, j)), <<"H">>)]
        <3>1. Means(m, item) = [m EXCEPT !.fed = Cat(Cat(@, Front(b)), <<"H">>)]
            BY MeansShown
        <3>2. n - 1 = j
            BY <1>2, <1>5
        <3>3. Front(b) = SubSeq(b, 1, j)
            BY <3>2, Zenon DEF Front
        <3>4. QED
            BY <3>1, <3>3, Zenon
    <2> DEFINE f == Cat(Cat(m.fed, SubSeq(b, 1, j)), <<"H">>)
               e == Means(m, item)
    <2>9. e = [m EXCEPT !.fed = f]
        BY <2>8
    <2> HIDE DEF f, e
    <2>10. /\ e.g0 = m.g0 /\ e.g1 = m.g1 /\ e.usingG1 = m.usingG1 /\ e.cursorKeys = m.cursorKeys
           /\ e.mouse = m.mouse /\ e.replies = m.replies /\ e.fed = f
        BY <1>2, <2>9 DEF Sense
    <2>11. /\ v.replies = w.replies /\ v.term.state = "ground" /\ Knows(e, v.term)
           /\ Shown(v) = e.fed
        <3>1. Knows(e, v.term)
            BY <2>3, <2>7, <2>10 DEF Knows
        <3>2. QED
            BY <2>2, <2>3, <2>5, <2>7, <2>10, <3>1 DEF f
    <2>12. QED
        BY <1>5, <2>10, <2>11, GoesWhole DEF e
<1>6. QED
    BY <1>2, <1>3, <1>4, <1>5

\* One answer more, of what the query asks for.
LEMMA AnswersGrow ==
    ASSUME NEW rs \in Seq(Reply), NEW r \in Reply
    PROVE  AnswersOf(Append(rs, r)) = Append(AnswersOf(rs), IF r.query = CursorQuery THEN r.value ELSE 0)
<1> DEFINE V(q) == IF q.query = CursorQuery THEN q.value ELSE 0
           s == AnswersOf(rs)
           u == AnswersOf(Append(rs, r))
<1>1. \A q \in Reply : V(q) \in Nat
    BY DEF Reply
<1> HIDE DEF V
<1>2. Append(rs, r) \in Seq(Reply) /\ Len(Append(rs, r)) = Len(rs) + 1
      /\ (\A i \in 1..Len(rs) : Append(rs, r)[i] = rs[i]) /\ Append(rs, r)[Len(rs) + 1] = r
    BY AppendProperties
<1>3. Len(rs) \in Nat /\ DOMAIN rs = 1..Len(rs) /\ DOMAIN Append(rs, r) = 1..(Len(rs) + 1)
    BY <1>2, LenProperties
<1>4. s = [i \in 1..Len(rs) |-> V(rs[i])]
    BY <1>3 DEF AnswersOf, V
<1>5. u = [i \in 1..(Len(rs) + 1) |-> V(Append(rs, r)[i])]
    BY <1>3 DEF AnswersOf, V
<1> DEFINE n == Len(rs)
           a == Append(rs, r)
<1> HIDE DEF s, u, n, a
<1>6. n \in Nat /\ (\A i \in 1..n : rs[i] \in Reply) /\ (\A i \in 1..(n + 1) : a[i] \in Reply)
      /\ (\A i \in 1..n : a[i] = rs[i]) /\ a[n + 1] = r
    BY <1>2, <1>3, ElementOfSeq DEF n, a
<1>7. s \in Seq(Nat) /\ Len(s) = n /\ \A i \in 1..n : s[i] = V(rs[i])
    BY <1>1, <1>4, <1>6, IsASeq DEF n
<1>8. u \in Seq(Nat) /\ Len(u) = n + 1 /\ \A i \in 1..(n + 1) : u[i] = V(a[i])
    <2>1. u = [i \in 1..(n + 1) |-> V(a[i])]
        BY <1>5, Zenon DEF n, a
    <2>2. n + 1 \in Nat /\ \A i \in 1..(n + 1) : V(a[i]) \in Nat
        BY <1>1, <1>6
    <2>3. QED
        BY <2>1, <2>2, IsASeq
<1>9. V(r) \in Nat
    BY <1>1
<1> DEFINE t == Append(s, V(r))
<1>10. t \in Seq(Nat) /\ Len(t) = n + 1 /\ (\A i \in 1..n : t[i] = s[i]) /\ t[n + 1] = V(r)
    BY <1>7, <1>9, AppendProperties
<1> HIDE DEF t
<1>11. \A i \in 1..(n + 1) : t[i] = u[i]
    BY <1>6, <1>7, <1>8, <1>10
<1>12. t = u
    BY <1>8, <1>10, <1>11, SeqEqual
<1>13. QED
    BY <1>12, Zenon DEF t, s, u, V

\* An answer after those that are written and those that wait.
LEMMA AnswerAdded ==
    ASSUME NEW before \in Seq(Reply), NEW rs \in Seq(Reply), NEW r \in Reply
    PROVE  /\ Cat(before, rs) \in Seq(Reply)
           /\ Cat(before, Append(rs, r)) = Append(Cat(before, rs), r)
<1>1. before \o rs \in Seq(Reply) /\ <<r>> \in Seq(Reply)
    BY ConcatProperties
<1>2. Append(rs, r) = rs \o <<r>> /\ Append(before \o rs, r) = (before \o rs) \o <<r>>
    BY <1>1, AppendIsConcat
<1>3. (before \o rs) \o <<r>> = before \o (rs \o <<r>>)
    BY <1>1, ConcatAssociative
<1>4. before \o Append(rs, r) = Append(before \o rs, r)
    BY <1>2, <1>3
<1>5. QED
    BY <1>1, <1>4, Zenon DEF Cat

LEMMA AskBytes ==
    ASSUME NEW item, item.op = "ask", WellFormed(item)
    PROVE  /\ item.bytes = <<"ESC", "[", "6", "n">> \/ item.bytes = <<"ESC", "[", "18", "t">>
           /\ Len(item.bytes) = 4 /\ item.bytes[1] = "ESC" /\ item.bytes[2] = "["
           /\ item.bytes[3] \notin Final /\ item.bytes[4] \in Final /\ item.bytes[4] # "f"
<1> DEFINE b == item.bytes
<1>1. b = <<"ESC", "[", "6", "n">> \/ b = <<"ESC", "[", "18", "t">>
    BY DEF WellFormed, CursorQuery, SizeQuery
<1> HIDE DEF b
<1>2. Len(b) = 4 /\ b[1] = "ESC" /\ b[2] = "[" /\ b[3] \notin Final /\ b[4] \in Final
    BY <1>1 DEF Final
<1>3. b[4] # "f"
    BY <1>1
<1>4. QED
    BY <1>1, <1>2, <1>3, Zenon DEF b

\* A query is answered with the place in what it is itself the end of.
LEMMA AskCompletes ==
    ASSUME NEW item \in Item, item.op = "ask", WellFormed(item), NEW c, Parts(item, c),
           NEW m \in Sense, NEW t \in Terms, Knows(m, t)
    PROVE  /\ c \in {CursorQuery, SizeQuery} /\ ("6" \in ToSet(item.bytes) <=> c = CursorQuery)
           /\ Knows(m, Completed(t, c)) /\ Completed(t, c).state = "ground"
<1> DEFINE b == item.bytes
<1>1. b = <<"ESC", "[", "6", "n">> \/ b = <<"ESC", "[", "18", "t">>
    BY AskBytes
<1>2. Len(b) = 4 /\ b[1] = "ESC" /\ b[2] = "["
    BY AskBytes
<1>3. c \in Bytes /\ Len(c) = 2 /\ c[1] = b[3] /\ c[2] = b[4]
    <2>1. c \in Bytes /\ Len(c) = Len(b) - 2 /\ \A i \in 1..(Len(b) - 2) : c[i] = b[i + 2]
        BY DEF Parts
    <2> HIDE DEF b
    <2>2. c \in Bytes /\ Len(c) = 2 /\ \A i \in 1..2 : c[i] = b[i + 2]
        BY <1>2, <2>1
    <2>3. QED
        BY <2>2
<1>4. c = <<c[1], c[2]>>
    BY <1>3 DEF Bytes
<1>5. (b[3] = "6" /\ b[4] = "n") \/ (b[3] = "18" /\ b[4] = "t")
    BY <1>1
<1>6. "6" \in ToSet(b) <=> b[3] = "6"
    <2>1. ToSet(b) = {b[1], b[2], b[3], b[4]}
        <3>1. ToSet(b) = {b[i] : i \in 1..Len(b)}
            BY ItemOK
        <3>2. 1..Len(b) = {1, 2, 3, 4}
            BY <1>2
        <3> HIDE DEF b
        <3>3. QED
            BY <3>1, <3>2
    <2> HIDE DEF b
    <2>2. QED
        BY <1>2, <1>5, <2>1
<1> HIDE DEF b
<1>7. c \in {CursorQuery, SizeQuery} /\ (b[3] = "6" <=> c = CursorQuery)
    <2>1. CASE b[3] = "6" /\ b[4] = "n"
        BY <1>3, <1>4, <2>1 DEF CursorQuery
    <2>2. CASE b[3] = "18" /\ b[4] = "t"
        <3>1. c = SizeQuery
            BY <1>3, <1>4, <2>2 DEF SizeQuery
        <3>2. SizeQuery # CursorQuery /\ "18" # "6"
            BY DEF SizeQuery, CursorQuery
        <3>3. QED
            BY <2>2, <3>1, <3>2
    <2>3. QED
        BY <1>5, <2>1, <2>2
<1>8. PrivateModes(t.mouse, c) = t.mouse
    BY <1>3 DEF PrivateModes
<1>9. c # <<"?", "1", "h">> /\ c # <<"?", "1", "l">>
    <2>1. Len(<<"?", "1", "h">>) # 2 /\ Len(<<"?", "1", "l">>) # 2
        OBVIOUS
    <2>2. QED
        BY <1>3, <2>1, Zenon
<1>10. Knows(m, Completed(t, c)) /\ Completed(t, c).state = "ground"
    BY <1>8, <1>9 DEF Completed, Terms, Knows
<1>11. QED
    BY <1>6, <1>7, <1>10, Zenon DEF b

LEMMA AskStep ==
    ASSUME NEW m, NEW item, NEW j, NEW w, NEW v, NEW before \in Seq(Reply),
           Step(m, item, j, w, v, before), item.op = "ask"
    PROVE  At(m, item, j + 1, v.term, Shown(v), Cat(before, v.replies))
<1> DEFINE b == item.bytes
           n == Len(item.bytes)
           x == item.bytes[j + 1]
<1>1. /\ item \in Item /\ WellFormed(item) /\ n \in Nat /\ j \in 0..(n - 1) /\ m \in Sense
      /\ m.fed \in Bytes /\ w \in World /\ w.term \in Terms /\ Knows(m, w.term)
      /\ w.replies \in Seq(Reply) /\ w.size \in Nat /\ Shown(w) \in Bytes
      /\ AnswersOf(Cat(before, w.replies)) = m.replies
    BY ShownOK DEF Step
<1>9. item.op \in {"mode", "ask", "move"}
    OBVIOUS
<1>2. /\ n = 4 /\ b[1] = "ESC" /\ b[2] = "[" /\ b[3] \notin Final /\ b[4] \in Final /\ b[4] # "f"
    BY <1>1, AskBytes
<1>3. CASE j = 0
    BY <1>2, <1>3, EscapeStep
<1>4. CASE j \in {1, 2}
    <2>1. j >= 1 /\ j + 1 # n /\ (j >= 2 => b[j + 1] \notin Final)
        BY <1>2, <1>4
    <2>2. QED
        BY <1>2, <2>1, CsiMidway
<1>5. CASE j = 3
    <2>1. j >= 2 /\ j >= 1 /\ j \in Nat /\ n >= 2 /\ j + 1 = n /\ x \in Final
        BY <1>2, <1>5
    <2>19. Drawn(x) = <<x>>
        BY <1>2, <1>5 DEF Drawn
    <2>20. /\ item.bytes[1] = "ESC" /\ item.bytes[2] = "[" /\ j + 1 = Len(item.bytes)
           /\ item.bytes[j + 1] \in Final
        BY <1>2, <2>1
    <2>2. Shown(v) = Cat(Cat(m.fed, SubSeq(b, 1, j)), <<x>>)
        <3>1. Shown(v) = Cat(Cat(m.fed, SubSeq(item.bytes, 1, j)), Drawn(item.bytes[j + 1]))
            BY <1>9, <2>1, <2>20, CsiLast
        <3>2. QED
            BY <2>19, <3>1, Zenon
    <2>3. PICK c : /\ Parts(item, c) /\ v.term = Completed(w.term, c)
                   /\ v.replies = IF c \in {CursorQuery, SizeQuery}
                                  THEN Append(w.replies, AnswerTo(c, Shown(v), w.size))
                                  ELSE w.replies
        BY <1>9, <2>1, <2>20, CsiLast
    <2>4. /\ c \in {CursorQuery, SizeQuery} /\ ("6" \in ToSet(b) <=> c = CursorQuery)
          /\ Knows(m, Completed(w.term, c)) /\ Completed(w.term, c).state = "ground"
        BY <1>1, <2>3, AskCompletes
    <2>5. Cat(Cat(m.fed, SubSeq(b, 1, j)), <<x>>) = Cat(m.fed, b)
        <3>1. Cat(Cat(m.fed, SubSeq(b, 1, j)), <<x>>) = Cat(m.fed, SubSeq(b, 1, j + 1))
            BY <1>1, <2>1, PartGrows
        <3>2. SubSeq(b, 1, n) = b
            BY <1>1, <1>2, <2>1, FirstTwo
        <3>3. QED
            BY <2>1, <3>1, <3>2
    <2> DEFINE shown == Cat(m.fed, b)
               r == AnswerTo(c, shown, w.size)
               e == Means(m, item)
               k == IF "6" \in ToSet(b) THEN Len(shown) ELSE 0
    <2>6. shown \in Bytes /\ Len(shown) \in Nat
        <3>1. b \in Bytes
            BY <1>1, ItemOK
        <3>2. shown \in Bytes
            BY <1>1, <3>1, Join
        <3>3. QED
            BY <3>2, LenProperties DEF Bytes
    <2>7. c \in Bytes
        BY <2>3 DEF Parts
    <2>8. e.fed = shown /\ e.replies = Append(m.replies, k)
          /\ e.g0 = m.g0 /\ e.g1 = m.g1 /\ e.usingG1 = m.usingG1
          /\ e.cursorKeys = m.cursorKeys /\ e.mouse = m.mouse
        <3>1. e = [[m EXCEPT !.fed = Cat(@, b)] EXCEPT
                        !.replies = Append(@, IF "6" \in ToSet(b)
                                              THEN Len([m EXCEPT !.fed = Cat(@, b)].fed) ELSE 0)]
            BY DEF Means, Cat
        <3>2. [m EXCEPT !.fed = Cat(@, b)].fed = shown
            BY <1>1 DEF Sense
        <3>3. e = [[m EXCEPT !.fed = shown] EXCEPT !.replies = Append(@, k)]
            BY <3>1, <3>2, Zenon
        <3> HIDE DEF e, shown, k
        <3>4. QED
            BY <1>1, <3>3 DEF Sense
    <2>9. Shown(v) = shown /\ v.replies = Append(w.replies, r)
        BY <2>2, <2>3, <2>4, <2>5
    <2> HIDE DEF shown, e
    <2>10. r \in Reply /\ (IF r.query = CursorQuery THEN r.value ELSE 0) = k
        <3>1. r.query = c /\ r.value = IF c = CursorQuery THEN Len(shown) ELSE w.size
            BY DEF AnswerTo
        <3>2. r \in Reply
            BY <1>1, <2>6, <2>7 DEF AnswerTo, Reply
        <3>3. QED
            BY <2>4, <3>1, <3>2
    <2> HIDE DEF r, k
    <2>11. AnswersOf(Cat(before, v.replies)) = Append(m.replies, k)
        <3>1. Cat(before, w.replies) \in Seq(Reply)
              /\ Cat(before, Append(w.replies, r)) = Append(Cat(before, w.replies), r)
            BY <1>1, <2>10, AnswerAdded
        <3>2. AnswersOf(Append(Cat(before, w.replies), r))
                = Append(AnswersOf(Cat(before, w.replies)), IF r.query = CursorQuery THEN r.value ELSE 0)
            BY <2>10, <3>1, AnswersGrow
        <3>3. QED
            BY <1>1, <2>9, <2>10, <3>1, <3>2, Zenon
    <2>12. Whole(e, v.term, Shown(v), Cat(before, v.replies))
        <3>1. Knows(e, v.term) /\ v.term.state = "ground"
            BY <2>3, <2>4, <2>8 DEF Knows
        <3>2. QED
            BY <2>8, <2>9, <2>11, <3>1, Zenon DEF Whole
    <2>13. j + 1 # 0
        BY <1>5
    <2>14. QED
        BY <2>1, <2>12, <2>13, Zenon DEF At, e
<1>6. j \in {0, 1, 2, 3}
    BY <1>1, <1>2
<1>7. QED
    BY <1>3, <1>4, <1>5, <1>6

\* Where a title is after its next byte: at its end in the ground, before it in the
\* string, with a note of an ESC.
LEMMA StringState ==
    ASSUME NEW item, item.op = "string", WellFormed(item), NEW j \in Nat,
           Len(item.bytes) \in Nat, j >= 2, j + 1 <= Len(item.bytes)
    PROVE  LET b == item.bytes
               x == item.bytes[j + 1]
               s == IF j >= 3 /\ b[j] = "ESC"
                    THEN IF x = "\\" THEN "ground" ELSE "string"
                    ELSE CASE x = "BEL" -> "ground" [] x = "ESC" -> "stringEscape" [] OTHER -> "string" IN
           IF j + 1 = Len(b) THEN s = "ground"
           ELSE s = IF x = "ESC" THEN "stringEscape" ELSE "string"
<1> DEFINE b == item.bytes
           n == Len(item.bytes)
           x == item.bytes[j + 1]
           s == IF j >= 3 /\ b[j] = "ESC"
                THEN IF x = "\\" THEN "ground" ELSE "string"
                ELSE CASE x = "BEL" -> "ground" [] x = "ESC" -> "stringEscape" [] OTHER -> "string"
<1>1. n \in Nat /\ n >= 3 /\ j + 1 <= n
      /\ \/ b[n] = "BEL" /\ \A i \in 3..(n - 1) : b[i] \notin {"BEL", "ESC"}
         \/ n >= 4 /\ b[n - 1] = "ESC" /\ b[n] = "\\" /\ \A i \in 3..(n - 2) : b[i] \notin {"BEL", "ESC"}
    BY DEF WellFormed
<1> SUFFICES IF j + 1 = n THEN s = "ground" ELSE s = IF x = "ESC" THEN "stringEscape" ELSE "string"
    OBVIOUS
<1> HIDE DEF b, n
<1>2. x = b[j + 1]
    BY DEF b
<1>3. CASE b[n] = "BEL" /\ \A i \in 3..(n - 1) : b[i] \notin {"BEL", "ESC"}
    <2>1. ~(j >= 3 /\ b[j] = "ESC")
        BY <1>1, <1>3
    <2>2. CASE j + 1 = n
        BY <1>2, <1>3, <2>1, <2>2
    <2>3. CASE j + 1 # n
        <3>1. x \notin {"BEL", "ESC"}
            BY <1>1, <1>2, <1>3, <2>3
        <3>2. QED
            BY <2>1, <2>3, <3>1
    <2>4. QED
        BY <2>2, <2>3
<1>4. CASE /\ n >= 4 /\ b[n - 1] = "ESC" /\ b[n] = "\\"
           /\ \A i \in 3..(n - 2) : b[i] \notin {"BEL", "ESC"}
    <2>1. CASE j + 1 = n
        <3>1. j >= 3 /\ j = n - 1
            BY <1>1, <1>4, <2>1
        <3>2. b[j] = "ESC" /\ x = "\\"
            BY <1>2, <1>4, <2>1, <3>1
        <3>3. QED
            BY <2>1, <3>1, <3>2
    <2>2. CASE j + 1 # n
        <3>1. j <= n - 2
            BY <1>1, <2>2
        <3>2. ~(j >= 3 /\ b[j] = "ESC")
            BY <1>1, <1>4, <3>1
        <3>3. x # "BEL"
            <4>1. CASE j + 1 = n - 1
                BY <1>2, <1>4, <4>1
            <4>2. CASE j + 1 # n - 1
                BY <1>1, <1>2, <1>4, <3>1, <4>2
            <4>3. QED
                BY <4>1, <4>2
        <3>4. QED
            BY <2>2, <3>2, <3>3
    <2>3. QED
        BY <2>1, <2>2
<1>5. QED
    BY <1>1, <1>3, <1>4

LEMMA StringStep ==
    ASSUME NEW m, NEW item, NEW j, NEW w, NEW v, NEW before, Step(m, item, j, w, v, before),
           item.op = "string"
    PROVE  At(m, item, j + 1, v.term, Shown(v), Cat(before, v.replies))
<1> DEFINE b == item.bytes
           n == Len(item.bytes)
           x == item.bytes[j + 1]
<1>1. /\ item \in Item /\ WellFormed(item) /\ n \in Nat /\ j \in Nat /\ j + 1 <= n /\ m \in Sense
      /\ m.fed \in Bytes /\ w \in World /\ w.term \in Terms /\ Knows(m, w.term)
      /\ x \in Octet /\ v = ProcessByte(w, x)
      /\ AnswersOf(Cat(before, w.replies)) = m.replies
    BY DEF Step
<1>2. n >= 3 /\ b[1] = "ESC" /\ b[2] \in {"]", "P"}
    BY <1>1 DEF WellFormed
<1>3. CASE j = 0
    <2>1. item.op # "text" /\ Len(item.bytes) > 1 /\ item.bytes[1] = "ESC"
        BY <1>1, <1>2
    <2>2. QED
        BY <1>3, <2>1, EscapeStep
<1>4. CASE j = 1
    <2> DEFINE y == item.bytes[2]
    <2>1. v = InEscape(w, y) /\ Shown(w) = m.fed /\ y \in Octet
        BY <1>4, SecondByte
    <2>2. y \in {"]", "P"}
        BY <1>2
    <2> HIDE DEF y
    <2>3. Moves(w, v, [w.term EXCEPT !.state = "string"], <<"ESC", y>>)
        BY <1>1, <2>1, <2>2, InEscapeMoves
    <2>4. v.term = [w.term EXCEPT !.state = "string"] /\ v.replies = w.replies
          /\ Shown(v) = Cat(m.fed, <<"ESC", y>>)
        BY <2>1, <2>3, Zenon DEF Moves
    <2>5. SubSeq(b, 1, 2) = <<"ESC", y>>
        BY <1>1, <1>2, FirstTwo DEF y
    <2>6. Knows(m, v.term) /\ v.term.state = "string"
        BY <1>1, <2>4 DEF Knows, Terms
    <2>7. Shown(v) = Cat(m.fed, SubSeq(item.bytes, 1, 2))
        BY <2>4, <2>5, Zenon
    <2>8. Midway(m, item, 2, v.term, Shown(v), Cat(before, w.replies))
        BY <1>1, <2>6, <2>7 DEF Midway
    <2>9. j + 1 = 2 /\ j + 1 # n
        <3>1. n >= 3 /\ n \in Nat
            BY <1>1, <1>2
        <3> HIDE DEF n
        <3>2. QED
            BY <1>4, <3>1
    <2>10. QED
        BY <2>4, <2>8, <2>9, GoesMidway
<1>5. CASE j >= 2
    <2> DEFINE esc == j >= 3 /\ item.bytes[j] = "ESC"
               s == IF esc THEN IF x = "\\" THEN "ground" ELSE "string"
                    ELSE CASE x = "BEL" -> "ground" [] x = "ESC" -> "stringEscape" [] OTHER -> "string"
    <2>1. Midway(m, item, j, w.term, Shown(w), Cat(before, w.replies))
        BY <1>5 DEF Step
    <2>2. w.term.state = (IF esc THEN "stringEscape" ELSE "string")
          /\ Shown(w) = Cat(m.fed, SubSeq(b, 1, j))
        BY <1>5, <2>1 DEF Midway
    <2> HIDE DEF x
    <2>3. Moves(w, v, [w.term EXCEPT !.state = s], <<x>>)
        <3>1. CASE esc
            <4>1. v = InStringEscape(w, x)
                BY <1>1, <2>2, <3>1 DEF ProcessByte
            <4>2. QED
                BY <1>1, <3>1, <4>1, InStringEscapeMoves
        <3>2. CASE ~esc
            <4>1. v = InString(w, x)
                BY <1>1, <2>2, <3>2 DEF ProcessByte
            <4>2. Moves(w, v, [w.term EXCEPT !.state = CASE x = "BEL" -> "ground"
                                                         [] x = "ESC" -> "stringEscape"
                                                         [] OTHER -> "string"], <<x>>)
                BY <1>1, <4>1, InStringMoves
            <4>3. s = CASE x = "BEL" -> "ground" [] x = "ESC" -> "stringEscape" [] OTHER -> "string"
                BY <3>2
            <4>4. QED
                BY <4>2, <4>3, Zenon
        <3>3. QED
            BY <3>1, <3>2
    <2>4. IF j + 1 = n THEN s = "ground" ELSE s = IF x = "ESC" THEN "stringEscape" ELSE "string"
        BY <1>1, <1>5, StringState DEF x
    <2> HIDE DEF s
    <2>5. Cat(Shown(w), <<x>>) = Cat(m.fed, SubSeq(b, 1, j + 1))
        <3>1. Cat(Cat(m.fed, SubSeq(b, 1, j)), <<x>>) = Cat(m.fed, SubSeq(b, 1, j + 1))
            BY <1>1, <1>5, PartGrows DEF x
        <3>2. QED
            BY <2>2, <3>1, Zenon
    <2>6. v.term = [w.term EXCEPT !.state = s] /\ v.replies = w.replies
          /\ Shown(v) = Cat(m.fed, SubSeq(b, 1, j + 1))
        BY <2>3, <2>5, Zenon DEF Moves
    <2>7. Knows(m, v.term) /\ v.term.state = s
        BY <1>1, <2>6 DEF Knows, Terms
    <2>8. CASE j + 1 = n
        <3>1. SubSeq(b, 1, n) = b
            BY <1>1, <1>2, FirstTwo
        <3>2. Shown(v) = Cat(m.fed, b)
            BY <2>6, <2>8, <3>1, Zenon
        <3> DEFINE e == Means(m, item)
        <3>3. e = [m EXCEPT !.fed = Cat(@, b)]
            BY MeansShown
        <3> HIDE DEF e
        <3>4. /\ e.g0 = m.g0 /\ e.g1 = m.g1 /\ e.usingG1 = m.usingG1 /\ e.cursorKeys = m.cursorKeys
              /\ e.mouse = m.mouse /\ e.replies = m.replies /\ e.fed = Cat(m.fed, b)
            BY <1>1, <3>3 DEF Sense
        <3>5. Knows(e, v.term) /\ Shown(v) = e.fed /\ v.term.state = "ground"
            BY <2>4, <2>7, <2>8, <3>2, <3>4 DEF Knows
        <3>6. QED
            BY <2>6, <2>8, <3>4, <3>5, GoesWhole DEF e
    <2>9. CASE j + 1 # n
        <3>1. v.term.state = IF j + 1 >= 3 /\ item.bytes[j + 1] = "ESC" THEN "stringEscape" ELSE "string"
            BY <1>1, <1>5, <2>4, <2>7, <2>9 DEF x
        <3>2. j + 1 >= 2
            BY <1>1, <1>5
        <3>3. Midway(m, item, j + 1, v.term, Shown(v), Cat(before, w.replies))
            BY <1>1, <2>6, <2>7, <3>1, <3>2 DEF Midway
        <3>4. QED
            BY <2>6, <2>9, <3>3, GoesMidway
    <2>10. QED
        BY <2>8, <2>9
<1>6. QED
    BY <1>1, <1>3, <1>4, <1>5

\* Whatever the item, and wherever it has been cut.
LEMMA ItemStep ==
    ASSUME NEW m, NEW item, NEW j, NEW w, NEW v, NEW before \in Seq(Reply),
           Reads(m, item, j, w, v, before)
    PROVE  At(m, item, j + 1, v.term, Shown(v), Cat(before, v.replies))
<1>1. Step(m, item, j, w, v, before)
    BY ReadsStep
<1>2. item.op \in {"text", "shift", "designate", "ask", "mode", "move", "string"}
    BY <1>1 DEF Step, WellFormed
<1>3. QED
    BY <1>1, <1>2, TextStep, ShiftStep, DesignateStep, AskStep, ModeStep, MoveStep, StringStep

\* Bytes keep the filter's world what it is, wherever it stands.
LEMMA ByteTyped ==
    ASSUME NEW w \in World, NEW b \in Octet, NEW v, v = ProcessByte(w, b)
    PROVE  v \in World
<1>1. w.term.state \in TermStates
    BY ShownOK DEF Terms
<1>2. CASE w.term.state = "ground"
    <2>1. v = InGround(w, b)
        BY <1>2 DEF ProcessByte
    <2>2. QED
        BY <2>1, InGroundMoves DEF Moves
<1>3. CASE w.term.state = "escape"
    <2>1. v = InEscape(w, b)
        BY <1>3 DEF ProcessByte
    <2>2. QED
        BY <2>1, InEscapeMoves DEF Moves
<1>4. CASE w.term.state \in {"(", ")"}
    <2>1. v = InCharset(w, b)
        BY <1>4 DEF ProcessByte
    <2>2. QED
        BY <2>1, InCharsetMoves DEF Moves
<1>5. CASE w.term.state = "csi"
    <2>1. v = InCsi(w, b)
        BY <1>5 DEF ProcessByte
    <2>2. QED
        BY <2>1, InCsiMoves DEF Moves, Answers
<1>6. CASE w.term.state = "string"
    <2>1. v = InString(w, b)
        BY <1>6 DEF ProcessByte
    <2>2. QED
        BY <2>1, InStringMoves DEF Moves
<1>7. CASE w.term.state = "stringEscape"
    <2>1. v = InStringEscape(w, b)
        BY <1>7 DEF ProcessByte
    <2>2. QED
        BY <2>1, InStringEscapeMoves DEF Moves
<1>8. QED
    BY <1>1, <1>2, <1>3, <1>4, <1>5, <1>6, <1>7 DEF TermStates

(***************************************************************************)
(* The functions by recursion: there is one, and it does what its body     *)
(* says.                                                                   *)
(***************************************************************************)

\* f starts with x, and F[i] makes its value at i of the one before.
Unfolds(f, x, F, n) == f[0] = x /\ \A i \in 1..n : f[i] = F[i][f[i - 1]]

LEMMA Recursion ==
    ASSUME NEW N \in Nat, NEW X, NEW x \in X, NEW F \in [1..N -> [X -> X]]
    PROVE  \E f \in [0..N -> X] : Unfolds(f, x, F, N)
<1> DEFINE S == {n \in 0..N : \E f \in [0..n -> X] : Unfolds(f, x, F, n)}
<1>1. 0 \in S
    <2> DEFINE f == [i \in 0..0 |-> x]
    <2>1. f \in [0..0 -> X] /\ f[0] = x
        OBVIOUS
    <2> HIDE DEF f
    <2>2. Unfolds(f, x, F, 0)
        BY <2>1 DEF Unfolds
    <2>3. QED
        BY <2>1, <2>2
<1>2. ASSUME NEW n \in 1..N, n - 1 \in S PROVE n \in S
    <2>1. PICK c \in [0..(n - 1) -> X] : Unfolds(c, x, F, n - 1)
        BY <1>2
    <2> DEFINE e == F[n][c[n - 1]]
               f == [i \in 0..n |-> IF i = n THEN e ELSE c[i]]
    <2>2. e \in X
        BY <2>1
    <2> HIDE DEF e
    <2>3. f \in [0..n -> X]
        BY <2>2
    <2>4. f[0] = c[0] /\ f[n] = e /\ f[n - 1] = c[n - 1]
          /\ \A i \in 1..(n - 1) : f[i] = c[i] /\ f[i - 1] = c[i - 1]
        OBVIOUS
    <2> HIDE DEF f
    <2>5. \A i \in 1..n : i = n \/ i \in 1..(n - 1)
        OBVIOUS
    <2>6. Unfolds(f, x, F, n)
        <3>1. f[0] = x
            BY <2>1, <2>4, Zenon DEF Unfolds
        <3>2. f[n] = F[n][f[n - 1]]
            BY <2>4 DEF e
        <3>3. ASSUME NEW i \in 1..(n - 1) PROVE f[i] = F[i][f[i - 1]]
            <4>1. c[i] = F[i][c[i - 1]]
                BY <2>1, Zenon DEF Unfolds
            <4>2. QED
                BY <2>4, <4>1
        <3>4. QED
            BY <2>5, <3>1, <3>2, <3>3, Zenon DEF Unfolds
    <2>7. QED
        BY <2>3, <2>6
<1> HIDE DEF S
<1>3. \A i \in 0..N : i \in S
    BY <1>1, <1>2, Climb
<1>4. QED
    BY <1>3 DEF S

\* What w has become after each byte.
LEMMA ProcessedRuns ==
    ASSUME NEW w \in World, NEW chunk \in Bytes
    PROVE  /\ ProcessedUpTo(w, chunk)[0] = w
           /\ \A i \in 1..Len(chunk) : /\ chunk[i] \in Octet
                                       /\ ProcessedUpTo(w, chunk)[i]
                                            = ProcessByte(ProcessedUpTo(w, chunk)[i - 1], chunk[i])
           /\ \A i \in 0..Len(chunk) : ProcessedUpTo(w, chunk)[i] \in World
<1> DEFINE N == Len(chunk)
           F == [i \in 1..N |-> [y \in World |-> ProcessByte(y, chunk[i])]]
           p == ProcessedUpTo(w, chunk)
           Body(f, i) == IF i = 0 THEN w ELSE ProcessByte(f[i - 1], chunk[i])
<1>1. N \in Nat /\ \A i \in 1..N : chunk[i] \in Octet
    BY LenProperties, ElementOfSeq DEF Bytes
<1>2. F \in [1..N -> [World -> World]]
    <2>1. \A i \in 1..N : \A y \in World : ProcessByte(y, chunk[i]) \in World
        BY <1>1, ByteTyped
    <2> HIDE DEF N
    <2>2. QED
        BY <2>1
<1> HIDE DEF N
<1>3. \A i \in 1..N : \A y \in World : F[i][y] = ProcessByte(y, chunk[i])
    OBVIOUS
<1> HIDE DEF F
<1>4. PICK f \in [0..N -> World] : Unfolds(f, w, F, N)
    BY <1>1, <1>2, Recursion
<1>5. \A i \in 0..N : f[i] = Body(f, i)
    <2>1. \A i \in 1..N : f[i] = ProcessByte(f[i - 1], chunk[i])
        <3>1. \A i \in 1..N : i - 1 \in 0..N
            BY <1>1
        <3>2. QED
            BY <1>3, <1>4, <3>1 DEF Unfolds
    <2>2. f[0] = w
        BY <1>4, Zenon DEF Unfolds
    <2>3. \A i \in 0..N : i = 0 \/ i \in 1..N
        BY <1>1
    <2>4. QED
        BY <2>1, <2>2, <2>3
<1>6. f = [i \in 0..N |-> Body(f, i)]
    <2> HIDE DEF Body
    <2>1. QED
        BY <1>4, <1>5
<1>7. p = [i \in 0..N |-> Body(p, i)]
    BY <1>6, Zenon DEF ProcessedUpTo, N
<1> HIDE DEF p
<1>8. \A i \in 0..N : p[i] = Body(p, i)
    <2> HIDE DEF Body
    <2>1. QED
        BY <1>7
<1>9. p[0] = w /\ \A i \in 1..N : p[i] = ProcessByte(p[i - 1], chunk[i])
    BY <1>1, <1>8
<1> DEFINE S == {i \in 0..N : p[i] \in World}
<1>10. 0 \in S /\ \A i \in 1..N : i - 1 \in S => i \in S
    BY <1>1, <1>9, ByteTyped
<1> HIDE DEF S
<1>11. \A i \in 0..N : i \in S
    BY <1>1, <1>10, Climb
<1>12. QED
    BY <1>1, <1>9, <1>11 DEF p, N, S

LEMMA GlyphsOK ==
    ASSUME NEW m, NEW item \in Item
    PROVE  Glyphs(m, item.bytes, Len(item.bytes)) \in Bytes
<1> DEFINE b == item.bytes
           G(i) == IF (IF m.usingG1 THEN m.g1 ELSE m.g0) /\ b[i] = "q" THEN "line" ELSE b[i]
<1>1. Len(b) \in Nat /\ \A i \in 1..Len(b) : G(i) \in Octet
    BY ItemOK DEF Octet
<1>2. Glyphs(m, b, Len(b)) = [i \in 1..Len(b) |-> G(i)]
    BY DEF Glyphs
<1> HIDE DEF b, G
<1>3. [i \in 1..Len(b) |-> G(i)] \in Seq(Octet)
    BY <1>1, IsASeq
<1>4. QED
    BY <1>2, <1>3, Zenon DEF Bytes, b

LEMMA MeansTyped ==
    ASSUME NEW m \in Sense, NEW item \in Item, WellFormed(item)
    PROVE  Means(m, item) \in Sense
<1> DEFINE b == item.bytes
           e == Means(m, item)
           f == Cat(m.fed, b)
           shown == [m EXCEPT !.fed = f]
<1>1. b \in Bytes /\ m.fed \in Bytes /\ f \in Bytes /\ Len(f) \in Nat /\ m.replies \in Seq(Nat)
      /\ m.mouse \in SUBSET MouseModes
    <2>1. b \in Bytes /\ m.fed \in Bytes
        BY ItemOK DEF Sense
    <2>2. f \in Bytes
        BY <2>1, Join
    <2>3. Len(f) \in Nat
        BY <2>2, LenProperties DEF Bytes
    <2>4. QED
        BY <2>1, <2>2, <2>3 DEF Sense
<1>2. item.op \in {"text", "shift", "designate", "ask", "mode", "move", "string"}
    BY DEF WellFormed
<1>3. CASE item.op = "text"
    <2>1. e = [m EXCEPT !.fed = Cat(@, Glyphs(m, b, Len(b)))]
        BY <1>3, ItemOK, MeansShown
    <2> DEFINE g == Cat(m.fed, Glyphs(m, b, Len(b)))
    <2>2. g \in Bytes
        BY <1>1, GlyphsOK, Join
    <2> HIDE DEF g, e
    <2>3. e = [m EXCEPT !.fed = g]
        BY <2>1 DEF g
    <2>4. QED
        BY <2>2, <2>3 DEF Sense, e
<1>4. CASE item.op \in {"shift", "designate"}
    <2>1. \/ \E x \in BOOLEAN : e = [m EXCEPT !.usingG1 = x]
          \/ \E x \in BOOLEAN : e = [m EXCEPT !.g0 = x]
          \/ \E x \in BOOLEAN : e = [m EXCEPT !.g1 = x]
        <3> DEFINE so == "SO" \in ToSet(b)
                   open == "(" \in ToSet(b)
                   zero == "0" \in ToSet(b)
        <3>1. item.op = "shift" => e = [m EXCEPT !.usingG1 = so]
            BY MeansShown
        <3>2. item.op = "designate" => e = IF open THEN [m EXCEPT !.g0 = zero]
                                                   ELSE [m EXCEPT !.g1 = zero]
            BY MeansShown
        <3>3. so \in BOOLEAN /\ open \in BOOLEAN /\ zero \in BOOLEAN
            OBVIOUS
        <3> HIDE DEF e, so, open, zero
        <3>4. CASE item.op = "shift"
            BY <3>1, <3>3, <3>4
        <3>5. CASE item.op = "designate" /\ open
            BY <3>2, <3>3, <3>5
        <3>6. CASE item.op = "designate" /\ ~open
            BY <3>2, <3>3, <3>6
        <3>7. QED
            BY <1>4, <3>3, <3>4, <3>5, <3>6
    <2> HIDE DEF e
    <2>2. PICK x \in BOOLEAN : \/ e = [m EXCEPT !.usingG1 = x]
                             \/ e = [m EXCEPT !.g0 = x]
                             \/ e = [m EXCEPT !.g1 = x]
        BY <2>1
    <2>3. e \in Sense
        BY <2>2 DEF Sense
    <2>4. QED
        BY <2>3 DEF e
<1>5. CASE item.op = "ask"
    <2> DEFINE k == IF "6" \in ToSet(b) THEN Len(f) ELSE 0
    <2>1. e = [shown EXCEPT !.replies = Append(@, IF "6" \in ToSet(b) THEN Len(shown.fed) ELSE 0)]
        BY <1>5 DEF Means, Cat
    <2>2. shown.fed = f /\ shown.replies = m.replies
        BY DEF Sense
    <2>3. k \in Nat
        BY <1>1
    <2> DEFINE rs == Append(m.replies, k)
    <2>4. rs \in Seq(Nat)
        BY <1>1, <2>3, AppendProperties
    <2>5. e = [shown EXCEPT !.replies = rs]
        BY <2>1, <2>2
    <2> HIDE DEF e, f, rs, k
    <2>6. QED
        BY <1>1, <2>4, <2>5 DEF Sense, e
<1>6. CASE item.op = "mode"
    <2> DEFINE all == ToSet(b)
               on == Last(b) = "h"
               keys == IF "1" \in all THEN on ELSE m.cursorKeys
               mice == IF on THEN m.mouse \cup (all \cap MouseModes) ELSE m.mouse \ all
    <2>1. keys \in BOOLEAN
        <3>1. m.cursorKeys \in BOOLEAN
            BY DEF Sense
        <3>2. QED
            BY <3>1
    <2>2. mice \in SUBSET MouseModes
        BY <1>1
    <2>3. e = [shown EXCEPT !.cursorKeys = IF "1" \in all THEN on ELSE @,
                            !.mouse = IF on THEN @ \cup (all \cap MouseModes) ELSE @ \ all]
        BY <1>6 DEF Means, Cat
    <2> HIDE DEF f, all, on, e
    <2>4. shown.cursorKeys = m.cursorKeys /\ shown.mouse = m.mouse
        BY DEF Sense
    <2>5. e = [shown EXCEPT !.cursorKeys = keys, !.mouse = mice]
        BY <2>3, <2>4
    <2> HIDE DEF keys, mice
    <2>6. QED
        BY <1>1, <2>1, <2>2, <2>5 DEF Sense, e
<1>7. CASE item.op = "move"
    <2> DEFINE g == Cat(Cat(m.fed, Front(b)), <<"H">>)
    <2>1. Front(b) \in Bytes
        <3>1. Len(b) \in Nat \ {0} /\ \A i \in 1..Len(b) : b[i] \in Octet
            BY ItemOK
        <3>2. SubSeq(b, 1, Len(b) - 1) \in Bytes
            <4>1. \A i \in 1..(Len(b) - 1) : b[i] \in Octet
                BY <3>1
            <4> HIDE DEF b
            <4>2. QED
                BY <3>1, <4>1, SubSeqProperties DEF Bytes
        <3>3. QED
            BY <3>2 DEF Front
    <2>2. <<"H">> \in Bytes
        BY DEF Bytes, Octet
    <2>3. g \in Bytes
        <3>1. Cat(m.fed, Front(b)) \in Bytes
            BY <1>1, <2>1, Join
        <3>2. QED
            BY <2>2, <3>1, Join
    <2>4. e = [m EXCEPT !.fed = Cat(Cat(@, Front(b)), <<"H">>)]
        BY <1>7, MeansShown
    <2> HIDE DEF g, e
    <2>5. e = [m EXCEPT !.fed = g]
        BY <2>4 DEF g
    <2>6. QED
        BY <2>3, <2>5 DEF Sense, e
<1>8. CASE item.op = "string"
    <2>1. e = shown
        BY <1>8, MeansShown
    <2> HIDE DEF f, e
    <2>2. QED
        BY <1>1, <2>1 DEF Sense, e
<1>9. QED
    BY <1>2, <1>3, <1>4, <1>5, <1>6, <1>7, <1>8

\* What the items mean, one after the other.
LEMMA MeaningRuns ==
    ASSUME NEW items \in Seq(Item), \A item \in Item : WellFormed(item)
    PROVE  /\ Meaning(items)[0] = Blank
           /\ \A k \in 1..Len(items) : Meaning(items)[k] = Means(Meaning(items)[k - 1], items[k])
           /\ \A k \in 0..Len(items) : Meaning(items)[k] \in Sense
<1> DEFINE N == Len(items)
           F == [i \in 1..N |-> [y \in Sense |-> Means(y, items[i])]]
           p == Meaning(items)
           Body(f, k) == IF k = 0 THEN Blank ELSE Means(f[k - 1], items[k])
<1>1. N \in Nat /\ (\A i \in 1..N : items[i] \in Item) /\ Blank \in Sense
    <2>1. Blank \in Sense
        BY DEF Blank, Sense, Bytes
    <2>2. QED
        BY <2>1, LenProperties, ElementOfSeq
<1>2. F \in [1..N -> [Sense -> Sense]]
    <2>1. \A i \in 1..N : \A y \in Sense : Means(y, items[i]) \in Sense
        BY <1>1, MeansTyped
    <2> HIDE DEF N
    <2>2. QED
        BY <2>1
<1> HIDE DEF N
<1>3. \A i \in 1..N : \A y \in Sense : F[i][y] = Means(y, items[i])
    OBVIOUS
<1> HIDE DEF F
<1>4. PICK f \in [0..N -> Sense] : Unfolds(f, Blank, F, N)
    BY <1>1, <1>2, Recursion
<1>5. \A k \in 0..N : f[k] = Body(f, k)
    <2>1. \A k \in 1..N : f[k] = Means(f[k - 1], items[k])
        <3>1. \A k \in 1..N : k - 1 \in 0..N
            BY <1>1
        <3>2. QED
            BY <1>3, <1>4, <3>1 DEF Unfolds
    <2>2. f[0] = Blank
        BY <1>4, Zenon DEF Unfolds
    <2>3. \A k \in 0..N : k = 0 \/ k \in 1..N
        BY <1>1
    <2>4. QED
        BY <2>1, <2>2, <2>3
<1>6. f = [k \in 0..N |-> Body(f, k)]
    <2> HIDE DEF Body
    <2>1. QED
        BY <1>4, <1>5
<1>7. p = [k \in 0..N |-> Body(p, k)]
    BY <1>6, Zenon DEF Meaning, N
<1> HIDE DEF p
<1>8. \A k \in 0..N : p[k] = Body(p, k)
    <2> HIDE DEF Body
    <2>1. QED
        BY <1>7
<1>9. p[0] = Blank /\ \A k \in 1..N : p[k] = Means(p[k - 1], items[k])
    BY <1>1, <1>8
<1> DEFINE S == {k \in 0..N : p[k] \in Sense}
<1>10. 0 \in S /\ \A k \in 1..N : k - 1 \in S => k \in S
    BY <1>1, <1>9, MeansTyped
<1> HIDE DEF S
<1>11. \A k \in 0..N : k \in S
    BY <1>1, <1>10, Climb
<1>12. QED
    BY <1>1, <1>9, <1>11 DEF p, N, S

\* Where they begin and end in the stream.
LEMMA OffsetRuns ==
    ASSUME NEW items \in Seq(Item)
    PROVE  /\ Offset(items)[0] = 0
           /\ \A k \in 1..Len(items) : Offset(items)[k] = Offset(items)[k - 1] + Len(items[k].bytes)
           /\ \A k \in 0..Len(items) : Offset(items)[k] \in Nat
           /\ \A k \in 0..Len(items) : Offset(items)[k] <= Offset(items)[Len(items)]
<1> DEFINE N == Len(items)
           F == [i \in 1..N |-> [y \in Nat |-> y + Len(items[i].bytes)]]
           p == Offset(items)
           Body(f, k) == IF k = 0 THEN 0 ELSE f[k - 1] + Len(items[k].bytes)
<1>1. N \in Nat /\ \A i \in 1..N : Len(items[i].bytes) \in Nat
    BY LenProperties, ElementOfSeq, ItemOK
<1>2. F \in [1..N -> [Nat -> Nat]]
    <2> HIDE DEF N
    <2>1. \A i \in 1..N : \A y \in Nat : y + Len(items[i].bytes) \in Nat
        BY <1>1
    <2>2. QED
        BY <2>1
<1> HIDE DEF N
<1>3. \A i \in 1..N : \A y \in Nat : F[i][y] = y + Len(items[i].bytes)
    OBVIOUS
<1> HIDE DEF F
<1>4. PICK f \in [0..N -> Nat] : Unfolds(f, 0, F, N)
    BY <1>1, <1>2, Recursion
<1>5. \A k \in 0..N : f[k] = Body(f, k)
    <2>1. \A k \in 1..N : f[k] = f[k - 1] + Len(items[k].bytes)
        <3>1. \A k \in 1..N : k - 1 \in 0..N
            BY <1>1
        <3>2. QED
            BY <1>3, <1>4, <3>1 DEF Unfolds
    <2>2. f[0] = 0
        BY <1>4, Zenon DEF Unfolds
    <2>3. \A k \in 0..N : k = 0 \/ k \in 1..N
        BY <1>1
    <2>4. QED
        BY <2>1, <2>2, <2>3
<1>6. f = [k \in 0..N |-> Body(f, k)]
    <2> HIDE DEF Body
    <2>1. QED
        BY <1>4, <1>5
<1>7. p = [k \in 0..N |-> Body(p, k)]
    BY <1>6, Zenon DEF Offset, N
<1> HIDE DEF p
<1>8. \A k \in 0..N : p[k] = Body(p, k)
    <2> HIDE DEF Body
    <2>1. QED
        BY <1>7
<1>9. p[0] = 0 /\ \A k \in 1..N : p[k] = p[k - 1] + Len(items[k].bytes)
    BY <1>1, <1>8
<1> DEFINE S == {k \in 0..N : p[k] \in Nat /\ \A i \in 0..k : p[i] \in Nat /\ p[i] <= p[k]}
<1>10. 0 \in S
    BY <1>1, <1>9
<1>11. ASSUME NEW k \in 1..N, k - 1 \in S PROVE k \in S
    <2>1. p[k] = p[k - 1] + Len(items[k].bytes) /\ p[k - 1] \in Nat /\ Len(items[k].bytes) \in Nat
        BY <1>1, <1>9, <1>11
    <2>2. p[k] \in Nat /\ p[k - 1] <= p[k]
        BY <2>1
    <2>3. \A i \in 0..k : i = k \/ i \in 0..(k - 1)
        OBVIOUS
    <2>4. ASSUME NEW i \in 0..(k - 1) PROVE p[i] \in Nat /\ p[i] <= p[k]
        <3>1. p[i] <= p[k - 1] /\ p[i] \in Nat
            BY <1>11
        <3>2. QED
            BY <2>1, <2>2, <3>1
    <2>5. QED
        BY <1>1, <2>2, <2>3, <2>4
<1> HIDE DEF S
<1>12. \A k \in 0..N : k \in S
    BY <1>1, <1>10, <1>11, Climb
<1>13. QED
    BY <1>1, <1>9, <1>12 DEF p, N, S

\* An item more changes nothing for those before it.
LEMMA ItemAdded ==
    ASSUME NEW items \in Seq(Item), NEW item \in Item, \A i \in Item : WellFormed(i)
    PROVE  LET more == Append(items, item) IN
           /\ more \in Seq(Item) /\ Len(more) = Len(items) + 1
           /\ more[Len(items) + 1] = item
           /\ \A k \in 1..Len(items) : more[k] = items[k]
           /\ \A k \in 0..Len(items) : /\ Meaning(more)[k] = Meaning(items)[k]
                                       /\ Offset(more)[k] = Offset(items)[k]
           /\ Offset(more)[Len(items) + 1] = Offset(items)[Len(items)] + Len(item.bytes)
<1> DEFINE more == Append(items, item)
           N == Len(items)
           p == Meaning(items)
           q == Meaning(more)
           f == Offset(items)
           g == Offset(more)
<1>1. /\ more \in Seq(Item) /\ Len(more) = N + 1 /\ more[N + 1] = item
      /\ \A k \in 1..N : more[k] = items[k]
    BY AppendProperties
<1>2. N \in Nat
    BY LenProperties
<1>3. /\ p[0] = Blank /\ f[0] = 0
      /\ \A k \in 1..N : p[k] = Means(p[k - 1], items[k])
      /\ \A k \in 1..N : f[k] = f[k - 1] + Len(items[k].bytes)
    BY MeaningRuns, OffsetRuns
<1> HIDE DEF more
<1>4. /\ q[0] = Blank /\ g[0] = 0
      /\ \A k \in 1..Len(more) : q[k] = Means(q[k - 1], more[k])
      /\ \A k \in 1..Len(more) : g[k] = g[k - 1] + Len(more[k].bytes)
    BY <1>1, MeaningRuns, OffsetRuns
<1> HIDE DEF N, p, q, f, g
<1> DEFINE S == {k \in 0..N : q[k] = p[k] /\ g[k] = f[k]}
<1>5. 0 \in S
    BY <1>2, <1>3, <1>4
<1>6. ASSUME NEW k \in 1..N, k - 1 \in S PROVE k \in S
    <2>1. k \in 1..Len(more) /\ more[k] = items[k]
        BY <1>1, <1>2
    <2>2. q[k - 1] = p[k - 1] /\ g[k - 1] = f[k - 1] /\ k \in 0..N
        BY <1>6
    <2>3. q[k] = p[k]
        BY <1>3, <1>4, <2>1, <2>2
    <2>4. g[k] = f[k]
        BY <1>3, <1>4, <2>1, <2>2
    <2>5. QED
        BY <2>2, <2>3, <2>4
<1> HIDE DEF S
<1>7. \A k \in 0..N : k \in S
    BY <1>2, <1>5, <1>6, Climb
<1>8. \A k \in 0..N : q[k] = p[k] /\ g[k] = f[k]
    BY <1>7 DEF S
<1>9. g[N + 1] = f[N] + Len(item.bytes)
    <2>1. N + 1 \in 1..Len(more) /\ N + 1 - 1 = N /\ N \in 0..N
        BY <1>1, <1>2
    <2>2. g[N + 1] = g[N + 1 - 1] + Len(more[N + 1].bytes)
        BY <1>4, <2>1
    <2>3. QED
        BY <1>1, <1>8, <2>1, <2>2
<1>10. QED
    BY <1>1, <1>8, <1>9 DEF more, N, p, q, f, g

\* The answers among what is written.
AnswerRecords(records) ==
    /\ \E S : records \in Seq(S)
    /\ \A i \in 1..Len(records) : records[i].kind = "answer" => records[i].data \in Reply

\* One record after the answers y.
Gives(y, r) == IF r.kind = "answer" THEN Append(y, r.data) ELSE y

LEMMA GivenRuns ==
    ASSUME NEW records, AnswerRecords(records)
    PROVE  /\ Given(records)[0] = <<>>
           /\ \A i \in 1..Len(records) :
                Given(records)[i] = IF records[i].kind = "answer"
                                    THEN Append(Given(records)[i - 1], records[i].data)
                                    ELSE Given(records)[i - 1]
           /\ \A i \in 0..Len(records) : Given(records)[i] \in Seq(Reply)
           /\ Len(records) \in Nat
<1> DEFINE N == Len(records)
           F == [i \in 1..N |-> [y \in Seq(Reply) |-> Gives(y, records[i])]]
           p == Given(records)
           Body(f, i) == IF i = 0 THEN <<>> ELSE Gives(f[i - 1], records[i])
<1>1. N \in Nat /\ <<>> \in Seq(Reply)
    BY LenProperties DEF AnswerRecords
<1>2. ASSUME NEW i \in 1..N, NEW y \in Seq(Reply) PROVE Gives(y, records[i]) \in Seq(Reply)
    <2>1. CASE records[i].kind = "answer"
        <3>1. records[i].data \in Reply
            BY <2>1 DEF AnswerRecords
        <3>2. QED
            BY <2>1, <3>1, AppendProperties DEF Gives
    <2>2. CASE records[i].kind # "answer"
        BY <2>2 DEF Gives
    <2>3. QED
        BY <2>1, <2>2
<1> HIDE DEF N
<1>3. F \in [1..N -> [Seq(Reply) -> Seq(Reply)]]
    BY <1>2
<1>4. \A i \in 1..N : \A y \in Seq(Reply) : F[i][y] = Gives(y, records[i])
    OBVIOUS
<1> HIDE DEF F
<1>5. PICK f \in [0..N -> Seq(Reply)] : Unfolds(f, <<>>, F, N)
    BY <1>1, <1>3, Recursion
<1>6. \A i \in 0..N : f[i] = Body(f, i)
    <2>1. \A i \in 1..N : f[i] = Gives(f[i - 1], records[i])
        <3>1. \A i \in 1..N : i - 1 \in 0..N
            BY <1>1
        <3>2. QED
            BY <1>4, <1>5, <3>1 DEF Unfolds
    <2>2. f[0] = <<>>
        BY <1>5, Zenon DEF Unfolds
    <2>3. \A i \in 0..N : i = 0 \/ i \in 1..N
        BY <1>1
    <2>4. QED
        BY <2>1, <2>2, <2>3
<1>7. f = [i \in 0..N |-> Body(f, i)]
    <2> HIDE DEF Body
    <2>1. QED
        BY <1>5, <1>6
<1>8. p = [i \in 0..N |-> Body(p, i)]
    BY <1>7, Zenon DEF Given, N, Gives
<1> HIDE DEF p
<1>9. \A i \in 0..N : p[i] = Body(p, i)
    <2> HIDE DEF Body
    <2>1. QED
        BY <1>8
<1>10. p[0] = <<>> /\ \A i \in 1..N : p[i] = Gives(p[i - 1], records[i])
    BY <1>1, <1>9
<1> DEFINE S == {i \in 0..N : p[i] \in Seq(Reply)}
<1>11. 0 \in S
    <2>1. 0 \in 0..N
        BY <1>1
    <2>2. p[0] \in Seq(Reply)
        BY <1>1, <1>10, Zenon
    <2>3. QED
        BY <2>1, <2>2
<1>12. ASSUME NEW i \in 1..N, i - 1 \in S PROVE i \in S
    <2>1. p[i - 1] \in Seq(Reply) /\ i \in 0..N
        BY <1>12
    <2>2. Gives(p[i - 1], records[i]) \in Seq(Reply)
        BY <1>2, <2>1
    <2>3. p[i] \in Seq(Reply)
        BY <1>10, <2>2
    <2>4. QED
        BY <2>1, <2>3
<1> HIDE DEF S
<1>14. \A i \in 0..N : i \in S
    BY <1>1, <1>11, <1>12, Climb
<1>13. QED
    BY <1>1, <1>10, <1>14 DEF p, N, S, Gives

\* All of them.
GivenAll(records) == Given(records)[Len(records)]

LEMMA GivenAdded ==
    ASSUME NEW records, AnswerRecords(records), NEW r, r.kind = "answer" => r.data \in Reply
    PROVE  /\ AnswerRecords(Append(records, r))
           /\ GivenAll(Append(records, r)) = IF r.kind = "answer"
                                             THEN Append(GivenAll(records), r.data)
                                             ELSE GivenAll(records)
<1> DEFINE more == Append(records, r)
           N == Len(records)
           p == Given(records)
           q == Given(more)
<1>1. PICK T : records \in Seq(T)
    BY DEF AnswerRecords
<1> DEFINE U == T \cup {r}
<1>2. records \in Seq(U) /\ r \in U /\ N \in Nat
    BY <1>1, SeqMonotonic, LenProperties
<1>3. /\ more \in Seq(U) /\ Len(more) = N + 1 /\ more[N + 1] = r
      /\ \A i \in 1..N : more[i] = records[i]
    BY <1>2, AppendProperties
<1>4. \A i \in 1..(N + 1) : i = N + 1 \/ i \in 1..N
    BY <1>2
<1>5. \A i \in 1..N : records[i].kind = "answer" => records[i].data \in Reply
    BY DEF AnswerRecords
<1> HIDE DEF more, N, U
<1>6. AnswerRecords(more)
    BY <1>3, <1>4, <1>5 DEF AnswerRecords
<1>7. p[0] = <<>> /\ \A i \in 1..N : p[i] = Gives(p[i - 1], records[i])
    BY GivenRuns DEF N, Gives
<1>8. q[0] = <<>> /\ \A i \in 1..Len(more) : q[i] = Gives(q[i - 1], more[i])
    BY <1>6, GivenRuns DEF Gives
<1> HIDE DEF p, q
<1> DEFINE S == {i \in 0..N : q[i] = p[i]}
<1>9. 0 \in S
    BY <1>2, <1>7, <1>8
<1>10. ASSUME NEW i \in 1..N, i - 1 \in S PROVE i \in S
    <2>1. i \in 1..Len(more) /\ more[i] = records[i] /\ q[i - 1] = p[i - 1] /\ i \in 0..N
        BY <1>2, <1>3, <1>10
    <2>2. q[i] = p[i]
        BY <1>7, <1>8, <2>1
    <2>3. QED
        BY <2>1, <2>2
<1> HIDE DEF S
<1>11. \A i \in 0..N : i \in S
    BY <1>2, <1>9, <1>10, Climb
<1>12. q[N] = p[N]
    BY <1>2, <1>11 DEF S
<1>13. q[N + 1] = Gives(p[N], r)
    <2>1. PICK k \in 1..Len(more) : k = N + 1 /\ k - 1 = N
        BY <1>2, <1>3
    <2>2. q[k] = Gives(q[k - 1], more[k])
        BY <1>8
    <2>3. q[k] = Gives(p[N], r)
        BY <1>3, <1>12, <2>1, <2>2, Zenon
    <2>4. QED
        BY <2>1, <2>3, Zenon
<1>14. QED
    BY <1>3, <1>6, <1>13, Zenon DEF GivenAll, more, N, p, q, Gives

(***************************************************************************)
(* Reading: r bytes of the stream have been read, wherever that is.        *)
(***************************************************************************)

\* Between two items all before is understood, and within one the part of it.
Understood(items, r, t, shown, replies) ==
    \A k \in 0..Len(items) :
        /\ r = Offset(items)[k] => Whole(Meaning(items)[k], t, shown, replies)
        /\ k < Len(items) =>
            \A j \in 1..(Len(items[k + 1].bytes) - 1) :
                r = Offset(items)[k] + j => Midway(Meaning(items)[k], items[k + 1], j, t, shown, replies)

\* b is the byte of the stream that comes after r bytes.
ByteIs(items, r, b) ==
    \A k \in 0..(Len(items) - 1) : \A j \in 0..(Len(items[k + 1].bytes) - 1) :
        r = Offset(items)[k] + j => b = items[k + 1].bytes[j + 1]

\* The values there are.
LEMMA StreamOK ==
    ASSUME NEW items \in Seq(Item), \A item \in Item : WellFormed(item)
    PROVE  /\ Len(items) \in Nat
           /\ \A k \in 0..Len(items) : Offset(items)[k] \in Nat /\ Meaning(items)[k] \in Sense
           /\ \A k \in 0..(Len(items) - 1) :
                /\ items[k + 1] \in Item /\ WellFormed(items[k + 1])
                /\ Len(items[k + 1].bytes) \in Nat \ {0}
                /\ Offset(items)[k + 1] = Offset(items)[k] + Len(items[k + 1].bytes)
                /\ Meaning(items)[k + 1] = Means(Meaning(items)[k], items[k + 1])
<1>1. Len(items) \in Nat /\ \A k \in 1..Len(items) : items[k] \in Item
    BY LenProperties, ElementOfSeq
<1>2. \A k \in 0..Len(items) : Offset(items)[k] \in Nat /\ Meaning(items)[k] \in Sense
    BY OffsetRuns, MeaningRuns
<1> DEFINE N == Len(items)
           off == Offset(items)
           ms == Meaning(items)
<1>3. /\ \A k \in 1..N : off[k] = off[k - 1] + Len(items[k].bytes)
      /\ \A k \in 1..N : ms[k] = Means(ms[k - 1], items[k])
    BY OffsetRuns, MeaningRuns
<1>4. \A k \in 1..N : items[k] \in Item /\ Len(items[k].bytes) \in Nat \ {0}
    BY <1>1, ItemOK
<1> HIDE DEF N, off, ms
<1>5. ASSUME NEW k \in 0..(N - 1)
      PROVE  /\ items[k + 1] \in Item /\ WellFormed(items[k + 1])
             /\ Len(items[k + 1].bytes) \in Nat \ {0}
             /\ off[k + 1] = off[k] + Len(items[k + 1].bytes)
             /\ ms[k + 1] = Means(ms[k], items[k + 1])
    <2>1. PICK i \in 1..N : i = k + 1 /\ i - 1 = k
        BY <1>1 DEF N
    <2>2. /\ items[i] \in Item /\ WellFormed(items[i]) /\ Len(items[i].bytes) \in Nat \ {0}
          /\ off[i] = off[i - 1] + Len(items[i].bytes)
          /\ ms[i] = Means(ms[i - 1], items[i])
        BY <1>3, <1>4
    <2>3. QED
        BY <2>1, <2>2, Zenon
<1>6. QED
    BY <1>1, <1>2, <1>5 DEF N, off, ms

\* One byte, of whatever item it is.
LEMMA ByteUnderstood ==
    ASSUME NEW items \in Seq(Item), \A item \in Item : WellFormed(item),
           NEW before \in Seq(Reply), NEW r \in Nat, NEW w \in World, NEW b,
           Understood(items, r, w.term, Shown(w), Cat(before, w.replies)),
           ByteIs(items, r, b), NEW v, v = ProcessByte(w, b)
    PROVE  Understood(items, r + 1, v.term, Shown(v), Cat(before, v.replies))
<1> DEFINE N == Len(items)
           off == Offset(items)
           ms == Meaning(items)
           L(k) == Len(items[k + 1].bytes)
<1>1. /\ N \in Nat
      /\ \A k \in 0..N : off[k] \in Nat /\ ms[k] \in Sense
      /\ \A k \in 0..(N - 1) :
                /\ items[k + 1] \in Item /\ WellFormed(items[k + 1])
                /\ L(k) \in Nat \ {0}
                /\ off[k + 1] = off[k] + L(k)
                /\ ms[k + 1] = Means(ms[k], items[k + 1])
    BY StreamOK
<1>2. off[0] = 0
    BY OffsetRuns
<1> HIDE DEF N, off, ms
<1>3. ASSUME NEW k \in 0..(N - 1), NEW j \in 0..(L(k) - 1), r = off[k] + j
      PROVE  At(ms[k], items[k + 1], j + 1, v.term, Shown(v), Cat(before, v.replies))
    <2> DEFINE item == items[k + 1]
               l == Len(items[k + 1].bytes)
    <2>10. k \in 0..N /\ k < N
        BY <1>1
    <2>11. item \in Item /\ WellFormed(item) /\ l \in Nat \ {0}
        BY <1>1, Zenon
    <2>12. ms[k] \in Sense /\ off[k] \in Nat
        BY <1>1, <2>10, Zenon
    <2>1. k \in 0..N /\ k < N /\ item \in Item /\ WellFormed(item) /\ ms[k] \in Sense
          /\ off[k] \in Nat /\ l \in Nat \ {0} /\ j \in 0..(l - 1) /\ l = Len(item.bytes)
        BY <2>10, <2>11, <2>12
    <2>2. b = item.bytes[j + 1]
        BY <1>3 DEF ByteIs, N, off
    <2>3. At(ms[k], item, j, w.term, Shown(w), Cat(before, w.replies))
        <3>1. CASE j = 0
            <4>1. r = off[k]
                BY <1>3, <2>1, <3>1
            <4>2. Whole(ms[k], w.term, Shown(w), Cat(before, w.replies))
                BY <2>1, <4>1, Zenon DEF Understood, N, off, ms
            <4>3. QED
                BY <3>1, <4>2 DEF At
        <3>2. CASE j # 0
            <4>1. j \in 1..(L(k) - 1) /\ j # L(k)
                <5> HIDE DEF l
                <5>1. j \in 1..(l - 1) /\ j # l
                    BY <2>1, <3>2
                <5>2. QED
                    BY <5>1, Zenon DEF l
            <4>2. Midway(ms[k], item, j, w.term, Shown(w), Cat(before, w.replies))
                BY <1>3, <2>1, <4>1, Zenon DEF Understood, N, off, ms
            <4>3. QED
                BY <3>2, <4>1, <4>2 DEF At
        <3>3. QED
            BY <3>1, <3>2
    <2>4. v = ProcessByte(w, item.bytes[j + 1])
        BY <2>2, Zenon
    <2>5. Reads(ms[k], item, j, w, v, before)
        BY <2>1, <2>3, <2>4 DEF Reads
    <2>6. QED
        BY <2>5, ItemStep
<1>4. ASSUME NEW k \in 0..N, r + 1 = off[k]
      PROVE  Whole(ms[k], v.term, Shown(v), Cat(before, v.replies))
    <2>1. k # 0
        BY <1>2, <1>4
    <2>2. PICK i \in 0..(N - 1) : i + 1 = k /\ i \in 0..N
        BY <1>1, <2>1
    <2> DEFINE l == L(i)
    <2>3. l \in Nat \ {0} /\ off[k] = off[i] + l /\ ms[k] = Means(ms[i], items[k])
        BY <1>1, <2>2, Zenon
    <2>4. off[i] \in Nat
        BY <1>1, <2>2, Zenon
    <2> HIDE DEF l
    <2>5. l - 1 \in 0..(l - 1) /\ r = off[i] + (l - 1) /\ (l - 1) + 1 = l /\ l # 0
        BY <1>4, <2>3, <2>4
    <2>6. PICK j \in 0..(l - 1) : r = off[i] + j /\ j + 1 = l
        BY <2>5
    <2>7. At(ms[i], items[i + 1], j + 1, v.term, Shown(v), Cat(before, v.replies))
        BY <1>3, <2>6, Zenon DEF l
    <2>8. j + 1 # 0 /\ j + 1 = Len(items[i + 1].bytes)
        BY <2>5, <2>6 DEF l
    <2>9. Whole(Means(ms[i], items[i + 1]), v.term, Shown(v), Cat(before, v.replies))
        BY <2>7, <2>8, Zenon DEF At
    <2>10. QED
        BY <2>2, <2>3, <2>9, Zenon
<1>5. ASSUME NEW k \in 0..N, k < N, NEW j \in 1..(L(k) - 1), r + 1 = off[k] + j
      PROVE  Midway(ms[k], items[k + 1], j, v.term, Shown(v), Cat(before, v.replies))
    <2> DEFINE l == L(k)
    <2>1. k \in 0..(N - 1)
        BY <1>1, <1>5
    <2>2. l \in Nat \ {0}
        BY <1>1, <2>1, Zenon
    <2> DEFINE o == off[k]
    <2>3. o \in Nat /\ j \in 1..(l - 1) /\ r + 1 = o + j
        BY <1>1, <1>5, Zenon
    <2> HIDE DEF l, o
    <2>8. j \in Nat /\ 1 <= j /\ j <= l - 1
        BY <2>2, <2>3
    <2>9. r = o + (j - 1)
        BY <2>3, <2>8
    <2>4. j # 0 /\ j # l /\ j - 1 \in 0..(l - 1) /\ (j - 1) + 1 = j /\ r = off[k] + (j - 1)
        BY <2>2, <2>8, <2>9 DEF o
    <2>5. PICK i \in 0..(l - 1) : i + 1 = j /\ r = off[k] + i
        BY <2>4
    <2>6. At(ms[k], items[k + 1], i + 1, v.term, Shown(v), Cat(before, v.replies))
        BY <1>3, <2>1, <2>5, Zenon DEF l
    <2>7. QED
        BY <2>4, <2>5, <2>6, Zenon DEF At, l
<1>6. QED
    BY <1>4, <1>5 DEF Understood, N, off, ms

\* As many as have come.
LEMMA ChunkUnderstood ==
    ASSUME NEW items \in Seq(Item), \A item \in Item : WellFormed(item),
           NEW before \in Seq(Reply), NEW r \in Nat, NEW w \in World, NEW chunk \in Bytes,
           Understood(items, r, w.term, Shown(w), Cat(before, w.replies)),
           \A i \in 1..Len(chunk) : ByteIs(items, r + i - 1, chunk[i]),
           NEW v, v = ProcessedUpTo(w, chunk)[Len(chunk)]
    PROVE  /\ v \in World
           /\ Understood(items, r + Len(chunk), v.term, Shown(v), Cat(before, v.replies))
<1> DEFINE N == Len(chunk)
           p == ProcessedUpTo(w, chunk)
           S == {i \in 0..N : Understood(items, r + i, p[i].term, Shown(p[i]), Cat(before, p[i].replies))}
<1>1. N \in Nat
    BY LenProperties DEF Bytes
<1>2. /\ p[0] = w /\ \A i \in 0..N : p[i] \in World
      /\ \A i \in 1..N : p[i] = ProcessByte(p[i - 1], chunk[i])
    BY ProcessedRuns
<1> HIDE DEF N, p
<1>3. 0 \in S
    <2>1. 0 \in 0..N /\ r + 0 = r
        BY <1>1
    <2>2. Understood(items, r, p[0].term, Shown(p[0]), Cat(before, p[0].replies))
        BY <1>2, Zenon
    <2>3. QED
        BY <2>1, <2>2
<1>4. ASSUME NEW i \in 1..N, i - 1 \in S PROVE i \in S
    <2> DEFINE k == r + i - 1
    <2>1. Understood(items, r + (i - 1), p[i - 1].term, Shown(p[i - 1]), Cat(before, p[i - 1].replies))
          /\ i \in 0..N /\ i - 1 \in 0..N
        BY <1>1, <1>4
    <2>2. k \in Nat /\ k = r + (i - 1) /\ k + 1 = r + i
        OBVIOUS
    <2>3. ByteIs(items, k, chunk[i])
        BY DEF N
    <2> HIDE DEF k
    <2>4. p[i - 1] \in World /\ p[i] = ProcessByte(p[i - 1], chunk[i])
        BY <1>2, <2>1
    <2>5. Understood(items, k, p[i - 1].term, Shown(p[i - 1]), Cat(before, p[i - 1].replies))
        BY <2>1, <2>2
    <2>6. Understood(items, k + 1, p[i].term, Shown(p[i]), Cat(before, p[i].replies))
        BY <2>2, <2>3, <2>4, <2>5, ByteUnderstood
    <2>7. QED
        BY <2>1, <2>2, <2>6
<1> HIDE DEF S
<1>5. \A i \in 0..N : i \in S
    BY <1>1, <1>3, <1>4, Climb
<1>6. N \in 0..N
    BY <1>1
<1>7. N \in S /\ v = p[N] /\ p[N] \in World
    BY <1>2, <1>5, <1>6, Zenon DEF p, N
<1>8. Understood(items, r + N, p[N].term, Shown(p[N]), Cat(before, p[N].replies))
    BY <1>7 DEF S
<1>9. QED
    BY <1>7, <1>8, Zenon DEF N

\* One read: all that is understood has been fed, and what is answered waits.
LEMMA ReadUnderstood ==
    ASSUME NEW items \in Seq(Item), \A item \in Item : WellFormed(item),
           NEW before \in Seq(Reply), NEW r \in Nat, NEW chunk \in Bytes,
           NEW t \in Terms, NEW f \in Bytes, NEW sz \in Nat,
           Understood(items, r, t, f, before),
           \A i \in 1..Len(chunk) : ByteIs(items, r + i - 1, chunk[i]),
           NEW v, v = Process(t, f, sz, chunk)
    PROVE  /\ v.term \in Terms /\ v.fed \in Bytes /\ v.replies \in Seq(Reply)
           /\ Understood(items, r + Len(chunk), v.term, v.fed, Cat(before, v.replies))
<1> DEFINE w == [term |-> t, fed |-> f, out |-> <<>>, replies |-> <<>>, size |-> sz]
           u == ProcessedUpTo(w, chunk)[Len(chunk)]
<1>1. w \in World
    BY DEF World, Bytes
<1>2. w.term = t /\ Shown(w) = f /\ Cat(before, w.replies) = before
    <2>1. Cat(f, <<>>) = f
        BY <1>1, Join
    <2>2. before \o <<>> = before
        BY ConcatEmptySeq
    <2>3. w.fed = f /\ w.out = <<>> /\ w.replies = <<>> /\ w.term = t
        OBVIOUS
    <2> HIDE DEF w
    <2>4. QED
        BY <2>1, <2>2, <2>3, Zenon DEF Shown, Cat
<1>3. v = Feed(u)
    BY Zenon DEF Process
<1> HIDE DEF w
<1>4. Understood(items, r, w.term, Shown(w), Cat(before, w.replies))
    BY <1>2, Zenon
<1>5. u \in World /\ Understood(items, r + Len(chunk), u.term, Shown(u), Cat(before, u.replies))
    BY <1>1, <1>4, ChunkUnderstood
<1> HIDE DEF u
<1>6. v.term = u.term /\ v.fed = Shown(u) /\ v.replies = u.replies
    <2>1. v = [u EXCEPT !.fed = Shown(u), !.out = <<>>]
        <3>1. u.fed \o u.out = Shown(u)
            BY Zenon DEF Shown, Cat
        <3>2. QED
            BY <1>3, <3>1 DEF Feed
    <2>2. QED
        BY <1>5, <2>1 DEF World
<1>7. u.term \in Terms /\ Shown(u) \in Bytes /\ u.replies \in Seq(Reply)
    BY <1>5, ShownOK
<1>8. QED
    BY <1>5, <1>6, <1>7, Zenon

(***************************************************************************)
(* The invariant.  What has been read of the stream is understood, what    *)
(* has not is in the PTY, and an answer not yet written waits only while   *)
(* the loop is about to write it.                                          *)
(***************************************************************************)

\* How many bytes the loop has read.
Taken == Offset(sent)[Len(sent)] - Len(pipe)

StreamTyped ==
    /\ sent \in Seq(Item) /\ pipe \in Bytes /\ term \in Terms /\ fed \in Bytes
    /\ responses \in Seq(Reply) /\ size \in Nat /\ last \in Nat
    /\ AnswerRecords(written)
    /\ Taken \in Nat

Unread == \A i \in 1..Len(pipe) : ByteIs(sent, Taken + i - 1, pipe[i])

Read == Understood(sent, Taken, term, fed, Cat(GivenAll(written), responses))

Quiet == pc \notin {"answer", "out"} => responses = <<>>

SInv == StreamTyped /\ Unread /\ Read /\ Quiet

LEMMA StreamInitially ==
    ASSUME \A item \in Item : WellFormed(item), Init
    PROVE  SInv
<1>1. sent = <<>> /\ pipe = <<>> /\ written = <<>> /\ responses = <<>> /\ term = NewTerm
      /\ fed = <<>> /\ size = 0 /\ last = 0
    BY DEF Init
<1>2. sent \in Seq(Item) /\ Len(sent) = 0
    BY <1>1
<1>3. Offset(sent)[0] = 0 /\ Meaning(sent)[0] = Blank
    BY <1>2, OffsetRuns, MeaningRuns
<1>4. Taken = 0
    BY <1>1, <1>2, <1>3 DEF Taken
<1>5. AnswerRecords(written) /\ Len(written) = 0
    <2>1. written \in Seq({})
        BY <1>1
    <2>2. QED
        BY <1>1, <2>1 DEF AnswerRecords
<1>6. Cat(GivenAll(written), responses) = <<>>
    <2>1. Given(written)[0] = <<>>
        BY <1>5, GivenRuns
    <2>2. GivenAll(written) = <<>>
        BY <1>5, <2>1, Zenon DEF GivenAll
    <2>3. <<>> \o <<>> = <<>>
        OBVIOUS
    <2>4. QED
        BY <1>1, <2>2, <2>3, Zenon DEF Cat
<1>7. StreamTyped
    <2>1. NewTerm \in Terms
        BY DEF NewTerm, Terms, TermStates, Bytes
    <2>2. <<>> \in Bytes /\ <<>> \in Seq(Reply)
        BY DEF Bytes
    <2>3. QED
        BY <1>1, <1>2, <1>4, <1>5, <2>1, <2>2 DEF StreamTyped
<1>8. Whole(Blank, term, fed, <<>>)
    <2>1. AnswersOf(<<>>) = <<>>
        BY DEF AnswersOf
    <2>2. QED
        BY <1>1, <2>1 DEF Whole, Knows, Blank, NewTerm
<1>9. Read
    <2>1. \A k \in 0..Len(sent) : k = 0 /\ ~(k < Len(sent))
        BY <1>2
    <2>2. QED
        BY <1>3, <1>6, <1>8, <2>1 DEF Read, Understood
<1>10. Unread /\ Quiet
    <2>1. Len(pipe) = 0
        BY <1>1
    <2>2. QED
        BY <1>1, <2>1 DEF Unread, Quiet
<1>11. QED
    BY <1>7, <1>9, <1>10 DEF SInv

\* A step that leaves the stream, what is read and what is answered alone.
LEMMA StreamElsewhere ==
    ASSUME SInv, sent' = sent, pipe' = pipe, term' = term, fed' = fed, responses' = responses,
           written' = written, size' \in Nat, last' \in Nat,
           pc' \notin {"answer", "out"} => pc \notin {"answer", "out"} \/ responses = <<>>
    PROVE  SInv'
<1>1. Taken' = Taken /\ GivenAll(written)' = GivenAll(written)
    BY DEF Taken
<1>2. StreamTyped'
    BY <1>1 DEF SInv, StreamTyped
<1>3. Unread' /\ Read'
    BY <1>1 DEF SInv, Unread, Read
<1>4. Quiet'
    BY DEF SInv, Quiet
<1>5. QED
    BY <1>2, <1>3, <1>4 DEF SInv

\* The app writes an item: its bytes come after all there are.
LEMMA AppWritesKeeps ==
    ASSUME \A i \in Item : WellFormed(i), SInv, NEW item \in Item, AppWrites(item)
    PROVE  SInv'
<1> DEFINE N == Len(sent)
           off == Offset(sent)
           ms == Meaning(sent)
           more == Append(sent, item)
           l == Len(item.bytes)
           P == Len(pipe)
<1>1. sent' = more /\ pipe' = pipe \o item.bytes
      /\ UNCHANGED <<written, responses, term, fed, size, last, pc>>
    BY DEF AppWrites, toApp, emulator, window
<1>2. sent \in Seq(Item) /\ pipe \in Bytes /\ item.bytes \in Bytes /\ l \in Nat \ {0}
    BY ItemOK DEF SInv, StreamTyped
<1>3. /\ more \in Seq(Item) /\ Len(more) = N + 1 /\ more[N + 1] = item
      /\ \A k \in 1..N : more[k] = sent[k]
      /\ \A k \in 0..N : Meaning(more)[k] = ms[k] /\ Offset(more)[k] = off[k]
      /\ Offset(more)[N + 1] = off[N] + l
    BY <1>2, ItemAdded
<1>4. N \in Nat /\ P \in Nat
    BY <1>2, LenProperties DEF Bytes
<1>5. \A k \in 0..N : off[k] \in Nat /\ off[k] <= off[N]
    BY <1>2, OffsetRuns
<1>6. \A k \in 0..(N - 1) : off[k + 1] = off[k] + Len(sent[k + 1].bytes)
                            /\ Len(sent[k + 1].bytes) \in Nat \ {0}
    BY <1>2, StreamOK
<1>7. /\ pipe' \in Bytes /\ Len(pipe') = P + l
      /\ \A i \in 1..(P + l) : pipe'[i] = IF i <= P THEN pipe[i] ELSE item.bytes[i - P]
    <2>1. pipe \o item.bytes \in Seq(Octet) /\ Len(pipe \o item.bytes) = P + l
          /\ \A i \in 1..(P + l) : (pipe \o item.bytes)[i] = IF i <= P THEN pipe[i] ELSE item.bytes[i - P]
        BY <1>2, ConcatProperties DEF Bytes
    <2>2. QED
        BY <1>1, <2>1 DEF Bytes
<1> HIDE DEF N, off, ms, more, l, P
<1>8. Taken = off[N] - P /\ Taken \in Nat
    BY DEF Taken, off, N, P, SInv, StreamTyped
<1>9. Taken' = Taken
    <2>1. N \in 0..N /\ off[N] \in Nat
        BY <1>4, <1>5
    <2>2. Taken' = Offset(more)[Len(more)] - Len(pipe')
        BY <1>1 DEF Taken
    <2>3. Taken' = (off[N] + l) - (P + l)
        BY <1>3, <1>7, <2>2
    <2>4. QED
        BY <1>2, <1>4, <1>8, <2>1, <2>3
<1>10. StreamTyped'
    BY <1>1, <1>3, <1>7, <1>8, <1>9 DEF SInv, StreamTyped
\* An item of before ends where the last one ends, at the latest.
<1>11. ASSUME NEW k \in 0..N, k < N, NEW j \in Nat, j < Len(sent[k + 1].bytes)
       PROVE  off[k] + j < off[N] /\ more[k + 1] = sent[k + 1] /\ k \in 0..(N - 1)
    <2> DEFINE c == Len(sent[k + 1].bytes)
    <2>1. k \in 0..(N - 1) /\ k + 1 \in 0..N /\ k + 1 \in 1..N
        BY <1>4, <1>11
    <2>2. off[k + 1] = off[k] + c /\ c \in Nat \ {0}
        BY <1>6, <2>1, Zenon
    <2>3. off[k + 1] <= off[N] /\ off[k] \in Nat /\ off[N] \in Nat
        BY <1>4, <1>5, <2>1
    <2>4. j < c
        BY <1>11
    <2> HIDE DEF c
    <2>5. off[k] + j < off[N]
        BY <2>2, <2>3, <2>4
    <2>6. QED
        BY <1>3, <2>1, <2>5
<1>12. Unread'
    <2>1. ASSUME NEW i \in 1..(P + l), NEW k \in 0..N, NEW j \in Nat,
                 j < Len(more[k + 1].bytes), Taken + i - 1 = off[k] + j
          PROVE  pipe'[i] = more[k + 1].bytes[j + 1]
        <3>1. i \in Nat /\ i >= 1 /\ off[k] \in Nat /\ off[N] \in Nat
            BY <1>2, <1>4, <1>5
        <3>2. CASE k = N
            <4>1. i = P + j + 1
                BY <1>4, <1>8, <2>1, <3>1, <3>2
            <4>2. pipe'[i] = item.bytes[i - P]
                BY <1>4, <1>7, <4>1
            <4>3. i - P = j + 1
                BY <1>4, <4>1
            <4>4. more[k + 1] = item
                BY <1>3, <3>2
            <4>5. QED
                BY <4>2, <4>3, <4>4
        <3>3. CASE k < N
            <4>1. more[k + 1] = sent[k + 1]
                BY <1>3, <1>4, <3>3
            <4>2. off[k] + j < off[N] /\ k \in 0..(N - 1)
                BY <1>11, <2>1, <3>3, <4>1
            <4>3. i <= P /\ i \in 1..P
                BY <1>4, <1>8, <2>1, <3>1, <4>2
            <4>4. ByteIs(sent, Taken + i - 1, pipe[i])
                BY <4>3 DEF SInv, Unread, P
            <4> DEFINE c == Len(sent[k + 1].bytes)
            <4>5. c \in Nat \ {0} /\ j < c
                BY <1>6, <2>1, <4>1, <4>2
            <4> HIDE DEF c
            <4>6. j \in 0..(c - 1)
                BY <4>5
            <4>7. pipe[i] = sent[k + 1].bytes[j + 1]
                BY <2>1, <4>2, <4>4, <4>6, Zenon DEF ByteIs, c, N, off
            <4>8. pipe'[i] = pipe[i]
                BY <1>7, <4>3
            <4>9. QED
                BY <4>1, <4>7, <4>8, Zenon
        <3>4. QED
            BY <1>4, <3>2, <3>3
    <2>2. ASSUME NEW i \in 1..(P + l), NEW k \in 0..(Len(more) - 1), NEW j \in 0..(Len(more[k + 1].bytes) - 1),
                 Taken + i - 1 = Offset(more)[k] + j
          PROVE  pipe'[i] = more[k + 1].bytes[j + 1]
        <3>1. k \in 0..N /\ Offset(more)[k] = off[k]
            BY <1>3, <1>4
        <3>2. k + 1 \in 1..Len(more)
            BY <1>3, <1>4, <3>1
        <3>3. Len(more[k + 1].bytes) \in Nat \ {0}
            <4>1. more[k + 1] \in Item
                BY <1>3, <3>2, ElementOfSeq
            <4>2. QED
                BY <4>1, ItemOK
        <3> DEFINE c == Len(more[k + 1].bytes)
        <3> HIDE DEF c
        <3>4. c \in Nat /\ j \in 0..(c - 1)
            BY <3>3 DEF c
        <3>5. j \in Nat /\ j < c
            BY <3>4
        <3>6. QED
            BY <2>1, <2>2, <3>1, <3>5 DEF c
    <2>3. \A i \in 1..(P + l) : ByteIs(more, Taken + i - 1, pipe'[i])
        BY <2>2, Zenon DEF ByteIs
    <2>4. QED
        BY <1>1, <1>7, <1>9, <2>3 DEF Unread
<1>13. Read'
    <2> DEFINE rs == Cat(GivenAll(written), responses)
    <2>1. Understood(sent, Taken, term, fed, rs)
        BY DEF SInv, Read
    <2> HIDE DEF rs
    <2>2. ASSUME NEW k \in 0..(N + 1), Taken = Offset(more)[k]
          PROVE  Whole(Meaning(more)[k], term, fed, rs)
        <3>1. CASE k = N + 1
            <4>1. Taken = off[N] + l /\ off[N] \in Nat
                BY <1>3, <1>4, <1>5, <2>2, <3>1
            <4>2. QED
                BY <1>2, <1>4, <1>8, <4>1
        <3>2. CASE k \in 0..N
            <4>1. Taken = off[k] /\ Meaning(more)[k] = ms[k]
                BY <1>3, <2>2, <3>2
            <4>2. Whole(ms[k], term, fed, rs)
                BY <2>1, <3>2, <4>1, Zenon DEF Understood, N, off, ms
            <4>3. QED
                BY <4>1, <4>2
        <3>3. QED
            BY <1>4, <3>1, <3>2
    <2>3. ASSUME NEW k \in 0..(N + 1), k < N + 1, NEW j \in 1..(Len(more[k + 1].bytes) - 1),
                 Taken = Offset(more)[k] + j
          PROVE  Midway(Meaning(more)[k], more[k + 1], j, term, fed, rs)
        <3>1. k \in 0..N
            BY <1>4, <2>3
        <3>2. Taken = off[k] + j /\ Meaning(more)[k] = ms[k]
            BY <1>3, <2>3, <3>1
        <3>3. k < N
            <4>1. SUFFICES k # N
                BY <1>4, <3>1
            <4>2. off[N] \in Nat
                BY <1>4, <1>5
            <4> DEFINE c == Len(more[k + 1].bytes)
            <4>3. j \in 1..(c - 1)
                OBVIOUS
            <4> HIDE DEF c
            <4>4. j \in Int /\ j >= 1
                BY <4>3
            <4>5. QED
                BY <1>4, <1>8, <3>2, <4>2, <4>4
        <3>4. more[k + 1] = sent[k + 1]
            BY <1>3, <1>4, <3>1, <3>3
        <3>5. Midway(ms[k], sent[k + 1], j, term, fed, rs)
            BY <2>1, <3>1, <3>2, <3>3, <3>4, Zenon DEF Understood, N, off, ms
        <3>6. QED
            BY <3>2, <3>4, <3>5, Zenon
    <2>4. Understood(more, Taken, term, fed, rs)
        BY <1>3, <2>2, <2>3 DEF Understood
    <2>5. QED
        BY <1>1, <1>9, <2>4 DEF Read, rs
<1>14. Quiet'
    BY <1>1 DEF SInv, Quiet
<1>15. QED
    BY <1>10, <1>12, <1>13, <1>14 DEF SInv

\* A read of n bytes: the loop has n bytes more, the PTY n less.
LEMMA ReadKeeps ==
    ASSUME \A item \in Item : WellFormed(item), SInv, pc = "pty",
           NEW n \in 1..Len(pipe), NEW w, w = Process(term, fed, size, SubSeq(pipe, 1, n)),
           pipe' = SubSeq(pipe, n + 1, Len(pipe)), term' = w.term, fed' = w.fed,
           responses' = w.replies, pc' \in {"answer", "out"},
           sent' = sent, written' = written, size' = size, last' = last
    PROVE  SInv'
<1> DEFINE chunk == SubSeq(pipe, 1, n)
           rest == SubSeq(pipe, n + 1, Len(pipe))
           P == Len(pipe)
           r == Taken
           before == GivenAll(written)
<1>1. /\ sent \in Seq(Item) /\ pipe \in Bytes /\ term \in Terms /\ fed \in Bytes
      /\ size \in Nat /\ last \in Nat /\ r \in Nat /\ AnswerRecords(written)
      /\ responses = <<>>
    BY DEF SInv, StreamTyped, Quiet
<1>2. P \in Nat /\ \A i \in 1..P : pipe[i] \in Octet
    BY <1>1, LenProperties, ElementOfSeq DEF Bytes
<1>3. before \in Seq(Reply)
    <2>1. Len(written) \in Nat /\ \A i \in 0..Len(written) : Given(written)[i] \in Seq(Reply)
        BY <1>1, GivenRuns
    <2>2. Len(written) \in 0..Len(written)
        BY <2>1
    <2>3. QED
        BY <2>1, <2>2, Zenon DEF GivenAll
<1>4. Understood(sent, r, term, fed, before)
    <2>1. before \o <<>> = before
        BY <1>3, ConcatEmptySeq
    <2>2. Understood(sent, r, term, fed, Cat(before, responses))
        BY DEF SInv, Read
    <2>3. QED
        BY <1>1, <2>1, <2>2, Zenon DEF Cat
<1> HIDE DEF P, r, before
<1>5. chunk \in Bytes /\ Len(chunk) = n /\ \A i \in 1..n : chunk[i] = pipe[i]
    <2>1. \A i \in 1..n : pipe[i] \in Octet
        BY <1>2 DEF P
    <2>2. QED
        BY <2>1, SubSeqProperties DEF Bytes
<1>6. rest \in Bytes /\ Len(rest) = P - n /\ \A i \in 1..(P - n) : rest[i] = pipe[n + i]
    <2>1. n \in Nat /\ n <= P
        BY <1>2 DEF P
    <2>2. CASE n = P
        <3>1. rest = <<>>
            BY <2>1, <2>2, SubSeqEmpty DEF P
        <3>2. <<>> \in Bytes /\ Len(<<>>) = 0
            BY DEF Bytes
        <3> HIDE DEF rest
        <3>3. P - n = 0 /\ 1..0 = {}
            BY <2>1, <2>2
        <3>4. QED
            BY <3>1, <3>2, <3>3
    <2>3. CASE n < P
        <3>1. \A i \in (n + 1)..P : pipe[i] \in Octet
            BY <1>2, <2>1
        <3>2. n + 1 \in Int /\ P \in Int /\ n + 1 <= P /\ P - (n + 1) + 1 = P - n
            BY <1>2, <2>1, <2>3
        <3>3. /\ SubSeq(pipe, n + 1, P) \in Bytes
              /\ Len(SubSeq(pipe, n + 1, P)) = P - (n + 1) + 1
              /\ \A i \in 1..(P - (n + 1) + 1) : SubSeq(pipe, n + 1, P)[i] = pipe[(n + 1) + i - 1]
            BY <3>1, <3>2, Piece, Zenon
        <3>4. \A i \in 1..(P - n) : (n + 1) + i - 1 = n + i
            BY <1>2, <2>1
        <3>5. QED
            BY <3>2, <3>3, <3>4 DEF P
    <2>4. QED
        BY <1>2, <2>1, <2>2, <2>3
<1> HIDE DEF chunk, rest
<1>7. ASSUME NEW i \in 1..Len(chunk) PROVE ByteIs(sent, r + i - 1, chunk[i])
    <2>1. i \in 1..Len(pipe) /\ chunk[i] = pipe[i]
        BY <1>2, <1>5 DEF P
    <2>2. ByteIs(sent, r + i - 1, pipe[i])
        BY <2>1 DEF SInv, Unread, r
    <2>3. QED
        BY <2>1, <2>2, Zenon
<1>8. w = Process(term, fed, size, chunk)
    BY DEF chunk
<1>9. /\ w.term \in Terms /\ w.fed \in Bytes /\ w.replies \in Seq(Reply)
      /\ Understood(sent, r + Len(chunk), w.term, w.fed, Cat(before, w.replies))
    BY <1>1, <1>3, <1>4, <1>5, <1>7, <1>8, ReadUnderstood
<1>10. Taken' = r + n
    <2>1. Len(sent) \in 0..Len(sent) /\ Offset(sent)[Len(sent)] \in Nat
        BY <1>1, StreamOK
    <2>2. pipe' = rest /\ Offset(sent)'[Len(sent)'] = Offset(sent)[Len(sent)]
        BY DEF rest
    <2> DEFINE o == Offset(sent)[Len(sent)]
    <2>3. r = o - P /\ Taken' = o - Len(rest)
        BY <2>2 DEF Taken, r, P
    <2> HIDE DEF o
    <2>4. o \in Nat /\ n \in Nat
        BY <1>2, <2>1 DEF o
    <2>5. QED
        BY <1>2, <1>6, <2>3, <2>4
<1>11. pipe' = rest
    BY DEF rest
<1>12. StreamTyped'
    <2>1. r + n \in Nat
        BY <1>1
    <2>2. QED
        BY <1>1, <1>6, <1>9, <1>10, <1>11, <2>1 DEF StreamTyped
<1>13. Unread'
    <2>1. ASSUME NEW i \in 1..(P - n) PROVE ByteIs(sent, (r + n) + i - 1, rest[i])
        <3>1. n + i \in 1..P
            BY <1>2 DEF P
        <3>2. ByteIs(sent, r + (n + i) - 1, pipe[n + i])
            BY <3>1 DEF SInv, Unread, r, P
        <3>3. (r + n) + i - 1 = r + (n + i) - 1 /\ rest[i] = pipe[n + i]
            BY <1>1, <1>6
        <3>4. QED
            BY <3>2, <3>3
    <2>2. QED
        BY <1>6, <1>10, <1>11, <2>1 DEF Unread
<1>14. Read'
    BY <1>5, <1>9, <1>10 DEF Read, before
<1>15. Quiet'
    BY DEF Quiet
<1>16. QED
    BY <1>12, <1>13, <1>14, <1>15 DEF SInv

\* An answer goes from those that wait to those that are given.
LEMMA WriteAnswerKeeps ==
    ASSUME SInv, WriteAnswer
    PROVE  SInv'
<1> DEFINE h == Head(responses)
           t == Tail(responses)
           g == GivenAll(written)
           a == [kind |-> "answer", data |-> h]
<1>1. /\ pc = "answer" /\ responses # <<>> /\ written' = Append(written, a) /\ responses' = t
      /\ UNCHANGED <<sent, pipe, term, fed, size, last, pc>>
    BY DEF WriteAnswer, Write, appVars, emulator, window
<1>2. responses \in Seq(Reply) /\ AnswerRecords(written)
    BY DEF SInv, StreamTyped
<1>3. h \in Reply /\ t \in Seq(Reply) /\ responses = <<h>> \o t
    BY <1>1, <1>2, HeadTailProperties
<1>4. g \in Seq(Reply)
    <2>1. Len(written) \in Nat /\ \A i \in 0..Len(written) : Given(written)[i] \in Seq(Reply)
        BY <1>2, GivenRuns
    <2>2. Len(written) \in 0..Len(written)
        BY <2>1
    <2>3. QED
        BY <2>1, <2>2, Zenon DEF GivenAll
<1>5. a.kind = "answer" /\ a.data = h
    OBVIOUS
<1> HIDE DEF h, t, g, a
<1>6. AnswerRecords(written') /\ GivenAll(written') = Append(g, h)
    BY <1>1, <1>2, <1>3, <1>5, GivenAdded DEF g
<1>7. Cat(Append(g, h), t) = Cat(g, responses)
    <2>1. Append(g, h) = g \o <<h>> /\ <<h>> \in Seq(Reply)
        BY <1>3, <1>4, AppendIsConcat
    <2>2. (g \o <<h>>) \o t = g \o (<<h>> \o t)
        BY <1>3, <1>4, <2>1, ConcatAssociative
    <2>3. QED
        BY <1>3, <2>1, <2>2, Zenon DEF Cat
<1>8. Taken' = Taken
    BY <1>1 DEF Taken
<1>9. StreamTyped'
    BY <1>1, <1>3, <1>6, <1>8 DEF SInv, StreamTyped
<1>10. Unread'
    BY <1>1, <1>8 DEF SInv, Unread
<1>11. Read'
    <2>1. Understood(sent, Taken, term, fed, Cat(g, responses))
        BY DEF SInv, Read, g
    <2>2. GivenAll(written)' = Append(g, h)
        BY <1>6
    <2>3. Understood(sent, Taken, term, fed, Cat(GivenAll(written)', t))
        BY <1>7, <2>1, <2>2, Zenon
    <2>4. QED
        BY <1>1, <1>8, <2>3 DEF Read
<1>12. Quiet'
    BY <1>1 DEF Quiet
<1>13. QED
    BY <1>9, <1>10, <1>11, <1>12 DEF SInv

\* What an event is written as is no answer.
LEMMA ReadTtyAnswersNothing ==
    ASSUME SInv, ReadTty
    PROVE  SInv'
<1>1. /\ pc = "tty" /\ pc' = "draw"
      /\ UNCHANGED <<sent, pipe, responses, term, fed, size, last>>
    BY DEF ReadTty, appVars, emulator, window
<1>2. PICK e \in Event :
        IF Encoded(e) = <<>> THEN UNCHANGED <<written, unread>> ELSE Write(Encoded(e)[1])
    BY DEF ReadTty
<1>3. size \in Nat /\ last \in Nat /\ responses = <<>> /\ AnswerRecords(written)
    BY <1>1 DEF SInv, StreamTyped, Quiet
<1>4. CASE Encoded(e) = <<>>
    <2>1. written' = written
        BY <1>2, <1>4
    <2>2. QED
        BY <1>1, <1>3, <2>1, StreamElsewhere
<1>5. CASE Encoded(e) # <<>>
    <2> DEFINE x == Encoded(e)[1]
    <2>1. written' = Append(written, x)
        BY <1>2, <1>5 DEF Write
    <2>2. x.kind # "answer"
        BY <1>5 DEF Encoded
    <2> HIDE DEF x
    <2>3. AnswerRecords(written') /\ GivenAll(written') = GivenAll(written)
        BY <1>3, <2>1, <2>2, GivenAdded
    <2>4. Taken' = Taken /\ GivenAll(written)' = GivenAll(written)
        BY <1>1, <2>3 DEF Taken
    <2>5. StreamTyped'
        BY <1>1, <2>3, <2>4 DEF SInv, StreamTyped
    <2>6. Unread' /\ Read'
        BY <1>1, <2>4 DEF SInv, Unread, Read
    <2>7. Quiet'
        BY <1>1, <1>3 DEF Quiet
    <2>8. QED
        BY <2>5, <2>6, <2>7 DEF SInv
<1>6. QED
    BY <1>4, <1>5

LEMMA StreamKept ==
    ASSUME \A item \in Item : WellFormed(item), IInv, SInv, [Next]_vars
    PROVE  SInv'
<1>1. outer.size \in Nat /\ size \in Nat /\ last \in Nat
    BY DEF IInv, OuterOK, SInv, StreamTyped
<1>2. CASE \E item \in Item : AppWrites(item)
    BY <1>2, AppWritesKeeps
<1>3. CASE ReadPty
    <2>1. PICK n \in 1..Len(pipe) :
            LET w == Process(term, fed, size, SubSeq(pipe, 1, n)) IN
                /\ pipe' = SubSeq(pipe, n + 1, Len(pipe))
                /\ term' = w.term /\ fed' = w.fed /\ responses' = w.replies
        BY <1>3 DEF ReadPty
    <2>2. /\ pc = "pty" /\ pc' = "answer" /\ sent' = sent /\ written' = written
          /\ size' = size /\ last' = last
        BY <1>3 DEF ReadPty, window
    <2>3. QED
        BY <2>1, <2>2, ReadKeeps
<1>4. CASE CaptureFails
    <2>1. PICK n \in 1..Len(pipe) :
            LET w == Process(term, fed, size, SubSeq(pipe, 1, n)) IN
                /\ pipe' = SubSeq(pipe, n + 1, Len(pipe))
                /\ term' = w.term /\ fed' = w.fed /\ responses' = w.replies
        BY <1>4 DEF CaptureFails
    <2>2. /\ pc = "pty" /\ pc' = "out" /\ sent' = sent /\ written' = written
          /\ size' = size /\ last' = last
        BY <1>4 DEF CaptureFails
    <2>3. QED
        BY <2>1, <2>2, ReadKeeps
<1>5. CASE WriteAnswer
    BY <1>5, WriteAnswerKeeps
<1>6. CASE ReadTty
    BY <1>6, ReadTtyAnswersNothing
<1>7. CASE AppReads \/ AppEnds \/ (\E e \in Event : UserActs(e)) \/ WindowChanges \/ UNCHANGED vars
    BY <1>1, <1>7, StreamElsewhere
    DEF AppReads, AppEnds, UserActs, WindowChanges, vars, appVars, toApp, emulator, user, window
<1>8. CASE Start \/ SeeResized \/ ReadSize \/ ApplySize \/ Poll \/ PollInterrupted
    BY <1>1, <1>8, StreamElsewhere
    DEF Start, SeeResized, ReadSize, ApplySize, Poll, PollInterrupted, appVars, toApp, emulator,
        user, window
<1>9. CASE ReadPtyEnds \/ NoPty \/ AnswersWritten \/ NoTty \/ Draw \/ StartFails \/ LoopFails
    BY <1>1, <1>9, StreamElsewhere
    DEF ReadPtyEnds, NoPty, AnswersWritten, NoTty, Draw, StartFails, LoopFails, Leave,
        appVars, toApp, emulator, user, window
<1>10. QED
    BY <1>2, <1>3, <1>4, <1>5, <1>6, <1>7, <1>8, <1>9 DEF Next, App, Turn, Fault

\* At an item's end the modes are those asked for up to there.
LEMMA ModesAsAsked ==
    ASSUME SInv, NEW k \in 0..Len(sent), HasRead(k)
    PROVE  term.mouse = Meaning(sent)[k].mouse
<1> DEFINE m == Meaning(sent)[k]
<1>1. Taken = Offset(sent)[k]
    BY Zenon DEF HasRead, Taken
<1>2. Whole(m, term, fed, Cat(GivenAll(written), responses))
    BY <1>1, Zenon DEF SInv, Read, Understood
<1> HIDE DEF m
<1>3. term.mouse = m.mouse
    BY <1>2, Zenon DEF Whole, Knows
<1>4. QED
    BY <1>3, Zenon DEF m

\* Whatever well-formed sequences the app writes, and wherever the reads cut them, the
\* vt100 parser gets what they mean, and the modes are those the app asked for (Term).
THEOREM StreamIsUnderstood ==
    ASSUME \A item \in Item : WellFormed(item)
    PROVE  Spec => []StreamUnderstood
<1>1. Init => IInv /\ SInv
    BY Initially, StreamInitially
<1>2. IInv /\ SInv /\ [Next]_vars => (IInv /\ SInv)'
    BY StepKeeps, StreamKept
<1>3. SInv => StreamUnderstood
    <2> SUFFICES ASSUME SInv, NEW k \in 0..Len(sent), HasRead(k)
                 PROVE  /\ fed = Meaning(sent)[k].fed
                        /\ [f \in {"g0", "g1", "usingG1", "cursorKeys"} |-> term[f]]
                            = [f \in {"g0", "g1", "usingG1", "cursorKeys"} |-> Meaning(sent)[k][f]]
                        /\ term.mouse = Meaning(sent)[k].mouse
                        /\ term.state = "ground"
        BY DEF StreamUnderstood
    <2> DEFINE m == Meaning(sent)[k]
    <2>1. Taken = Offset(sent)[k]
        BY Zenon DEF HasRead, Taken
    <2>2. Whole(m, term, fed, Cat(GivenAll(written), responses))
        BY <2>1, Zenon DEF SInv, Read, Understood
    <2> HIDE DEF m
    <2>3. fed = m.fed /\ term.state = "ground" /\ Knows(m, term)
        BY <2>2, Zenon DEF Whole
    <2>4. \A f \in {"g0", "g1", "usingG1", "cursorKeys"} : term[f] = m[f]
        BY <2>3 DEF Knows
    <2>5. [f \in {"g0", "g1", "usingG1", "cursorKeys"} |-> term[f]]
            = [f \in {"g0", "g1", "usingG1", "cursorKeys"} |-> m[f]]
        BY <2>4
    <2>6. term.mouse = m.mouse
        BY ModesAsAsked, Zenon DEF m
    <2>7. QED
        BY <2>3, <2>5, <2>6, Zenon DEF m
<1>4. QED
    BY <1>1, <1>2, <1>3, PTL DEF Spec

\* Each query among them is answered once and in order, for the place its own bytes end
\* at (csi_complete), however the loop and the app take turns.
THEOREM QueriesAreAnswered ==
    ASSUME \A item \in Item : WellFormed(item)
    PROVE  Spec => []QueriesAnswered
<1>1. Init => IInv /\ SInv
    BY Initially, StreamInitially
<1>2. IInv /\ SInv /\ [Next]_vars => (IInv /\ SInv)'
    BY StepKeeps, StreamKept
<1>3. SInv => QueriesAnswered
    <2> SUFFICES ASSUME SInv, NEW k \in 0..Len(sent), HasRead(k)
                 PROVE  AnswersOf(Given(written)[Len(written)] \o responses)
                            = Meaning(sent)[k].replies
        BY DEF QueriesAnswered
    <2>1. Taken = Offset(sent)[k]
        BY Zenon DEF HasRead, Taken
    <2>2. Whole(Meaning(sent)[k], term, fed, Cat(GivenAll(written), responses))
        BY <2>1, Zenon DEF SInv, Read, Understood
    <2>3. QED
        BY <2>2, Zenon DEF Whole, Cat, GivenAll
<1>4. QED
    BY <1>1, <1>2, <1>3, PTL DEF Spec

(***************************************************************************)
(* The capture.                                                            *)
(***************************************************************************)

\* Whatever well-formed sequences the app writes, the user's terminal captures the
\* mouse just if they ask for it, and when the loop has been left, what is still
\* switched is what its own command failed for (ensure_mouse_capture,
\* cleanup_terminal).
THEOREM CaptureHolds ==
    ASSUME \A item \in Item : WellFormed(item)
    PROVE  Spec => []CaptureFollows
<1>1. Init => IInv /\ SInv
    BY Initially, StreamInitially
<1>2. IInv /\ SInv /\ [Next]_vars => (IInv /\ SInv)'
    BY StepKeeps, StreamKept
<1>3. ASSUME IInv, SInv, NEW k \in 0..Len(sent), HasRead(k), pc \notin {"off", "out"}
      PROVE  outer.capture <=> Meaning(sent)[k].mouse \cap {"1000", "1002", "1003"} # {}
    <2>1. term.mouse = Meaning(sent)[k].mouse
        BY <1>3, ModesAsAsked
    <2>2. outer.capture <=> Tracking(term) # "off"
        BY <1>3 DEF IInv, Captures
    <2>3. Tracking(term) # "off" <=> term.mouse \cap {"1000", "1002", "1003"} # {}
        BY DEF Tracking
    <2>4. QED
        BY <2>1, <2>2, <2>3
<1>4. IInv /\ SInv => CaptureFollows
    BY <1>3 DEF CaptureFollows, IInv, Left
<1>5. QED
    BY <1>1, <1>2, <1>4, PTL DEF Spec
=============================================================================
