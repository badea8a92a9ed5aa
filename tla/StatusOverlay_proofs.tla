------------------------- MODULE StatusOverlay_proofs -------------------------
(***************************************************************************)
(* Proofs about StatusOverlay: for all prompts, all commands of the guest  *)
(* that show messages or hide, in any order and with any delay, no piece   *)
(* of a password reaches the guest's terminal, each prompt is answered     *)
(* with what was typed for it, and an error of the run is seen before the  *)
(* terminal closes.                                                        *)
(***************************************************************************)
EXTENDS StatusOverlay, SequenceTheorems, TLAPS

(***************************************************************************)
(* The inductive invariant.  A prompt is a conversation of child and user  *)
(* that passes through three places, and nobody else may speak meanwhile.  *)
(***************************************************************************)

Plainly == {Info, Error, Hide}
Waiting == [kind : {"info", "hide"}, value : {None}, delayed : {TRUE}]

\* The texts a hide may wait for.
Text == {None} \cup UNION {{c.value : c \in Range(s)} : s \in VmScripts}

Popup == [kind : {"info", "password"}, prompt : Prompt \cup {None}, typed : Seq(Prompt)]

\* The pending actions of an overlay ask for nothing.
Overlay ==
    [popup : Popup, visible : BOOLEAN, ascii : BOOLEAN, content : Text,
     pending : Seq(Waiting), error : BOOLEAN]

\* No dialog is to be seen.
Quiet(o) == o.popup.kind = "password" => ~o.visible

\* All prompts lie behind.
PromptsDone == \A i \in DOMAIN Script : i >= step => Script[i] \notin Prompt

\* The guest is not up before that.
GuestInv ==
    /\ commands \in VmScripts
    /\ sent \in Nat
    /\ inflight \subseteq DOMAIN commands
    /\ inflight # {} \/ overlay.pending # <<>> => PromptsDone

RunInv ==
    /\ asks \subseteq Prompt
    /\ step \in Nat \ {0}
    /\ DOMAIN answers = Prompt

\* Nothing is asked for, and nothing but messages are on their way.
Calm ==
    /\ ~awaiting /\ user = Nobody /\ toChild = <<>>
    /\ toTui \in Seq(Plainly) /\ Quiet(overlay)

\* The prompt is behind whatever else the child has said.
Asked(p) ==
    /\ user = Nobody /\ toChild = <<>> /\ Quiet(overlay)
    /\ \E s \in Seq(Plainly) : toTui = Append(s, Ask(p))

\* The dialog holds what the user has typed, and nothing else is on its way.
Shown(p) ==
    /\ toTui = <<>> /\ toChild = <<>>
    /\ overlay.popup.kind = "password" /\ overlay.popup.prompt = p
    /\ \/ user = Nobody /\ overlay.popup.typed = <<>>
       \/ user = [prompt |-> p, left |-> 2] /\ overlay.popup.typed = <<>>
       \/ user = [prompt |-> p, left |-> 1] /\ overlay.popup.typed = <<p>>
       \/ user = [prompt |-> p, left |-> 0] /\ overlay.popup.typed = <<p, p>>

\* The answer is in the socket.
Entered(p) ==
    /\ toTui = <<>> /\ user = Nobody /\ Quiet(overlay)
    /\ toChild = << <<p, p>> >>

Prompting(p) == child = "up" /\ awaiting /\ At(p) /\ (Asked(p) \/ Shown(p) \/ Entered(p))

Good ==
    /\ overlay \in Overlay /\ GuestInv /\ RunInv
    /\ Calm \/ \E p \in Prompt : Prompting(p)
    /\ ~leaked
    /\ \A p \in Prompt : answers[p] # None => answers[p] = <<p, p>>

\* Enter pressed unasked ends it all (see AnswerFitsPrompt), and stays counted.
IInv == extra \in Nat /\ (extra = 0 => Good)

(***************************************************************************)
(* The script of the child and the commands of the guest.                  *)
(***************************************************************************)

\* Nothing is asked for from the container on.
LEMMA ScriptOrder ==
    ASSUME asks \subseteq Prompt
    PROVE  /\ DOMAIN Script = 1..Len(Script) /\ Len(Script) \in Nat
           /\ \A i, j \in DOMAIN Script : Script[i] = "run" /\ j >= i => Script[j] \notin Prompt
<1> DEFINE Early == {"log", "sudo", "prepare", "passphrase"}
           Word == Early \cup {"join", "run"}
           sudo == IF "sudo" \in asks THEN <<"sudo">> ELSE <<>>
           passphrase == IF "passphrase" \in asks THEN <<"passphrase">> ELSE <<>>
           before == <<"log">> \o sudo \o <<"prepare">> \o passphrase
           from == <<"join", "run", "log">>
<1>1. before \in Seq(Early)
    <2>1. <<>> \in Seq(Early) /\ \A w \in Early : <<w>> \in Seq(Early)
        OBVIOUS
    <2>2. <<"log">> \o sudo \in Seq(Early)
        BY <2>1, ConcatProperties
    <2>3. <<"log">> \o sudo \o <<"prepare">> \in Seq(Early)
        BY <2>1, <2>2, ConcatProperties
    <2>4. QED
        BY <2>1, <2>3, ConcatProperties
<1>2. from \in Seq(Word) /\ Len(from) = 3 /\ \A k \in 1..3 : from[k] \in {"join", "run", "log"}
    OBVIOUS
<1>3. /\ before \in Seq(Word) /\ Len(before) \in Nat
      /\ \A k \in 1..Len(before) : before[k] \in Early
    BY <1>1, SeqMonotonic, LenProperties, ElementOfSeq
<1> HIDE DEF before, from
<1>4. Script = before \o from
    BY DEF Script, before, from
<1>5. /\ Script \in Seq(Word) /\ Len(Script) = Len(before) + 3
      /\ \A k \in 1..Len(before) + 3 :
            Script[k] = IF k <= Len(before) THEN before[k] ELSE from[k - Len(before)]
    <2>1. from \in Seq(Word) /\ before \in Seq(Word)
        BY <1>2, <1>3
    <2>2. /\ before \o from \in Seq(Word) /\ Len(before \o from) = Len(before) + Len(from)
          /\ \A k \in 1..Len(before) + Len(from) :
                (before \o from)[k] = IF k <= Len(before) THEN before[k] ELSE from[k - Len(before)]
        BY <2>1, ConcatProperties
    <2>3. QED
        BY <2>2, <1>2, <1>4
<1>6. DOMAIN Script = 1..Len(Script) /\ Len(Script) \in Nat
    BY <1>5, LenProperties
<1>7. Prompt \subseteq {"sudo", "passphrase"}
    BY ConstantsOK
<1>8. ASSUME NEW i \in DOMAIN Script, NEW j \in DOMAIN Script, Script[i] = "run", j >= i
      PROVE  Script[j] \notin Prompt
    <2>1. i > Len(before)
        BY <1>3, <1>5, <1>6, <1>8
    <2>2. Script[j] = from[j - Len(before)] /\ j - Len(before) \in 1..3
        BY <2>1, <1>3, <1>5, <1>6, <1>8
    <2>3. QED
        BY <2>2, <1>2, <1>7
<1>9. QED
    BY <1>6, <1>8

\* A message or a hide; a text only for a hide, and an error is never delayed.
NoQuestion(c) ==
    /\ c \in [kind : {"info", "error", "hide"}, value : Text, delayed : BOOLEAN]
    /\ c.value # None => c.kind = "hide"
    /\ c.kind = "error" => ~c.delayed

LEMMA GuestSends ==
    ASSUME NEW s \in VmScripts
    PROVE  DOMAIN s = 1..Len(s) /\ \A i \in DOMAIN s : NoQuestion(s[i])
<1>1. s \in Seq(Range(s)) /\ \A c \in Range(s) : NoQuestion(c)
    <2>1. s \in Seq(Range(s))
        BY ConstantsOK
    <2>2. ASSUME NEW c \in Range(s) PROVE NoQuestion(c)
        <3>1. /\ c \in [kind : {"info", "hide"}, value : {c.value}, delayed : BOOLEAN]
              /\ c.value # None => c.kind = "hide"
            BY ConstantsOK
        <3>2. c.value \in Text
            BY DEF Text
        <3>3. QED
            BY <3>1, <3>2 DEF NoQuestion
    <2>3. QED
        BY <2>1, <2>2
<1>2. DOMAIN s = 1..Len(s)
    BY <1>1, LenProperties
<1>3. \A i \in DOMAIN s : s[i] \in Range(s)
    BY DEF Range
<1>4. QED
    BY <1>1, <1>2, <1>3

\* A popup that is shown, and nothing else changed.
LEMMA ShowOK ==
    ASSUME NEW o \in Overlay, NEW popup \in Popup
    PROVE  LET shown == Show(o, popup)
           IN  shown \in Overlay /\ shown.popup = popup /\ shown.pending = o.pending
BY DEF Overlay, Popup, Show

LEMMA MessageOK == Message \in Popup /\ Message.kind = "info"
<1>1. <<>> \in Seq(Prompt)
    BY EmptySeq
<1>2. QED
    BY <1>1 DEF Message, Popup

\* No message and no hide opens a dialog.
LEMMA DispatchQuiet ==
    ASSUME NEW o \in Overlay, NEW c, NoQuestion(c)
    PROVE  /\ Dispatch(o, c) \in Overlay
           /\ Quiet(o) => Quiet(Dispatch(o, c))
           /\ c.delayed = FALSE => Dispatch(o, c).pending = o.pending
<1>0. None # "ASCII"
    BY ConstantsOK
<1> USE <1>0 DEF NoQuestion, Overlay, Quiet, Dispatch
<1>1. CASE c.kind = "hide" /\ c.value # None
    BY <1>1
<1>2. CASE c.delayed /\ c.value = None
    <2>1. c \in Waiting
        BY <1>2 DEF Waiting
    <2>2. Append(o.pending, c) \in Seq(Waiting)
        BY <2>1
    <2>3. Dispatch(o, c) = [o EXCEPT !.pending = Append(@, c)]
        BY <1>2
    <2>4. QED
        BY <1>2, <2>2, <2>3
<1>3. CASE ~c.delayed /\ c.value = None /\ c.kind = "hide"
    BY <1>3
<1>4. CASE ~c.delayed /\ c.value = None /\ c.kind = "info"
    <2>1. Dispatch(o, c) = Show(o, Message)
        BY <1>4
    <2>2. QED
        BY <1>4, <2>1, MessageOK, ShowOK
<1>5. CASE ~c.delayed /\ c.value = None /\ c.kind = "error"
    <2>1. Dispatch(o, c) = [Show(o, Message) EXCEPT !.error = TRUE]
        BY <1>5
    <2>2. QED
        BY <1>5, <2>1, MessageOK, ShowOK
<1>6. QED
    BY <1>1, <1>2, <1>3, <1>4, <1>5

(***************************************************************************)
(* What the steps have in common.                                          *)
(***************************************************************************)

LEMMA DoneStays ==
    ASSUME asks' = asks, step \in Nat, step' \in {step, step + 1}, PromptsDone, asks \subseteq Prompt
    PROVE  PromptsDone'
<1>1. Script' = Script
    BY DEF Script
<1>2. DOMAIN Script = 1..Len(Script) /\ Len(Script) \in Nat
    BY ScriptOrder
<1>3. QED
    BY <1>1, <1>2 DEF PromptsDone

\* Behind the prompts, with the container up or the child gone, nobody is asked.
LEMMA CalmThen ==
    ASSUME Good, PromptsDone \/ child # "up" \/ ~awaiting \/ At("run") \/ step > Len(Script)
    PROVE  Calm
<1> SUFFICES ASSUME NEW p \in Prompt, Prompting(p) PROVE FALSE
    BY DEF Good
<1>1. DOMAIN Script = 1..Len(Script) /\ Len(Script) \in Nat /\ step \in Nat \ {0}
    BY ScriptOrder DEF Good, RunInv
<1>2. step \in DOMAIN Script /\ Script[step] = p
    BY <1>1 DEF Prompting, At
<1>3. p # "run"
    BY ConstantsOK
<1>4. QED
    BY <1>1, <1>2, <1>3 DEF Prompting, PromptsDone, At

\* A step that keeps the overlay, the guest and the answers has to show only where the
\* conversation stands.
LEMMA Elsewhere ==
    ASSUME Good, asks' = asks, step' \in {step, step + 1},
           overlay' = overlay, commands' = commands, sent' = sent, inflight' = inflight,
           answers' = answers, leaked' = leaked,
           Calm' \/ \E p \in Prompt : Prompting(p)'
    PROVE  Good'
<1>1. step \in Nat \ {0} /\ asks \subseteq Prompt
    BY DEF Good, RunInv
<1>2. RunInv'
    BY <1>1 DEF Good, RunInv
<1>3. GuestInv'
    BY <1>1, DoneStays DEF Good, GuestInv
<1>4. QED
    BY <1>2, <1>3 DEF Good

LEMMA PlainNoQuestion ==
    ASSUME NEW c \in Plainly
    PROVE  NoQuestion(c) /\ c.delayed = FALSE
<1>1. CASE c = Info
    BY <1>1 DEF Info, Cmd, NoQuestion, Text
<1>2. CASE c = Error
    BY <1>2 DEF Error, Cmd, NoQuestion, Text
<1>3. CASE c = Hide
    BY <1>3 DEF Hide, Cmd, NoQuestion, Text
<1>4. QED
    BY <1>1, <1>2, <1>3 DEF Plainly

LEMMA WaitingNoQuestion ==
    ASSUME NEW c \in Waiting
    PROVE  NoQuestion([c EXCEPT !.delayed = FALSE])
BY DEF Waiting, NoQuestion, Text

LEMMA Initially == Init => IInv
<1> SUFFICES ASSUME Init PROVE IInv
    OBVIOUS
<1>1. overlay \in Overlay /\ Quiet(overlay) /\ overlay.pending = <<>>
    BY MessageOK DEF Init, Overlay, Quiet, Text
<1>2. Calm
    BY <1>1 DEF Init, Calm
<1>3. GuestInv /\ RunInv
    BY <1>1 DEF Init, GuestInv, RunInv
<1>4. \A p \in Prompt : answers[p] = None
    BY DEF Init
<1>5. QED
    BY <1>1, <1>2, <1>3, <1>4 DEF Init, IInv, Good

(***************************************************************************)
(* The child.                                                              *)
(***************************************************************************)

\* Messages and ends: the child is not in a conversation when it makes one.
LEMMA ChildTells ==
    ASSUME Good, ChildLogs \/ ChildGivesUp \/ ChildFails \/ ContainerEnds \/ ChildExits
                 \/ UserInterrupts
    PROVE  Good'
<1>1. Calm
    BY CalmThen DEF ChildLogs, ChildGivesUp, ChildFails, ContainerEnds, ChildExits, UserInterrupts
<1>2. toTui' = toTui \/ toTui' = Append(toTui, Info) \/ toTui' = Append(toTui, Error)
    BY DEF ChildLogs, ChildGivesUp, ChildFails, ContainerEnds, ChildExits, UserInterrupts, Say,
           HasStatusFd, socket
<1>3. toTui' \in Seq(Plainly)
    BY <1>1, <1>2 DEF Calm, Plainly
<1>4. /\ asks' = asks /\ step' \in {step, step + 1} /\ overlay' = overlay
      /\ commands' = commands /\ sent' = sent /\ inflight' = inflight /\ answers' = answers
      /\ leaked' = leaked /\ awaiting' = awaiting /\ user' = user /\ toChild' = toChild
    BY DEF ChildLogs, ChildGivesUp, ChildFails, ContainerEnds, ChildExits, UserInterrupts, socket,
           vm, guest, person
<1>5. Calm'
    BY <1>1, <1>3, <1>4 DEF Calm
<1>6. QED
    BY <1>4, <1>5, Elsewhere

\* The setup thread has no descriptor to say anything to.
LEMMA SetupThreadTells ==
    ASSUME Good, SetupThreadLogs
    PROVE  Good'
<1>1. UNCHANGED <<toTui, asks, step, awaiting, child, answers, toChild, overlay, vm, person>>
    BY DEF SetupThreadLogs, Say, HasStatusFd
<1>2. Script' = Script
    BY <1>1 DEF Script
<1>3. QED
    BY <1>1, <1>2, Elsewhere DEF Good, Calm, Prompting, Asked, Shown, Entered, At, vm, guest, person

LEMMA ChildAsksKeeps ==
    ASSUME Good, NEW p \in Prompt, ChildAsks(p)
    PROVE  Good'
<1>1. Calm
    BY CalmThen DEF ChildAsks
<1>2. /\ toTui' = Append(toTui, Ask(p)) /\ child' = "up" /\ awaiting' = TRUE /\ At(p)
      /\ asks' = asks /\ step' = step /\ overlay' = overlay
      /\ commands' = commands /\ sent' = sent /\ inflight' = inflight /\ answers' = answers
      /\ leaked' = leaked /\ user' = user /\ toChild' = toChild
    BY DEF ChildAsks, Say, HasStatusFd, vm, guest, person
<1>3. At(p)'
    BY <1>2 DEF At, Script
<1>4. Asked(p)'
    BY <1>1, <1>2 DEF Asked, Calm
<1>5. QED
    BY <1>2, <1>3, <1>4, Elsewhere DEF Prompting

\* What it reads is the answer to what it asked: nothing else was ever in the socket.
LEMMA ChildReadsKeeps ==
    ASSUME Good, NEW p \in Prompt, ChildReads(p)
    PROVE  Good'
<1>1. PICK q \in Prompt : Prompting(q)
    BY DEF Good, Calm, ChildReads
<1>2. q = p
    BY <1>1 DEF Prompting, ChildReads, At
<1>3. Entered(p)
    BY <1>1, <1>2 DEF Prompting, Asked, Shown, ChildReads
<1>4. Head(toChild) = <<p, p>> /\ Tail(toChild) = <<>>
    BY <1>3 DEF Entered
<1>5. /\ toTui' = Append(toTui, Hide) /\ awaiting' = FALSE /\ toChild' = <<>>
      /\ answers' = [answers EXCEPT ![p] = <<p, p>>]
      /\ asks' = asks /\ step' = step + 1 /\ overlay' = overlay
      /\ commands' = commands /\ sent' = sent /\ inflight' = inflight
      /\ leaked' = leaked /\ user' = user
    BY <1>4 DEF ChildReads, Say, HasStatusFd, vm, guest, person
<1>6. Calm'
    BY <1>3, <1>5 DEF Entered, Calm, Plainly
<1>7. step \in Nat \ {0} /\ asks \subseteq Prompt
    BY DEF Good, RunInv
<1>8. RunInv'
    BY <1>5, <1>7 DEF Good, RunInv
<1>9. GuestInv'
    BY <1>5, <1>7, DoneStays DEF Good, GuestInv
<1>10. QED
    BY <1>5, <1>6, <1>8, <1>9 DEF Good, RunInv

(***************************************************************************)
(* The TUI loop.                                                           *)
(***************************************************************************)

\* A step that keeps the child and the answers, and leaves no more pending than there
\* was.
LEMMA OverlayOnly ==
    ASSUME Good, asks' = asks, step' = step, answers' = answers, leaked' = leaked,
           commands' = commands, sent' = sent, inflight' = inflight,
           overlay' \in Overlay, overlay'.pending = overlay.pending \/ PromptsDone,
           Calm' \/ \E p \in Prompt : Prompting(p)'
    PROVE  Good'
<1>1. RunInv' /\ step \in Nat /\ asks \subseteq Prompt
    BY DEF Good, RunInv
<1>2. GuestInv'
    BY <1>1, DoneStays DEF Good, GuestInv
<1>3. (overlay \in Overlay)'
    BY DEF Overlay
<1>4. QED
    BY <1>1, <1>2, <1>3 DEF Good

\* The dialog of a prompt, and nothing else changed.
LEMMA DispatchAsk ==
    ASSUME NEW o \in Overlay, NEW p \in Prompt
    PROVE  /\ Dispatch(o, Ask(p)) \in Overlay
           /\ Dispatch(o, Ask(p)).pending = o.pending
           /\ Dispatch(o, Ask(p)).popup = [kind |-> "password", prompt |-> p, typed |-> <<>>]
<1>1. Dispatch(o, Ask(p)) = Dialog(o, p)
    BY ConstantsOK DEF Dispatch, Ask, Cmd
<1>2. QED
    <2>1. <<>> \in Seq(Prompt)
        BY EmptySeq
    <2>2. [kind |-> "password", prompt |-> p, typed |-> <<>>] \in Popup
        BY <2>1 DEF Popup
    <2>3. QED
        BY <1>1, <2>2, ShowOK DEF Dialog

\* A message is shown, or the question that all messages before it have made way for.
LEMMA TuiReadsKeeps ==
    ASSUME Good, TuiReadsStatus
    PROVE  Good'
<1>1. /\ toTui # <<>> /\ overlay' = Dispatch(overlay, Head(toTui)) /\ toTui' = Tail(toTui)
      /\ asks' = asks /\ step' = step /\ answers' = answers /\ leaked' = leaked
      /\ commands' = commands /\ sent' = sent /\ inflight' = inflight
      /\ awaiting' = awaiting /\ child' = child /\ user' = user /\ toChild' = toChild
    BY DEF TuiReadsStatus, childVars, vm, guest, person
<1>2. overlay \in Overlay
    BY DEF Good
<1>3. ASSUME NEW c \in Plainly, Quiet(overlay)
      PROVE  LET o == Dispatch(overlay, c) IN o \in Overlay /\ Quiet(o) /\ o.pending = overlay.pending
    BY <1>2, <1>3, PlainNoQuestion, DispatchQuiet
<1>4. CASE Calm
    <2>1. Head(toTui) \in Plainly /\ Tail(toTui) \in Seq(Plainly) /\ Quiet(overlay)
        BY <1>1, <1>4, HeadTailProperties DEF Calm
    <2>2. overlay' \in Overlay /\ Quiet(overlay') /\ overlay'.pending = overlay.pending
        BY <1>1, <1>3, <2>1
    <2>3. Calm'
        BY <1>1, <1>4, <2>1, <2>2 DEF Calm, Quiet
    <2>4. QED
        BY <1>1, <2>2, <2>3, OverlayOnly
<1>5. ASSUME NEW p \in Prompt, Prompting(p) PROVE Good'
    <2>1. Asked(p) /\ child' = "up" /\ awaiting'
        BY <1>1, <1>5 DEF Prompting, Shown, Entered
    <2>2. PICK s \in Seq(Plainly) : toTui = Append(s, Ask(p))
        BY <2>1 DEF Asked
    <2>3. /\ Head(toTui) = IF s = <<>> THEN Ask(p) ELSE Head(s)
          /\ Tail(toTui) = IF s = <<>> THEN <<>> ELSE Append(Tail(s), Ask(p))
        BY <2>2, HeadTailAppend
    <2>4. At(p)'
        BY <1>1, <1>5 DEF Prompting, At, Script
    <2>5. CASE s = <<>>
        <3>1. /\ overlay' \in Overlay /\ overlay'.pending = overlay.pending
              /\ overlay'.popup = [kind |-> "password", prompt |-> p, typed |-> <<>>]
            BY <1>1, <1>2, <2>3, <2>5, DispatchAsk
        <3>2. Shown(p)'
            BY <1>1, <2>1, <2>3, <2>5, <3>1 DEF Asked, Shown
        <3>3. QED
            BY <1>1, <2>1, <2>4, <3>1, <3>2, OverlayOnly DEF Prompting
    <2>6. CASE s # <<>>
        <3>1. Head(s) \in Plainly /\ Tail(s) \in Seq(Plainly)
            BY <2>6, HeadTailProperties
        <3>2. overlay' \in Overlay /\ Quiet(overlay') /\ overlay'.pending = overlay.pending
            BY <1>1, <1>3, <2>1, <2>3, <2>6, <3>1 DEF Asked
        <3>3. Asked(p)'
            BY <1>1, <2>1, <2>3, <2>6, <3>1, <3>2 DEF Asked, Quiet
        <3>4. QED
            BY <1>1, <2>1, <2>4, <3>2, <3>3, OverlayOnly DEF Prompting
    <2>7. QED
        BY <2>5, <2>6
<1>6. QED
    BY <1>4, <1>5 DEF Good

\* A scan hides the popup and leaves a dialog in it.
LEMMA TuiScansKeeps ==
    ASSUME Good, TuiScans
    PROVE  Good'
<1>1. /\ overlay' \in {[overlay EXCEPT !.visible = FALSE, !.ascii = FALSE],
                       [overlay EXCEPT !.visible = FALSE, !.content = None]}
      /\ asks' = asks /\ step' = step /\ answers' = answers /\ leaked' = leaked
      /\ commands' = commands /\ sent' = sent /\ inflight' = inflight
      /\ awaiting' = awaiting /\ child' = child /\ user' = user /\ toChild' = toChild
      /\ toTui' = toTui
    BY DEF TuiScans, childVars, socket, vm, guest, person
<1>2. /\ overlay' \in Overlay /\ ~overlay'.visible /\ overlay'.popup = overlay.popup
      /\ overlay'.pending = overlay.pending
    BY <1>1 DEF Good, Overlay, Text
<1>3. Calm' \/ \E p \in Prompt : Prompting(p)'
    BY <1>1, <1>2 DEF Good, Calm, Prompting, Asked, Shown, Entered, Quiet, At, Script
<1>4. QED
    BY <1>1, <1>2, <1>3, OverlayOnly

\* What was delayed is an action of the guest.
LEMMA TuiFiresKeeps ==
    ASSUME Good, NEW i \in Slot, TuiFires(i)
    PROVE  Good'
<1>1. i \in DOMAIN overlay.pending /\ overlay \in Overlay
    BY DEF TuiFires, Good
<1>2. overlay.pending \in Seq(Waiting) /\ overlay.pending # <<>>
    BY <1>1 DEF Overlay
<1>3. PromptsDone
    BY <1>2 DEF Good, GuestInv
<1>4. Calm
    BY <1>3, CalmThen
<1> DEFINE queue == overlay.pending
           rest == [overlay EXCEPT !.pending = SubSeq(@, 1, i - 1) \o SubSeq(@, i + 1, Len(@))]
           command == [queue[i] EXCEPT !.delayed = FALSE]
<1>5. i \in 1..Len(queue) /\ Len(queue) \in Nat /\ \A j \in 1..Len(queue) : queue[j] \in Waiting
    BY <1>1, <1>2, LenProperties, ElementOfSeq
<1>6. SubSeq(queue, 1, i - 1) \in Seq(Waiting) /\ SubSeq(queue, i + 1, Len(queue)) \in Seq(Waiting)
    BY <1>5, SubSeqProperties
<1>7. SubSeq(queue, 1, i - 1) \o SubSeq(queue, i + 1, Len(queue)) \in Seq(Waiting)
    BY <1>6, ConcatProperties
<1>8. rest \in Overlay /\ Quiet(rest)
    <2>1. PICK q \in Seq(Waiting) : rest = [overlay EXCEPT !.pending = q]
        BY <1>7
    <2>2. QED
        BY <1>1, <1>4, <2>1 DEF Overlay, Calm, Quiet
<1>9. NoQuestion(command)
    BY <1>5, WaitingNoQuestion
<1>10. /\ overlay' = Dispatch(rest, command)
       /\ asks' = asks /\ step' = step /\ answers' = answers /\ leaked' = leaked
       /\ commands' = commands /\ sent' = sent /\ inflight' = inflight
       /\ awaiting' = awaiting /\ child' = child /\ user' = user /\ toChild' = toChild
       /\ toTui' = toTui
    BY DEF TuiFires, childVars, socket, vm, guest, person
<1> HIDE DEF rest, command
<1>11. overlay' \in Overlay /\ Quiet(overlay')
    BY <1>8, <1>9, <1>10, DispatchQuiet
<1>12. Calm'
    BY <1>4, <1>10, <1>11 DEF Calm, Quiet
<1>13. QED
    BY <1>3, <1>10, <1>11, <1>12, OverlayOnly

LEMMA TuiEndsKeeps ==
    ASSUME Good, TuiEnds
    PROVE  Good'
<1>1. Calm
    BY CalmThen DEF TuiEnds
<1>2. /\ overlay' = Show(overlay, Message) \/ overlay' = overlay
      /\ asks' = asks /\ step' = step /\ answers' = answers /\ leaked' = leaked
      /\ commands' = commands /\ sent' = sent /\ inflight' = inflight
      /\ awaiting' = awaiting /\ child' = child /\ user' = user /\ toChild' = toChild
      /\ toTui' = toTui
    BY DEF TuiEnds, childVars, socket, vm, guest, person
<1>3. overlay' \in Overlay /\ Quiet(overlay') /\ overlay'.pending = overlay.pending
    <2>1. overlay \in Overlay /\ Quiet(overlay)
        BY <1>1 DEF Good, Calm
    <2>2. LET o == Show(overlay, Message) IN o \in Overlay /\ o.popup = Message /\ o.pending = overlay.pending
        BY <2>1, MessageOK, ShowOK
    <2>3. QED
        BY <1>2, <2>1, <2>2, MessageOK DEF Quiet
<1>4. Calm'
    BY <1>1, <1>2, <1>3 DEF Calm, Quiet
<1>5. QED
    BY <1>2, <1>3, <1>4, OverlayOnly

(***************************************************************************)
(* The user.                                                               *)
(***************************************************************************)

\* Who types has seen a dialog, and while he does only his prompt is asked for.
LEMMA TypingIsShown ==
    ASSUME Good, user # Nobody
    PROVE  \E p \in Prompt : Prompting(p) /\ Shown(p)
BY DEF Good, Calm, Prompting, Asked, Entered

LEMMA UserNoticesKeeps ==
    ASSUME Good, UserNotices
    PROVE  Good'
<1>1. /\ overlay.popup.kind = "password" /\ overlay.visible
      /\ user = Nobody /\ user' = [prompt |-> overlay.popup.prompt, left |-> 2]
      /\ asks' = asks /\ step' = step /\ answers' = answers /\ leaked' = leaked
      /\ commands' = commands /\ sent' = sent /\ inflight' = inflight
      /\ awaiting' = awaiting /\ child' = child /\ toChild' = toChild
      /\ toTui' = toTui /\ overlay' = overlay
    BY DEF UserNotices, IsPassword, childVars, socket, vm, guest
<1>2. PICK p \in Prompt : Prompting(p) /\ Shown(p)
    BY <1>1 DEF Good, Calm, Prompting, Asked, Entered, Quiet
<1>3. p # None
    BY ConstantsOK
<1>4. overlay.popup.prompt = p /\ overlay.popup.typed = <<>>
    BY <1>1, <1>2, <1>3 DEF Shown, Nobody
<1>5. Shown(p)'
    BY <1>1, <1>2, <1>4 DEF Shown
<1>6. Prompting(p)'
    BY <1>1, <1>2, <1>5 DEF Prompting, At, Script
<1>7. QED
    BY <1>1, <1>6, Elsewhere

\* Two pieces of one password are all of it.
LEMMA SecondPiece ==
    ASSUME NEW p
    PROVE  Append(<<p>>, p) = <<p, p>>
<1>1. /\ <<p>> \in Seq({p}) /\ Len(<<p>>) = 1 /\ <<p>>[1] = p
      /\ <<p, p>> \in Seq({p}) /\ Len(<<p, p>>) = 2 /\ <<p, p>>[1] = p /\ <<p, p>>[2] = p
    OBVIOUS
<1>2. /\ Append(<<p>>, p) \in Seq({p}) /\ Len(Append(<<p>>, p)) = 2
      /\ Append(<<p>>, p)[1] = p /\ Append(<<p>>, p)[2] = p
    BY <1>1, AppendProperties
<1>3. Len(Append(<<p>>, p)) = Len(<<p, p>>)
    BY <1>1, <1>2
<1>4. \A i \in 1..Len(Append(<<p>>, p)) : Append(<<p>>, p)[i] = <<p, p>>[i]
    BY <1>1, <1>2
<1>5. QED
    BY <1>1, <1>2, <1>3, <1>4, SeqEqual

LEMMA UserTypesKeeps ==
    ASSUME Good, UserTypes
    PROVE  Good'
<1>1. user # Nobody /\ user.left > 0
    BY DEF UserTypes, Nobody
<1>2. PICK p \in Prompt : Prompting(p) /\ Shown(p)
    BY <1>1, TypingIsShown
<1>3. /\ overlay' = [overlay EXCEPT !.popup.typed = Append(@, user.prompt)]
      /\ user' = [user EXCEPT !.left = @ - 1]
      /\ asks' = asks /\ step' = step /\ answers' = answers /\ leaked' = leaked
      /\ commands' = commands /\ sent' = sent /\ inflight' = inflight
      /\ awaiting' = awaiting /\ child' = child /\ toChild' = toChild
      /\ toTui' = toTui
    BY <1>2 DEF UserTypes, Shown, IsPassword, childVars, socket, vm, guest
<1>4. /\ overlay \in Overlay /\ overlay.popup.kind = "password" /\ overlay.popup.prompt = p
      /\ \/ user = [prompt |-> p, left |-> 2] /\ overlay.popup.typed = <<>>
         \/ user = [prompt |-> p, left |-> 1] /\ overlay.popup.typed = <<p>>
    BY <1>1, <1>2 DEF Good, Shown
<1>5. /\ user'.prompt = p
      /\ \/ user' = [prompt |-> p, left |-> 1] /\ Append(overlay.popup.typed, user.prompt) = <<p>>
         \/ user' = [prompt |-> p, left |-> 0] /\ Append(overlay.popup.typed, user.prompt) = <<p, p>>
    <2>1. Append(<<>>, p) = <<p>> /\ Append(<<p>>, p) = <<p, p>>
        BY SecondPiece
    <2>2. user.prompt = p
        BY <1>4
    <2>3. CASE user = [prompt |-> p, left |-> 2]
        <3>1. user' = [prompt |-> p, left |-> 1]
            BY <1>3, <2>3
        <3>2. overlay.popup.typed = <<>>
            BY <1>4, <2>3
        <3>3. QED
            BY <2>1, <2>2, <3>1, <3>2
    <2>4. CASE user = [prompt |-> p, left |-> 1]
        <3>1. user' = [prompt |-> p, left |-> 0]
            BY <1>3, <2>4
        <3>2. overlay.popup.typed = <<p>>
            BY <1>4, <2>4
        <3>3. QED
            BY <2>1, <2>2, <3>1, <3>2
    <2>5. QED
        BY <1>4, <2>3, <2>4
<1>6. Append(overlay.popup.typed, user.prompt) \in Seq(Prompt)
    <2>1. <<p>> \in Seq(Prompt) /\ <<p, p>> \in Seq(Prompt)
        OBVIOUS
    <2>2. QED
        BY <1>5, <2>1
<1>7. /\ overlay' \in Overlay /\ overlay'.pending = overlay.pending
      /\ overlay'.popup.kind = "password" /\ overlay'.popup.prompt = p
      /\ overlay'.popup.typed = Append(overlay.popup.typed, user.prompt)
    BY <1>3, <1>4, <1>6 DEF Overlay, Popup
<1>8. Shown(p)'
    BY <1>2, <1>3, <1>5, <1>7 DEF Shown
<1>9. Prompting(p)'
    BY <1>2, <1>3, <1>8 DEF Prompting, At, Script
<1>10. QED
    BY <1>3, <1>7, <1>9, OverlayOnly

LEMMA UserEntersKeeps ==
    ASSUME Good, UserEnters
    PROVE  Good'
<1>1. user # Nobody /\ user.left = 0
    BY DEF UserEnters, Nobody
<1>2. PICK p \in Prompt : Prompting(p) /\ Shown(p)
    BY <1>1, TypingIsShown
<1>3. overlay.popup.kind = "password" /\ overlay.popup.typed = <<p, p>> /\ toChild = <<>>
    BY <1>1, <1>2 DEF Shown
<1>4. /\ overlay' = [overlay EXCEPT !.visible = FALSE]
      /\ toChild' = << <<p, p>> >> /\ user' = Nobody
      /\ asks' = asks /\ step' = step /\ answers' = answers /\ leaked' = leaked
      /\ commands' = commands /\ sent' = sent /\ inflight' = inflight
      /\ awaiting' = awaiting /\ child' = child /\ toTui' = toTui
    BY <1>2, <1>3 DEF UserEnters, Enter, IsPassword, Prompting, childVars, vm, guest
<1>5. overlay' \in Overlay /\ overlay'.pending = overlay.pending /\ ~overlay'.visible
    BY <1>4 DEF Good, Overlay
<1>6. Entered(p)'
    BY <1>2, <1>4, <1>5 DEF Shown, Entered, Quiet
<1>7. Prompting(p)'
    BY <1>2, <1>4, <1>6 DEF Prompting, At, Script
<1>8. QED
    BY <1>4, <1>5, <1>7, OverlayOnly

LEMMA UserDismissesKeeps ==
    ASSUME Good, UserDismisses
    PROVE  Good'
<1>1. UNCHANGED <<childVars, socket, overlay, vm, user, leaked>>
    BY DEF UserDismisses
<1>2. Script' = Script
    BY <1>1 DEF Script, childVars
<1>3. QED
    BY <1>1, <1>2, Elsewhere DEF Good, Calm, Prompting, Asked, Shown, Entered, At, childVars, socket,
                                vm, guest

(***************************************************************************)
(* The guest.                                                              *)
(***************************************************************************)

\* With the container up the prompts lie behind.
LEMMA RunningIsDone ==
    ASSUME Good, At("run")
    PROVE  PromptsDone
<1>1. DOMAIN Script = 1..Len(Script) /\ Len(Script) \in Nat /\ step \in Nat \ {0}
    BY ScriptOrder DEF Good, RunInv
<1>2. step \in DOMAIN Script /\ Script[step] = "run"
    BY <1>1 DEF At
<1>3. QED
    BY <1>2, ScriptOrder DEF Good, RunInv, PromptsDone

LEMMA VmSendsKeeps ==
    ASSUME Good, VmSends
    PROVE  Good'
<1>1. PromptsDone /\ Calm
    BY RunningIsDone, CalmThen DEF VmSends, Running
<1>2. /\ sent < Len(commands) /\ sent' = sent + 1 /\ inflight' = inflight \cup {sent'}
      /\ commands' = commands /\ asks' = asks /\ step' = step /\ overlay' = overlay
      /\ answers' = answers /\ leaked' = leaked /\ awaiting' = awaiting /\ user' = user
      /\ toChild' = toChild /\ toTui' = toTui
    BY DEF VmSends, childVars, socket, guest, person
<1>3. commands \in VmScripts /\ sent \in Nat /\ inflight \subseteq DOMAIN commands
    BY DEF Good, GuestInv
<1>4. DOMAIN commands = 1..Len(commands)
    BY <1>3, GuestSends
<1>5. Len(commands) \in Nat
    BY <1>3, ConstantsOK, LenProperties
<1>6. sent' \in Nat /\ inflight' \subseteq DOMAIN commands
    BY <1>2, <1>3, <1>4, <1>5
<1>7. PromptsDone' /\ RunInv'
    BY <1>1, <1>2, DoneStays DEF Good, RunInv
<1>8. Calm'
    BY <1>1, <1>2 DEF Calm
<1>9. QED
    BY <1>2, <1>3, <1>6, <1>7, <1>8 DEF Good, GuestInv

LEMMA ListenerKeeps ==
    ASSUME Good, NEW i \in Slot, ListenerApplies(i)
    PROVE  Good'
<1>1. i \in inflight /\ inflight \subseteq DOMAIN commands /\ commands \in VmScripts
    BY DEF ListenerApplies, Good, GuestInv
<1>2. PromptsDone /\ Calm /\ overlay \in Overlay
    BY <1>1, CalmThen DEF Good, GuestInv
<1>3. NoQuestion(commands[i])
    BY <1>1, GuestSends
<1>4. /\ overlay' = Dispatch(overlay, commands[i]) /\ inflight' = inflight \ {i}
      /\ commands' = commands /\ sent' = sent /\ asks' = asks /\ step' = step
      /\ answers' = answers /\ leaked' = leaked /\ awaiting' = awaiting /\ user' = user
      /\ toChild' = toChild /\ toTui' = toTui
    BY DEF ListenerApplies, childVars, socket, guest, person
<1>5. overlay' \in Overlay /\ Quiet(overlay')
    BY <1>2, <1>3, <1>4, DispatchQuiet DEF Calm
<1>6. PromptsDone' /\ RunInv'
    BY <1>2, <1>4, DoneStays DEF Good, RunInv
<1>7. Calm'
    BY <1>2, <1>4, <1>5 DEF Calm, Quiet
<1>8. (overlay \in Overlay)'
    BY <1>5 DEF Overlay
<1>9. QED
    BY <1>1, <1>4, <1>6, <1>7, <1>8 DEF Good, GuestInv

LEMMA AppPrintsKeeps ==
    ASSUME Good, AppPrints
    PROVE  Good'
<1>1. UNCHANGED <<childVars, socket, overlay, tui, guest, sent, inflight, person>>
    BY DEF AppPrints
<1>2. Script' = Script
    BY <1>1 DEF Script, childVars
<1>3. QED
    BY <1>1, <1>2, Elsewhere DEF Good, Calm, Prompting, Asked, Shown, Entered, At, childVars, socket,
                                guest, person

(***************************************************************************)
(* All together.                                                           *)
(***************************************************************************)

LEMMA GoodStays ==
    ASSUME Good, Next, extra' = extra
    PROVE  Good' \/ UserEntersAgain
BY ChildTells, ChildAsksKeeps, ChildReadsKeeps, SetupThreadTells, TuiReadsKeeps, TuiScansKeeps,
   TuiFiresKeeps, TuiEndsKeeps, UserNoticesKeeps, UserTypesKeeps, UserEntersKeeps,
   UserDismissesKeeps, VmSendsKeeps, ListenerKeeps, AppPrintsKeeps
   DEF Next, Child, Tui, User, Listener

\* Only an Enter that nobody asked for is counted.
LEMMA ExtraStays ==
    ASSUME Next
    PROVE  extra' = extra \/ UserEntersAgain
BY DEF Next, Child, Tui, User, Listener, ChildLogs, ChildAsks, ChildReads, SetupThreadLogs,
       ChildGivesUp, ChildFails, ContainerEnds, ChildExits, UserInterrupts, TuiReadsStatus,
       TuiScans, TuiFires, TuiEnds, UserNotices, UserTypes, UserEnters, UserDismisses, VmSends,
       ListenerApplies, AppPrints, person

LEMMA StepKeeps == IInv /\ [Next]_vars => IInv'
<1>1. ASSUME IInv, UNCHANGED vars PROVE IInv'
    <2>1. Script' = Script
        BY <1>1 DEF Script, vars, childVars
    <2>2. QED
        BY <1>1, <2>1, Elsewhere
        DEF IInv, Good, Calm, Prompting, Asked, Shown, Entered, At, vars, childVars, socket, vm,
            guest, person
<1>2. ASSUME IInv, UserEntersAgain PROVE IInv'
    BY <1>2 DEF IInv, UserEntersAgain
<1>3. ASSUME IInv, Next, ~UserEntersAgain PROVE IInv'
    BY <1>3, GoodStays, ExtraStays DEF IInv
<1>4. QED
    BY <1>1, <1>2, <1>3

LEMMA Invariant == Spec => []IInv
BY Initially, StepKeeps, PTL DEF Spec

(***************************************************************************)
(* The theorems.                                                           *)
(***************************************************************************)

\* While a password is typed the dialog stays, whoever reports progress meanwhile
\* (dispatch_ui_command, prompt_password, the key branch of event_loop).
THEOREM SecretsHold == Spec => []SecretsStayHidden
<1>1. IInv => SecretsStayHidden
    BY DEF IInv, Good, SecretsStayHidden
<1>2. QED
    BY <1>1, Invariant, PTL

\* What prompt_password returns is what was typed for that prompt, all of it.
THEOREM AnswersHold == Spec => []AnswersAreTyped
<1>1. IInv => AnswersAreTyped
    BY DEF IInv, Good, AnswersAreTyped
<1>2. QED
    BY <1>1, Invariant, PTL

(***************************************************************************)
(* The types, and what becomes of an error: both whatever the user does.   *)
(***************************************************************************)

\* What the child says: messages and questions.
Said == Plainly \cup {Ask(p) : p \in Prompt}

\* A popup is the message or the dialog of a prompt.
Fit(o) ==
    /\ o \in Overlay
    /\ o.popup.kind = "info" => o.popup = Message
    /\ o.popup.kind = "password" => o.popup.prompt \in Prompt

ChildShape ==
    /\ asks \subseteq Prompt
    /\ step \in 1..Len(Script) + 1
    /\ awaiting \in BOOLEAN
    /\ child \in {"up", "reported", "failed", "stuck", "gone"}
    /\ setup \in {"idle", "working", "done"}
    /\ toTui \in Seq(Said)
    /\ toChild \in Seq(Seq(Prompt))
    /\ DOMAIN answers = Prompt
    /\ \A p \in Prompt : answers[p] = None \/ answers[p] \in Seq(Prompt)

ScreenShape ==
    /\ Fit(overlay) /\ overlay.content \in Value
    /\ tui \in {"up", "held", "closed"}

VmShape ==
    /\ commands \in VmScripts /\ ordered \in InOrder
    /\ screen \subseteq Texts
    /\ sent \in 0..Len(commands)
    /\ inflight \subseteq 1..sent

UserShape ==
    /\ user \in [prompt : Prompt \cup {None}, left : 0..2]
    /\ user.left > 0 => user.prompt \in Prompt
    /\ extra \in 0..MaxExtra
    /\ leaked \in BOOLEAN /\ seen \in BOOLEAN

Shape == ChildShape /\ ScreenShape /\ VmShape /\ UserShape

\* What Range makes of the two ends of a queue.
LEMMA QueueRange ==
    ASSUME NEW S, NEW s \in Seq(S), NEW c \in S
    PROVE  /\ Range(Append(s, c)) = Range(s) \cup {c}
           /\ s # <<>> => Range(s) = {Head(s)} \cup Range(Tail(s))
           /\ Range(s) \subseteq S
<1>1. DOMAIN s = 1..Len(s) /\ Len(s) \in Nat /\ \A i \in 1..Len(s) : s[i] \in S
    BY LenProperties, ElementOfSeq
<1>2. Range(Append(s, c)) = Range(s) \cup {c}
    <2>1. /\ DOMAIN Append(s, c) = 1..Len(s) + 1 /\ Append(s, c)[Len(s) + 1] = c
          /\ \A i \in 1..Len(s) : Append(s, c)[i] = s[i]
        BY <1>1, AppendProperties, LenProperties
    <2>2. QED
        BY <1>1, <2>1 DEF Range
<1>3. s # <<>> => Range(s) = {Head(s)} \cup Range(Tail(s))
    <2> SUFFICES ASSUME s # <<>> PROVE Range(s) = {Head(s)} \cup Range(Tail(s))
        OBVIOUS
    <2>1. /\ Head(s) = s[1] /\ Len(s) >= 1 /\ DOMAIN Tail(s) = 1..Len(s) - 1
          /\ \A i \in 1..Len(s) - 1 : Tail(s)[i] = s[i + 1]
        BY <1>1, HeadTailProperties, LenProperties
    <2>2. \A i \in 2..Len(s) : i - 1 \in 1..Len(s) - 1 /\ Tail(s)[i - 1] = s[i]
        BY <1>1, <2>1
    <2>3. Head(s) \in Range(s) /\ Range(Tail(s)) \subseteq Range(s)
        <3>1. 1 \in DOMAIN s
            BY <1>1, <2>1
        <3>2. ASSUME NEW i \in DOMAIN Tail(s) PROVE Tail(s)[i] \in Range(s)
            <4>1. i + 1 \in DOMAIN s /\ Tail(s)[i] = s[i + 1]
                BY <1>1, <2>1
            <4>2. QED
                BY <4>1 DEF Range
        <3>3. QED
            BY <2>1, <3>1, <3>2 DEF Range
    <2>4. ASSUME NEW i \in DOMAIN s PROVE s[i] \in {Head(s)} \cup Range(Tail(s))
        <3>1. CASE i = 1
            BY <2>1, <3>1
        <3>2. CASE i # 1
            <4>1. i \in 2..Len(s)
                BY <1>1, <3>2
            <4>2. i - 1 \in DOMAIN Tail(s) /\ Tail(s)[i - 1] = s[i]
                BY <4>1, <2>1, <2>2
            <4>3. Tail(s)[i - 1] \in Range(Tail(s))
                BY <4>2 DEF Range
            <4>4. QED
                BY <4>2, <4>3
        <3>3. QED
            BY <3>1, <3>2
    <2>5. Range(s) \subseteq {Head(s)} \cup Range(Tail(s))
        BY <2>4 DEF Range
    <2>6. QED
        BY <2>3, <2>5
<1>4. Range(s) \subseteq S
    BY <1>1 DEF Range
<1>5. QED
    BY <1>2, <1>3, <1>4

\* What the child says are commands, of the kinds they are named for.
LEMMA SaidOK ==
    /\ Info \in Said /\ Error \in Said /\ Hide \in Said /\ \A p \in Prompt : Ask(p) \in Said
    /\ Said \subseteq Command
<1>1. None \in Value /\ Prompt \subseteq Value
    BY DEF Value
<1>2. Info \in Command /\ Error \in Command /\ Hide \in Command
    BY <1>1 DEF Info, Error, Hide, Cmd, Command
<1>3. \A p \in Prompt : Ask(p) \in Command
    BY <1>1 DEF Ask, Cmd, Command
<1>4. QED
    BY <1>2, <1>3 DEF Said, Plainly

\* Of all commands an error is the one that holds the popup at the end, and no other
\* takes that back.
LEMMA DispatchFits ==
    ASSUME NEW o, Fit(o), NEW c, NoQuestion(c) \/ \E p \in Prompt : c = Ask(p)
    PROVE  /\ Fit(Dispatch(o, c))
           /\ Dispatch(o, c).content \in {o.content, c.value}
           /\ o.error \/ c.kind = "error" => Dispatch(o, c).error
<1>0. None # "ASCII" /\ o \in Overlay
    BY ConstantsOK DEF Fit
<1>1. CASE NoQuestion(c)
    <2> USE <1>0, <1>1 DEF NoQuestion, Fit, Overlay, Dispatch
    <2>0. Dispatch(o, c) \in Overlay
        BY DispatchQuiet
    <2>1. CASE c.kind = "hide" /\ c.value = "ASCII"
        <3>1. Dispatch(o, c) = [o EXCEPT !.ascii = TRUE]
            BY <2>1
        <3>2. QED
            BY <2>0, <2>1, <3>1
    <2>2. CASE c.kind = "hide" /\ c.value \notin {"ASCII", None}
        <3>1. Dispatch(o, c) = [o EXCEPT !.content = c.value]
            BY <2>2
        <3>2. QED
            BY <2>0, <2>2, <3>1
    <2>3. CASE c.delayed /\ c.value = None
        <3>1. Dispatch(o, c) = [o EXCEPT !.pending = Append(@, c)]
            BY <2>3
        <3>2. QED
            BY <2>0, <2>3, <3>1
    <2>4. CASE ~c.delayed /\ c.value = None /\ c.kind = "hide"
        <3>1. Dispatch(o, c) = [o EXCEPT !.visible = FALSE]
            BY <2>4
        <3>2. QED
            BY <2>0, <2>4, <3>1
    <2>5. CASE ~c.delayed /\ c.value = None /\ c.kind = "info"
        <3>1. Dispatch(o, c) = [o EXCEPT !.popup = Message, !.visible = TRUE]
            BY <2>5 DEF Show
        <3>2. QED
            BY <2>0, <2>5, <3>1, MessageOK
    <2>6. CASE ~c.delayed /\ c.value = None /\ c.kind = "error"
        <3>1. Dispatch(o, c) = [[o EXCEPT !.popup = Message, !.visible = TRUE] EXCEPT !.error = TRUE]
            BY <2>6 DEF Show
        <3>2. Dispatch(o, c).error /\ Dispatch(o, c).content = o.content
              /\ Dispatch(o, c).popup = Message
            BY <3>1
        <3>3. QED
            BY <2>0, <2>6, <3>2, MessageOK
    <2>7. QED
        BY <2>1, <2>2, <2>3, <2>4, <2>5, <2>6
<1>2. ASSUME NEW p \in Prompt, c = Ask(p)
      PROVE  /\ Fit(Dispatch(o, c))
             /\ Dispatch(o, c).content \in {o.content, c.value}
             /\ o.error \/ c.kind = "error" => Dispatch(o, c).error
    <2>1. Dispatch(o, c) = Dialog(o, p)
        BY <1>2, ConstantsOK DEF Dispatch, Ask, Cmd
    <2>2. /\ Dispatch(o, c) \in Overlay
          /\ Dispatch(o, c).popup = [kind |-> "password", prompt |-> p, typed |-> <<>>]
        BY <1>0, <1>2, DispatchAsk
    <2>3. /\ Dispatch(o, c).content = o.content /\ Dispatch(o, c).error = o.error
        BY <1>0, <2>1 DEF Dialog, Show, Overlay
    <2>4. c.kind = "password"
        BY <1>2 DEF Ask, Cmd
    <2>5. QED
        BY <2>2, <2>3, <2>4 DEF Fit
<1>3. QED
    BY <1>1, <1>2


\* The script is that of the prompts of the run, and these never change.
LEMMA ScriptStays ==
    ASSUME Shape, asks' = asks
    PROVE  Script' = Script /\ Len(Script) \in Nat
<1>1. Script' = Script
    BY DEF Script
<1>2. QED
    BY <1>1, ScriptOrder DEF Shape, ChildShape

LEMMA InitShape == Init => Shape
<1> SUFFICES ASSUME Init PROVE Shape
    OBVIOUS
<1>1. overlay \in Overlay /\ overlay.popup = Message
    BY MessageOK DEF Init, Overlay, Text
<1>2. ScreenShape
    BY <1>1, MessageOK DEF Init, ScreenShape, Fit, Value
<1>3. Len(Script) \in Nat
    BY ScriptOrder DEF Init
<1>4. ChildShape
    <2>1. asks \subseteq Prompt /\ step \in 1..Len(Script) + 1
        BY <1>3 DEF Init
    <2>2. toTui \in Seq(Said) /\ toChild \in Seq(Seq(Prompt))
        BY EmptySeq DEF Init
    <2>3. DOMAIN answers = Prompt /\ \A p \in Prompt : answers[p] = None
        BY DEF Init
    <2>4. QED
        BY <2>1, <2>2, <2>3 DEF Init, ChildShape
<1>5. Len(commands) \in Nat
    BY ConstantsOK, LenProperties DEF Init
<1>6. VmShape
    BY <1>5 DEF Init, VmShape
<1>7. UserShape
    <2>1. user \in [prompt : Prompt \cup {None}, left : 0..2] /\ user.left = 0
        BY DEF Init, Nobody
    <2>2. extra \in 0..MaxExtra
        BY ConstantsOK DEF Init
    <2>3. leaked = FALSE /\ seen = FALSE
        BY DEF Init
    <2>4. ~(user.left > 0)
        BY <2>1
    <2>5. QED
        BY <2>1, <2>2, <2>3, <2>4 DEF UserShape
<1>8. QED
    BY <1>2, <1>4, <1>6, <1>7 DEF Shape

\* The child, and the two directions of its socket.
LEMMA ChildShapeStays ==
    ASSUME Shape, Next
    PROVE  ChildShape'
<1> USE DEF ChildShape, Shape
<1>run. asks' = asks
    BY DEF Next, Child, Tui, User, Listener, ChildLogs, ChildAsks, ChildReads, SetupThreadLogs,
       ChildGivesUp, ChildFails, ContainerEnds, ChildExits, UserInterrupts, TuiReadsStatus,
       TuiScans, TuiFires, TuiEnds, UserNotices, UserTypes, UserEnters, UserDismisses, VmSends,
       ListenerApplies, AppPrints, UserEntersAgain, childVars
<1>script. Script' = Script /\ Len(Script) \in Nat
    BY <1>run, ScriptStays
<1>said. Info \in Said /\ Error \in Said /\ Hide \in Said /\ \A p \in Prompt : Ask(p) \in Said
    BY SaidOK
<1>queue. \A c \in Said : Append(toTui, c) \in Seq(Said)
    BY AppendProperties
<1>1. CASE ChildLogs
    <2>1. step' \in 1..Len(Script) + 1
        BY <1>1, <1>script DEF ChildLogs, At
    <2>2. toTui' \in Seq(Said)
        BY <1>1, <1>said, <1>queue DEF ChildLogs, Say, HasStatusFd
    <2>3. QED
        BY <1>1, <1>script, <1>run, <2>1, <2>2 DEF ChildLogs
<1>2. CASE SetupThreadLogs
    BY <1>2, <1>script, <1>run DEF SetupThreadLogs, Say, HasStatusFd
<1>3. ASSUME NEW p \in Prompt, ChildAsks(p) PROVE ChildShape'
    <2>1. toTui' \in Seq(Said)
        BY <1>3, <1>said, <1>queue DEF ChildAsks, Say, HasStatusFd
    <2>2. QED
        BY <1>3, <1>script, <1>run, <2>1 DEF ChildAsks
<1>4. ASSUME NEW p \in Prompt, ChildReads(p) PROVE ChildShape'
    <2>1. step' \in 1..Len(Script) + 1
        BY <1>4, <1>script DEF ChildReads, At
    <2>2. toTui' \in Seq(Said)
        BY <1>4, <1>said, <1>queue DEF ChildReads, Say, HasStatusFd
    <2>3. Head(toChild) \in Seq(Prompt) /\ Tail(toChild) \in Seq(Seq(Prompt))
        BY <1>4, HeadTailProperties DEF ChildReads
    <2>4. answers' = [answers EXCEPT ![p] = Head(toChild)] /\ toChild' = Tail(toChild)
        BY <1>4 DEF ChildReads
    <2>5. /\ DOMAIN answers' = Prompt
          /\ \A q \in Prompt : answers'[q] = None \/ answers'[q] \in Seq(Prompt)
        BY <2>3, <2>4
    <2>6. QED
        BY <1>4, <1>script, <1>run, <2>1, <2>2, <2>3, <2>4, <2>5 DEF ChildReads
<1>5. CASE ChildGivesUp \/ ChildExits \/ UserInterrupts
    BY <1>5, <1>script, <1>run DEF ChildGivesUp, ChildExits, UserInterrupts, socket
<1>6. CASE ChildFails
    <2>1. toTui' \in Seq(Said)
        BY <1>6, <1>said, <1>queue DEF ChildFails, Say, HasStatusFd
    <2>2. QED
        BY <1>6, <1>script, <1>run, <2>1 DEF ChildFails
<1>7. CASE ContainerEnds
    <2>1. step' \in 1..Len(Script) + 1
        BY <1>7, <1>script DEF ContainerEnds, At
    <2>2. QED
        BY <1>7, <1>script, <1>run, <2>1 DEF ContainerEnds, socket
<1>8. CASE TuiReadsStatus
    <2>1. Tail(toTui) \in Seq(Said)
        BY <1>8, HeadTailProperties DEF TuiReadsStatus
    <2>2. QED
        BY <1>8, <1>script, <1>run, <2>1 DEF TuiReadsStatus, childVars
<1>9. CASE UserEnters \/ UserEntersAgain
    <2>1. overlay.popup.typed \in Seq(Prompt)
        BY DEF ScreenShape, Fit, Overlay, Popup
    <2>2. Append(toChild, overlay.popup.typed) \in Seq(Seq(Prompt))
        BY <2>1, AppendProperties
    <2>3. toChild' \in {toChild, Append(toChild, overlay.popup.typed)}
        BY <1>9 DEF UserEnters, UserEntersAgain, Enter
    <2>4. toChild' \in Seq(Seq(Prompt))
        BY <2>2, <2>3
    <2>5. QED
        BY <1>9, <1>script, <1>run, <2>4 DEF UserEnters, UserEntersAgain, childVars
<1>10. CASE UNCHANGED <<childVars, socket>>
    BY <1>10, <1>script, <1>run DEF childVars, socket
<1>11. QED
    BY <1>1, <1>2, <1>3, <1>4, <1>5, <1>6, <1>7, <1>8, <1>9, <1>10
    DEF Next, Child, Tui, User, Listener, TuiScans, TuiFires, TuiEnds, UserNotices, UserTypes,
        UserDismisses, VmSends, ListenerApplies, AppPrints

\* What the guest sends for the popup, and what the child says.
LEMMA ShownValues ==
    ASSUME Shape
    PROVE  /\ \A i \in inflight : i \in DOMAIN commands /\ NoQuestion(commands[i])
                                  /\ commands[i].value \in Value
           /\ toTui # <<>> => Head(toTui) \in Said
           /\ \A c \in Said : c.value \in Value
           /\ \A i \in DOMAIN overlay.pending : overlay.pending[i] \in Waiting
<1>1. commands \in VmScripts /\ inflight \subseteq 1..Len(commands) /\ Len(commands) \in Nat
    BY ConstantsOK, LenProperties DEF Shape, VmShape
<1>2. DOMAIN commands = 1..Len(commands) /\ \A i \in DOMAIN commands : NoQuestion(commands[i])
    BY <1>1, GuestSends
<1>3. \A i \in DOMAIN commands : commands[i].value \in Value
    BY DEF Value, Range
<1>4. toTui # <<>> => Head(toTui) \in Said
    BY HeadTailProperties DEF Shape, ChildShape
<1>5. \A c \in Said : c.value \in Value
    BY SaidOK DEF Command
<1>6. overlay.pending \in Seq(Waiting)
    BY DEF Shape, ScreenShape, Fit, Overlay
<1>7. \A i \in DOMAIN overlay.pending : overlay.pending[i] \in Waiting
    BY <1>6, ElementOfSeq, LenProperties
<1>8. QED
    BY <1>1, <1>2, <1>3, <1>4, <1>5, <1>7

\* One of the pending actions taken out.
LEMMA WithoutOne ==
    ASSUME Shape, NEW i \in DOMAIN overlay.pending
    PROVE  LET rest == [overlay EXCEPT !.pending =
                            SubSeq(@, 1, i - 1) \o SubSeq(@, i + 1, Len(@))]
           IN  Fit(rest) /\ rest.content = overlay.content /\ rest.error = overlay.error
<1> DEFINE queue == overlay.pending
<1>1. overlay \in Overlay /\ queue \in Seq(Waiting) /\ Len(queue) \in Nat /\ i \in 1..Len(queue)
    BY LenProperties DEF Shape, ScreenShape, Fit, Overlay
<1>2. SubSeq(queue, 1, i - 1) \in Seq(Waiting) /\ SubSeq(queue, i + 1, Len(queue)) \in Seq(Waiting)
    <2>1. ASSUME NEW a \in Int, NEW b \in Int, a >= 1, b <= Len(queue)
          PROVE  SubSeq(queue, a, b) \in Seq(Waiting)
        BY <1>1, <2>1, SubSeqProperties
    <2>2. QED
        BY <1>1, <2>1
<1>3. SubSeq(queue, 1, i - 1) \o SubSeq(queue, i + 1, Len(queue)) \in Seq(Waiting)
    BY <1>2, ConcatProperties
<1>4. ASSUME NEW q \in Seq(Waiting)
      PROVE  LET o == [overlay EXCEPT !.pending = q]
             IN  Fit(o) /\ o.content = overlay.content /\ o.error = overlay.error
    BY <1>1, <1>4 DEF Overlay, Fit, Shape, ScreenShape
<1>5. QED
    BY <1>3, <1>4

\* What comes next for the popup: what it is dispatched on, and the command.
LEMMA Dispatched ==
    ASSUME Shape, Next
    PROVE  \/ overlay' \in {overlay, [overlay EXCEPT !.visible = FALSE],
                            [overlay EXCEPT !.visible = FALSE, !.ascii = FALSE],
                            [overlay EXCEPT !.visible = FALSE, !.content = None]}
           \/ user.left > 0 /\ IsPassword
              /\ overlay' = [overlay EXCEPT !.popup.typed = Append(@, user.prompt)]
           \/ overlay' = Show(overlay, Message) /\ TuiEnds
           \/ \E o, c : /\ Fit(o) /\ o.content = overlay.content /\ o.error = overlay.error
                        /\ NoQuestion(c) \/ \E p \in Prompt : c = Ask(p)
                        /\ c.value \in Value
                        /\ overlay' = Dispatch(o, c)
<1> USE ShownValues
<1>fit. Fit(overlay)
    BY DEF Shape, ScreenShape
<1>1. CASE TuiReadsStatus
    <2>1. Head(toTui) \in Said /\ Head(toTui).value \in Value
        BY <1>1 DEF TuiReadsStatus
    <2>2. NoQuestion(Head(toTui)) \/ \E p \in Prompt : Head(toTui) = Ask(p)
        BY <2>1, PlainNoQuestion DEF Said
    <2>3. overlay' = Dispatch(overlay, Head(toTui))
        BY <1>1 DEF TuiReadsStatus
    <2>4. QED
        BY <1>fit, <2>1, <2>2, <2>3
<1>2. ASSUME NEW i \in Slot, TuiFires(i)
      PROVE  \E o, c : /\ Fit(o) /\ o.content = overlay.content /\ o.error = overlay.error
                       /\ NoQuestion(c) /\ c.value \in Value
                       /\ overlay' = Dispatch(o, c)
    <2> DEFINE rest == [overlay EXCEPT !.pending =
                            SubSeq(@, 1, i - 1) \o SubSeq(@, i + 1, Len(@))]
               command == [overlay.pending[i] EXCEPT !.delayed = FALSE]
    <2>1. i \in DOMAIN overlay.pending /\ overlay' = Dispatch(rest, command)
        BY <1>2 DEF TuiFires
    <2>2. Fit(rest) /\ rest.content = overlay.content /\ rest.error = overlay.error
        BY <2>1, WithoutOne
    <2>3. overlay.pending[i] \in Waiting
        BY <2>1
    <2>4. command.value \in Value
        BY <2>3 DEF Waiting, Value
    <2>5. NoQuestion(command)
        BY <2>3, WaitingNoQuestion
    <2> HIDE DEF rest, command
    <2>6. QED
        BY <2>1, <2>2, <2>4, <2>5
<1>3. ASSUME NEW i \in Slot, ListenerApplies(i)
      PROVE  \E o, c : /\ Fit(o) /\ o.content = overlay.content /\ o.error = overlay.error
                       /\ NoQuestion(c) /\ c.value \in Value
                       /\ overlay' = Dispatch(o, c)
    <2>1. i \in inflight /\ overlay' = Dispatch(overlay, commands[i])
        BY <1>3 DEF ListenerApplies
    <2>2. QED
        BY <1>fit, <2>1
<1>4. CASE TuiScans
    BY <1>4 DEF TuiScans
<1>5. CASE TuiEnds
    BY <1>5 DEF TuiEnds
<1>6. CASE UserTypes
    BY <1>6 DEF UserTypes
<1>7. CASE UserEnters \/ UserEntersAgain
    BY <1>7 DEF UserEnters, UserEntersAgain, Enter
<1>8. CASE overlay' = overlay
    BY <1>8
<1>9. QED
    BY <1>1, <1>2, <1>3, <1>4, <1>5, <1>6, <1>7, <1>8
    DEF Next, Child, Tui, User, Listener, ChildLogs, ChildAsks, ChildReads, SetupThreadLogs,
       ChildGivesUp, ChildFails, ContainerEnds, ChildExits, UserInterrupts, UserNotices,
       UserDismisses, VmSends, AppPrints

\* The popup holds what it should whoever changes it.
LEMMA ScreenShapeStays ==
    ASSUME Shape, Next
    PROVE  ScreenShape'
<1>1. commands' = commands
    BY DEF Next, Child, Tui, User, Listener, ChildLogs, ChildAsks, ChildReads, SetupThreadLogs,
       ChildGivesUp, ChildFails, ContainerEnds, ChildExits, UserInterrupts, TuiReadsStatus,
       TuiScans, TuiFires, TuiEnds, UserNotices, UserTypes, UserEnters, UserDismisses, VmSends,
       ListenerApplies, AppPrints, UserEntersAgain, vm, guest
<1>2. Value' = Value
    BY <1>1 DEF Value
<1>3. tui' \in {"up", "held", "closed"}
    BY DEF Next, Child, Tui, User, Listener, ChildLogs, ChildAsks, ChildReads, SetupThreadLogs,
       ChildGivesUp, ChildFails, ContainerEnds, ChildExits, UserInterrupts, TuiReadsStatus,
       TuiScans, TuiFires, TuiEnds, UserNotices, UserTypes, UserEnters, UserDismisses, VmSends,
       ListenerApplies, AppPrints, UserEntersAgain, Shape, ScreenShape
<1>4. Fit(overlay) /\ overlay.content \in Value /\ None \in Value
    BY DEF Shape, ScreenShape, Value
<1>5. Fit(overlay') /\ overlay'.content \in Value
    <2>1. CASE overlay' \in {overlay, [overlay EXCEPT !.visible = FALSE],
                             [overlay EXCEPT !.visible = FALSE, !.ascii = FALSE],
                             [overlay EXCEPT !.visible = FALSE, !.content = None]}
        <3>1. None \in Text
            BY DEF Text
        <3>2. QED
            BY <1>4, <2>1, <3>1 DEF Fit, Overlay
    <2>2. CASE /\ user.left > 0 /\ IsPassword
               /\ overlay' = [overlay EXCEPT !.popup.typed = Append(@, user.prompt)]
        <3>1. Append(overlay.popup.typed, user.prompt) \in Seq(Prompt)
            BY <1>4, <2>2, AppendProperties DEF Fit, Overlay, Popup, Shape, UserShape
        <3>2. ASSUME NEW t \in Seq(Prompt)
              PROVE  LET o == [overlay EXCEPT !.popup.typed = t]
                     IN  Fit(o) /\ o.content = overlay.content
            BY <1>4, <2>2 DEF Fit, Overlay, Popup, IsPassword
        <3>3. QED
            BY <1>4, <2>2, <3>1, <3>2
    <2>3. CASE overlay' = Show(overlay, Message)
        <3>1. Show(overlay, Message) \in Overlay /\ Show(overlay, Message).popup = Message
            BY <1>4, ShowOK, MessageOK DEF Fit
        <3>2. Show(overlay, Message).content = overlay.content
            BY <1>4 DEF Show, Fit, Overlay
        <3>3. QED
            BY <1>4, <2>3, <3>1, <3>2, MessageOK DEF Fit
    <2>4. CASE \E o, c : /\ Fit(o) /\ o.content = overlay.content /\ o.error = overlay.error
                         /\ NoQuestion(c) \/ \E p \in Prompt : c = Ask(p)
                         /\ c.value \in Value
                         /\ overlay' = Dispatch(o, c)
        BY <1>4, <2>4, DispatchFits
    <2>5. QED
        BY <2>1, <2>2, <2>3, <2>4, Dispatched
<1>6. QED
    BY <1>2, <1>3, <1>5 DEF ScreenShape, Fit

\* The guest and its commands.
LEMMA VmShapeStays ==
    ASSUME Shape, Next
    PROVE  VmShape'
<1> USE DEF Shape, VmShape
<1>1. commands' = commands /\ ordered' = ordered
    BY DEF Next, Child, Tui, User, Listener, ChildLogs, ChildAsks, ChildReads, SetupThreadLogs,
       ChildGivesUp, ChildFails, ContainerEnds, ChildExits, UserInterrupts, TuiReadsStatus,
       TuiScans, TuiFires, TuiEnds, UserNotices, UserTypes, UserEnters, UserDismisses, VmSends,
       ListenerApplies, AppPrints, UserEntersAgain, vm, guest
<1>2. Texts' = Texts /\ "ASCII" \in Texts
    BY <1>1 DEF Texts
<1>3. Len(commands) \in Nat
    BY ConstantsOK, LenProperties
<1>4. CASE VmSends
    BY <1>1, <1>2, <1>3, <1>4 DEF VmSends
<1>5. CASE Listener
    BY <1>1, <1>2, <1>3, <1>5 DEF Listener, ListenerApplies
<1>6. CASE AppPrints
    BY <1>1, <1>2, <1>3, <1>6 DEF AppPrints
<1>7. CASE UNCHANGED vm
    BY <1>1, <1>2, <1>7 DEF vm
<1>8. QED
    BY <1>4, <1>5, <1>6, <1>7
    DEF Next, Child, Tui, User, ChildLogs, ChildAsks, ChildReads, SetupThreadLogs,
       ChildGivesUp, ChildFails, ContainerEnds, ChildExits, UserInterrupts, TuiReadsStatus,
       TuiScans, TuiFires, TuiEnds, UserNotices, UserTypes, UserEnters, UserDismisses,
       UserEntersAgain

\* The user types for a prompt that exists.
LEMMA UserShapeStays ==
    ASSUME Shape, Next
    PROVE  UserShape'
<1> USE DEF Shape, UserShape
<1>nobody. Nobody \in [prompt : Prompt \cup {None}, left : 0..2] /\ ~(Nobody.left > 0)
    BY DEF Nobody
<1>1. CASE UserNotices
    <2>1. overlay.popup.prompt \in Prompt
        BY <1>1 DEF UserNotices, IsPassword, ScreenShape, Fit
    <2>2. QED
        BY <1>1, <2>1 DEF UserNotices
<1>2. CASE UserTypes
    <2>1. user' = [user EXCEPT !.left = @ - 1] /\ user.left > 0
        BY <1>2 DEF UserTypes
    <2>2. user' \in [prompt : Prompt \cup {None}, left : 0..2] /\ user'.prompt \in Prompt
        BY <2>1
    <2>3. leaked' \in BOOLEAN
        BY <1>2 DEF UserTypes
    <2>4. QED
        BY <1>2, <2>2, <2>3 DEF UserTypes
<1>3. CASE UserEnters
    BY <1>nobody, <1>3 DEF UserEnters
<1>4. CASE UserEntersAgain
    <2>1. extra + 1 \in 0..MaxExtra
        BY <1>4, ConstantsOK DEF UserEntersAgain
    <2>2. QED
        BY <1>4, <2>1 DEF UserEntersAgain
<1>5. CASE UserDismisses
    BY <1>5 DEF UserDismisses
<1>6. CASE UNCHANGED person
    BY <1>6 DEF person
<1>7. QED
    BY <1>1, <1>2, <1>3, <1>4, <1>5, <1>6
    DEF Next, Child, Tui, User, Listener, ChildLogs, ChildAsks, ChildReads, SetupThreadLogs,
       ChildGivesUp, ChildFails, ContainerEnds, ChildExits, UserInterrupts, TuiReadsStatus,
       TuiScans, TuiFires, TuiEnds, VmSends, ListenerApplies, AppPrints

LEMMA ShapeStays == Shape /\ [Next]_vars => Shape'
<1>1. ASSUME Shape, Next PROVE Shape'
    BY <1>1, ChildShapeStays, ScreenShapeStays, VmShapeStays, UserShapeStays DEF Shape
<1>2. ASSUME Shape, UNCHANGED vars PROVE Shape'
    <2>1. Script' = Script /\ Value' = Value /\ Texts' = Texts
        BY <1>2 DEF vars, childVars, vm, guest, Script, Value, Texts
    <2>2. QED
        BY <1>2, <2>1 DEF vars, childVars, socket, vm, guest, person, Shape, ChildShape, ScreenShape,
           VmShape, UserShape, Fit
<1>3. QED
    BY <1>1, <1>2

\* Everything has its type (the shapes are what that takes).
THEOREM TypeCorrect == Spec => []TypeOK
<1>1. Shape => TypeOK
    <2> SUFFICES ASSUME Shape PROVE TypeOK
        OBVIOUS
    <2>1. toTui \in Seq(Command)
        BY SaidOK, SeqMonotonic DEF Shape, ChildShape
    <2>2. Waiting \subseteq Command
        BY DEF Waiting, Command, Value
    <2>3. overlay.pending \in Seq(Command)
        BY <2>2, SeqMonotonic DEF Shape, ScreenShape, Fit, Overlay
    <2>4. /\ overlay.popup.kind \in {"info", "password"} /\ overlay.popup.prompt \in Prompt \cup {None}
          /\ overlay.popup.typed \in Seq(Prompt)
        BY DEF Shape, ScreenShape, Fit, Overlay, Popup
    <2>5. {overlay.visible, overlay.ascii, overlay.error} \subseteq BOOLEAN
        BY DEF Shape, ScreenShape, Fit, Overlay
    <2>6. {awaiting, leaked, seen} \subseteq BOOLEAN
        BY DEF Shape, ChildShape, UserShape
    <2>7. QED
        BY <2>1, <2>3, <2>4, <2>5, <2>6
        DEF TypeOK, Shape, ChildShape, ScreenShape, Fit, VmShape, UserShape
<1>2. QED
    BY <1>1, InitShape, ShapeStays, PTL DEF Spec

\* Where the error of a run is: on its way in the socket, or noted by the overlay.  The
\* child does not leave before it is noted, and the loop ends with the child.
Reported ==
    /\ child = "reported" => overlay.error \/ Error \in Range(toTui)
    /\ child = "failed" => overlay.error /\ toTui = <<>>
    /\ tui # "up" => child \in {"gone", "failed"}
    /\ tui = "closed" /\ child = "failed" => seen

\* Nothing takes back that there was an error.
LEMMA ErrorStays ==
    ASSUME Shape, Next, overlay.error
    PROVE  overlay'.error
<1>1. overlay \in Overlay
    BY DEF Shape, ScreenShape, Fit
<1>2. CASE overlay' \in {overlay, [overlay EXCEPT !.visible = FALSE],
                         [overlay EXCEPT !.visible = FALSE, !.ascii = FALSE],
                         [overlay EXCEPT !.visible = FALSE, !.content = None]}
    BY <1>1, <1>2 DEF Overlay
<1>3. CASE overlay' = [overlay EXCEPT !.popup.typed = Append(@, user.prompt)]
    BY <1>1, <1>3 DEF Overlay
<1>4. CASE overlay' = Show(overlay, Message)
    BY <1>1, <1>4 DEF Overlay, Show
<1>5. CASE \E o, c : /\ Fit(o) /\ o.content = overlay.content /\ o.error = overlay.error
                     /\ NoQuestion(c) \/ \E p \in Prompt : c = Ask(p)
                     /\ c.value \in Value
                     /\ overlay' = Dispatch(o, c)
    BY <1>5, DispatchFits
<1>6. QED
    BY <1>2, <1>3, <1>4, <1>5, Dispatched

LEMMA ReportedStays == Shape /\ Reported /\ [Next]_vars => Reported'
<1> SUFFICES ASSUME Shape, Reported, [Next]_vars PROVE Reported'
    OBVIOUS
<1>1. CASE UNCHANGED vars
    BY <1>1 DEF Reported, vars, childVars, socket, person
<1> SUFFICES ASSUME Next PROVE Reported'
    BY <1>1
<1>2. toTui \in Seq(Said) /\ Error \in Said
    BY SaidOK DEF Shape, ChildShape
<1>3. CASE Child \/ SetupThreadLogs \/ ChildGivesUp \/ UserInterrupts \/ ContainerEnds
    <2>1. UNCHANGED <<overlay, tui, seen>>
        BY <1>3 DEF Child, ChildLogs, ChildAsks, ChildReads, ChildExits, SetupThreadLogs,
           ChildGivesUp, UserInterrupts, ContainerEnds, person
    <2>2. \/ child' \in {"up", "stuck", "gone"} /\ child \notin {"gone", "failed"}
          \/ child = "reported" /\ toTui = <<>> /\ toTui' = toTui /\ child' = "failed"
        BY <1>3 DEF Child, ChildLogs, ChildAsks, ChildReads, ChildExits, SetupThreadLogs,
           ChildGivesUp, UserInterrupts, ContainerEnds, socket
    <2>3. toTui = <<>> => Error \notin Range(toTui)
        BY DEF Range
    <2>4. QED
        BY <2>1, <2>2, <2>3 DEF Reported
<1>4. CASE ChildFails
    <2>1. UNCHANGED <<overlay, tui, seen>> /\ child = "up" /\ child' = "reported"
        BY <1>4 DEF ChildFails, person
    <2>2. toTui' = Append(toTui, Error)
        BY <1>4 DEF ChildFails, Say, HasStatusFd
    <2>3. Error \in Range(toTui')
        BY <1>2, <2>2, QueueRange
    <2>4. QED
        BY <2>1, <2>3 DEF Reported
<1>5. CASE TuiReadsStatus
    <2>1. /\ toTui # <<>> /\ toTui' = Tail(toTui) /\ overlay' = Dispatch(overlay, Head(toTui))
          /\ tui' = tui /\ child' = child /\ seen' = seen /\ tui = "up"
        BY <1>5 DEF TuiReadsStatus, childVars, person
    <2>2. Range(toTui) = {Head(toTui)} \cup Range(toTui')
        BY <1>2, <2>1, QueueRange
    <2>3. Head(toTui) = Error => overlay'.error
        <3>1. Error.kind = "error" /\ NoQuestion(Error)
            BY PlainNoQuestion DEF Error, Cmd, Plainly
        <3>2. QED
            BY <2>1, <3>1, DispatchFits DEF Shape, ScreenShape
    <2>4. QED
        BY <2>1, <2>2, <2>3, ErrorStays DEF Reported
<1>6. CASE TuiEnds
    <2>1. /\ child \in {"gone", "failed"} /\ child' = child /\ toTui' = toTui /\ seen' = seen
          /\ tui' = IF overlay.error THEN "held" ELSE "closed"
        BY <1>6 DEF TuiEnds, childVars, socket, person
    <2>2. QED
        BY <2>1, ErrorStays DEF Reported
<1>7. CASE UserDismisses
    BY <1>7 DEF UserDismisses, Reported, childVars, socket
<1>8. CASE UNCHANGED <<childVars, toTui, tui, seen>>
    BY <1>8, ErrorStays DEF Reported, childVars
<1>9. QED
    BY <1>3, <1>4, <1>5, <1>6, <1>7, <1>8
    DEF Next, Tui, User, Listener, TuiScans, TuiFires, UserNotices, UserTypes, UserEnters,
        UserEntersAgain, VmSends, ListenerApplies, AppPrints, socket, person

LEMMA ReportHolds == Spec => [](Shape /\ Reported)
<1>1. Init => Shape /\ Reported
    BY InitShape DEF Init, Reported
<1>2. (Shape /\ Reported) /\ [Next]_vars => (Shape /\ Reported)'
    BY ShapeStays, ReportedStays
<1>3. QED
    BY <1>1, <1>2, PTL DEF Spec

\* An error of the run is on the screen until the user dismisses it: the end of the child
\* does not overtake it (event_loop's hold_error_popup, the sleep at the end of the child).
THEOREM ErrorsAreSeen == Spec => []ErrorIsSeen
<1>1. Shape /\ Reported => ErrorIsSeen
    BY DEF Reported, ErrorIsSeen, Range
<1>2. QED
    BY <1>1, ReportHolds, PTL

==============================================================================
