---------------------------- MODULE StatusOverlay ----------------------------
(***************************************************************************)
(* The terminal of a run: the child of the launcher reports what it does  *)
(* and asks for passwords over the status socket (src/logging.rs), the TUI *)
(* loop (src/tui.rs) shows it in one popup and routes the keys, and the VM *)
(* sends commands for the same popup over vsock (status_listener).         *)
(*                                                                         *)
(* The child reads the answer to a prompt from the socket it writes its    *)
(* messages to; nothing but their order says which prompt it answers.      *)
(***************************************************************************)
EXTENDS Integers, Sequences, Functions

CONSTANTS
    Prompt,         \* what may be asked for: the sudo password, the passphrase
    VmScripts,      \* what the guest may send, one bunkerbox-status a command
    InOrder,        \* SUBSET BOOLEAN: is a command applied before the next is sent?
    MayFail,        \* may the run of the child fail?
    MaxExtra,       \* bound: how often Enter is pressed unasked
    None

ASSUME ConstantsOK ==
    /\ Prompt \subseteq {"sudo", "passphrase"}
    /\ InOrder \cup {MayFail} \subseteq BOOLEAN
    /\ MaxExtra \in Nat
    /\ None \notin Prompt \cup {"ASCII"}
    /\ \A s \in VmScripts : s \in Seq(Range(s)) /\ \A c \in Range(s) :
        /\ c \in [kind : {"info", "hide"}, value : {c.value}, delayed : BOOLEAN]
        /\ c.value # None => c.kind = "hide"

VARIABLES
    asks,       \* the prompts of this run
    step,       \* where the child stands in its Script
    awaiting,   \* it reads the answer to a prompt
    child,      \* "up", "reported" (an error, it sleeps), "failed", "stuck", "gone"
    setup,      \* the thread that starts containerd: "idle", "working", "done"
    toTui,      \* messages in the status socket
    toChild,    \* answers in the status socket
    answers,    \* answers[p]: what the child took for the answer to p
    overlay,    \* OverlayState
    screen,     \* what the screen of the guest contains
    tui,        \* event_loop: "up", "held" (an error is shown), "closed"
    commands,   \* the commands of the guest in this run, a member of the guests
    ordered,    \* they are applied in the order they are sent in
    sent,       \* how many of them were sent
    inflight,   \* those no handler of the status listener has applied
    user,       \* what the user is typing, and how much of it is left
    extra,      \* bound: keystrokes nobody asked for
    leaked,     \* history: a piece of a password went to the guest's terminal
    seen        \* history: the user dismissed an error

childVars == <<asks, step, awaiting, child, setup, answers>>
socket == <<toTui, toChild>>
guest == <<commands, ordered>>
vm == <<guest, screen, sent, inflight>>
person == <<user, extra, leaked, seen>>
vars == <<childVars, socket, overlay, tui, vm, person>>

\* The child's run: messages, prompts and the container.
Script ==
    <<"log">>
    \o (IF "sudo" \in asks THEN <<"sudo">> ELSE <<>>)
    \o <<"prepare">>
    \o (IF "passphrase" \in asks THEN <<"passphrase">> ELSE <<>>)
    \o <<"join", "run", "log">>

At(what) == step <= Len(Script) /\ Script[step] = what

\* Commands, of the child or the VM.  A value is the text a hide waits for.
Cmd(kind, value, delayed) == [kind |-> kind, value |-> value, delayed |-> delayed]
Info == Cmd("info", None, FALSE)
Error == Cmd("error", None, FALSE)
Ask(p) == Cmd("password", p, FALSE)
Hide == Cmd("hide", None, FALSE)

Message == [kind |-> "info", prompt |-> None, typed |-> <<>>]
Nobody == [prompt |-> None, left |-> 0]

Init ==
    /\ asks \in SUBSET Prompt
    /\ step = 1
    /\ awaiting = FALSE
    /\ child = "up"
    /\ setup = "idle"
    /\ toTui = <<>>
    /\ toChild = <<>>
    /\ answers = [p \in Prompt |-> None]
    /\ overlay = [popup |-> Message, visible |-> FALSE, ascii |-> FALSE,
                  content |-> None, pending |-> <<>>, error |-> FALSE]
    /\ screen = {}
    /\ commands \in VmScripts
    /\ ordered \in InOrder
    /\ tui = "up"
    /\ sent = 0
    /\ inflight = {}
    /\ user = Nobody
    /\ extra = 0
    /\ leaked = FALSE
    /\ seen = FALSE

-----------------------------------------------------------------------------
(* dispatch_ui_command.                                                    *)

\* Slip: the popup changes its kind and keeps its text.
ShowInPlace(o, popup) ==
    [o EXCEPT !.popup.kind = popup.kind, !.popup.prompt = popup.prompt, !.visible = TRUE]

Show(o, popup) == [o EXCEPT !.popup = popup, !.visible = TRUE]

Dialog(o, p) == Show(o, [kind |-> "password", prompt |-> p, typed |-> <<>>])

\* A hide with a value waits for that text on the screen, whatever its options;
\* anything else with a delay waits in pending, without its title.
Dispatch(o, c) ==
    CASE c.kind = "hide" /\ c.value = "ASCII" -> [o EXCEPT !.ascii = TRUE]
      [] c.kind = "hide" /\ c.value \notin {"ASCII", None} -> [o EXCEPT !.content = c.value]
      [] c.delayed /\ c.value = None -> [o EXCEPT !.pending = Append(@, c)]
      [] c.kind = "hide" /\ c.value = None /\ ~c.delayed -> [o EXCEPT !.visible = FALSE]
      [] c.kind = "info" /\ ~c.delayed -> Show(o, Message)
      [] c.kind = "error" /\ ~c.delayed -> [Show(o, Message) EXCEPT !.error = TRUE]
      [] c.kind = "password" -> Dialog(o, c.value)

-----------------------------------------------------------------------------
(* The child of the launcher.                                              *)

\* Slip: the descriptor is one of the process, not of the thread.
AnyThread(thread) == TRUE

\* STATUS_FD is thread_local, and only the main thread has set it.
HasStatusFd(thread) == thread = "main"

Say(thread, cmd) == toTui' = IF HasStatusFd(thread) THEN Append(toTui, cmd) ELSE toTui

\* A line of log(); "join" is the first after the setup thread was joined.
ChildLogs ==
    /\ child = "up" /\ ~awaiting
    /\ \/ At("log")
       \/ At("prepare")
       \/ At("join") /\ setup = "done"
    /\ Say("main", Info)
    /\ step' = step + 1
    /\ setup' = IF At("prepare") THEN "working" ELSE setup
    /\ UNCHANGED <<asks, awaiting, child, answers, toChild, overlay, tui, vm, person>>

\* The thread that starts containerd logs as well (remove_stale_container).
SetupThreadLogs ==
    /\ child = "up" /\ setup = "working"
    /\ Say("setup", Info)
    /\ setup' = "done"
    /\ UNCHANGED <<asks, step, awaiting, child, answers, toChild, overlay, tui, vm, person>>

\* prompt_password: the question ...
ChildAsks(p) ==
    /\ child = "up" /\ ~awaiting /\ At(p)
    /\ Say("main", Ask(p))
    /\ awaiting' = TRUE
    /\ UNCHANGED <<asks, step, child, setup, answers, toChild, overlay, tui, vm, person>>

\* ... and the first line there is to read.
ChildReads(p) ==
    /\ child = "up" /\ awaiting /\ At(p)
    /\ toChild # <<>>
    /\ answers' = [answers EXCEPT ![p] = Head(toChild)]
    /\ toChild' = Tail(toChild)
    /\ Say("main", Hide)
    /\ awaiting' = FALSE
    /\ step' = step + 1
    /\ UNCHANGED <<asks, child, setup, overlay, tui, vm, person>>

\* An error outside kata::run (sudo refuses, no workspace): the child returns
\* from there, tells nobody, and waits for threads that the fork left behind
\* (see LauncherRun).
ChildGivesUp ==
    /\ MayFail
    /\ child = "up" /\ ~awaiting
    /\ At("prepare")
    /\ child' = "stuck"
    /\ UNCHANGED <<asks, step, awaiting, setup, answers, socket, overlay, tui, vm, person>>

\* kata::run fails, or ctr does: the error goes to the popup.
ChildFails ==
    /\ MayFail
    /\ child = "up" /\ ~awaiting
    /\ At("passphrase") \/ At("join") \/ At("run") \/ step > Len(Script)
    /\ Say("main", Error)
    /\ child' = "reported"
    /\ UNCHANGED <<asks, step, awaiting, setup, answers, toChild, overlay, tui, vm, person>>

ContainerEnds ==
    /\ child = "up" /\ At("run")
    /\ step' = step + 1
    /\ UNCHANGED <<asks, awaiting, child, setup, answers, socket, overlay, tui, vm, person>>

\* Slip: the child does not sleep before it exits.
ChildExitsAtOnce ==
    /\ \/ child = "up" /\ step > Len(Script)
       \/ child = "reported"
    /\ child' = IF child = "up" THEN "gone" ELSE "failed"
    /\ UNCHANGED <<asks, step, awaiting, setup, answers, socket, overlay, tui, vm, person>>

\* After an error it sleeps for 500 ms, some thirty turns of the TUI loop: the
\* socket is empty by then.
ChildExits ==
    /\ \/ child = "up" /\ step > Len(Script)
       \/ child = "reported" /\ toTui = <<>>
    /\ child' = IF child = "up" THEN "gone" ELSE "failed"
    /\ UNCHANGED <<asks, step, awaiting, setup, answers, socket, overlay, tui, vm, person>>

-----------------------------------------------------------------------------
(* event_loop.                                                             *)

\* Slip: one read is one message, whatever follows it is dropped.
TuiReadsStatusOnce ==
    /\ tui = "up" /\ toTui # <<>>
    /\ overlay' = Dispatch(overlay, Head(toTui))
    /\ toTui' = <<>>
    /\ UNCHANGED <<childVars, toChild, tui, vm, person>>

TuiReadsStatus ==
    /\ tui = "up" /\ toTui # <<>>
    /\ overlay' = Dispatch(overlay, Head(toTui))
    /\ toTui' = Tail(toTui)
    /\ UNCHANGED <<childVars, toChild, tui, vm, person>>

\* Slip: armed once, looked for once.
TuiScansOnce ==
    /\ tui = "up"
    /\ overlay.ascii
    /\ overlay' = [overlay EXCEPT !.ascii = FALSE,
                        !.visible = IF "ASCII" \in screen THEN FALSE ELSE @]
    /\ UNCHANGED <<childVars, socket, tui, vm, person>>

\* The scan of the screen, every 100 ms.
TuiScans ==
    /\ tui = "up"
    /\ \/ /\ overlay.ascii /\ "ASCII" \in screen
          /\ overlay' = [overlay EXCEPT !.visible = FALSE, !.ascii = FALSE]
       \/ /\ overlay.content # None /\ overlay.content \in screen
          /\ overlay' = [overlay EXCEPT !.visible = FALSE, !.content = None]
    /\ UNCHANGED <<childVars, socket, tui, vm, person>>

\* The delay of the i-th pending action is over.
TuiFires(i) ==
    /\ tui = "up"
    /\ i \in DOMAIN overlay.pending
    /\ LET c == overlay.pending[i]
           rest == [overlay EXCEPT !.pending =
                        SubSeq(@, 1, i - 1) \o SubSeq(@, i + 1, Len(@))]
       IN  overlay' = Dispatch(rest, [c EXCEPT !.delayed = FALSE])
    /\ UNCHANGED <<childVars, socket, tui, vm, person>>

\* End of file on the PTY is looked at before the status socket is.
TuiEnds ==
    /\ tui = "up" /\ child \in {"gone", "failed"}
    /\ tui' = IF overlay.error THEN "held" ELSE "closed"
    /\ overlay' = IF overlay.error THEN Show(overlay, Message) ELSE overlay
    /\ UNCHANGED <<childVars, socket, vm, person>>

-----------------------------------------------------------------------------
(* The user.  Keys go to the dialog if the popup holds one, seen or not.   *)

IsPassword == overlay.popup.kind = "password"

UserNotices ==
    /\ tui = "up"
    /\ user = Nobody
    /\ IsPassword /\ overlay.visible
    /\ user' = [prompt |-> overlay.popup.prompt, left |-> 2]
    /\ UNCHANGED <<childVars, socket, overlay, tui, vm, extra, leaked, seen>>

\* A piece of the password (there are two).
UserTypes ==
    /\ tui = "up"
    /\ user.left > 0
    /\ user' = [user EXCEPT !.left = @ - 1]
    /\ IF IsPassword
       THEN /\ overlay' = [overlay EXCEPT !.popup.typed = Append(@, user.prompt)]
            /\ UNCHANGED leaked
       ELSE leaked' = TRUE /\ UNCHANGED overlay
    /\ UNCHANGED <<childVars, socket, tui, vm, extra, seen>>

\* handle_password_key: hide() leaves the dialog and its text in the popup.
Enter ==
    IF IsPassword
    THEN /\ toChild' = IF child = "up" THEN Append(toChild, overlay.popup.typed) ELSE toChild
         /\ overlay' = [overlay EXCEPT !.visible = FALSE]
    ELSE UNCHANGED <<toChild, overlay>>

UserEnters ==
    /\ tui = "up"
    /\ user.prompt # None /\ user.left = 0
    /\ Enter
    /\ user' = Nobody
    /\ UNCHANGED <<childVars, toTui, tui, vm, extra, leaked, seen>>

UserEntersAgain ==
    /\ extra < MaxExtra
    /\ tui = "up" /\ user = Nobody /\ IsPassword
    /\ Enter
    /\ extra' = extra + 1
    /\ UNCHANGED <<childVars, toTui, tui, vm, user, leaked, seen>>

\* Control-C for a run that does not go on: a key like the others, and the
\* terminal of the child makes an interrupt of it.
UserInterrupts ==
    /\ tui = "up" /\ child = "stuck"
    /\ ~IsPassword
    /\ child' = "gone"
    /\ UNCHANGED <<asks, step, awaiting, setup, answers, socket, overlay, tui, vm, person>>

\* hold_error_popup waits for an event.
UserDismisses ==
    /\ tui = "held"
    /\ tui' = "closed"
    /\ seen' = TRUE
    /\ UNCHANGED <<childVars, socket, overlay, vm, user, extra, leaked>>

-----------------------------------------------------------------------------
(* The guest.                                                              *)

\* The guest boots for seconds, some hundred turns of the TUI loop: what the
\* child said before is out of the socket when it comes up.
Running == child = "up" /\ At("run") /\ toTui = <<>>

\* Every command is a connection of its own.
VmSends ==
    /\ Running /\ sent < Len(commands)
    /\ ordered => inflight = {}
    /\ sent' = sent + 1
    /\ inflight' = inflight \cup {sent'}
    /\ UNCHANGED <<childVars, socket, overlay, tui, guest, screen, person>>

\* The task status_listener spawned for it.
ListenerApplies(i) ==
    /\ i \in inflight
    /\ overlay' = Dispatch(overlay, commands[i])
    /\ inflight' = inflight \ {i}
    /\ UNCHANGED <<childVars, socket, tui, guest, screen, sent, person>>

\* Whatever the app prints is printable text as well.
Texts ==
    LET hides == {c \in Range(commands) : c.kind = "hide" /\ c.value # None}
    IN  {"ASCII"} \cup {c.value : c \in hides}

AppPrints ==
    /\ Running /\ tui = "up"
    /\ \E text \in Texts :
          /\ text \notin screen
          /\ screen' = screen \cup {"ASCII", text}
    /\ UNCHANGED <<childVars, socket, overlay, tui, guest, sent, inflight, person>>

-----------------------------------------------------------------------------

\* The places a command may have, in the scripts and among the pending actions.
Slot == UNION {DOMAIN s : s \in VmScripts}

Child ==
    \/ ChildLogs \/ ChildExits
    \/ \E p \in Prompt : ChildAsks(p) \/ ChildReads(p)

Tui ==
    \/ TuiReadsStatus \/ TuiScans \/ TuiEnds
    \/ \E i \in Slot : TuiFires(i)

User == UserNotices \/ UserTypes \/ UserEnters \/ UserDismisses

Listener == \E i \in Slot : ListenerApplies(i)

Next ==
    \/ Child \/ SetupThreadLogs \/ ChildGivesUp \/ UserInterrupts \/ ChildFails \/ ContainerEnds
    \/ Tui
    \/ User \/ UserEntersAgain
    \/ VmSends \/ Listener \/ AppPrints

Spec == Init /\ [][Next]_vars

\* Every process and task gets its turn and the user answers what is asked; how
\* long the container runs is nobody's promise.
FairSpec ==
    /\ Spec
    /\ WF_vars(Child) /\ WF_vars(SetupThreadLogs)
    /\ WF_vars(TuiReadsStatus) /\ WF_vars(TuiScans) /\ WF_vars(TuiEnds)
    /\ \A i \in Slot : WF_vars(TuiFires(i)) /\ WF_vars(ListenerApplies(i))
    /\ WF_vars(User)

-----------------------------------------------------------------------------
(* Properties.                                                             *)

Value == Prompt \cup {None, "ASCII"} \cup {c.value : c \in Range(commands)}
Command == [kind : {"info", "error", "password", "hide"}, value : Value, delayed : BOOLEAN]

TypeOK ==
    /\ asks \subseteq Prompt
    /\ step \in 1..Len(Script) + 1
    /\ {awaiting, leaked, seen} \subseteq BOOLEAN
    /\ child \in {"up", "reported", "failed", "stuck", "gone"}
    /\ setup \in {"idle", "working", "done"}
    /\ toTui \in Seq(Command)
    /\ toChild \in Seq(Seq(Prompt))
    /\ \A p \in Prompt : answers[p] = None \/ answers[p] \in Seq(Prompt)
    /\ overlay.popup.kind \in {"info", "password"}
    /\ overlay.popup.prompt \in Prompt \cup {None}
    /\ overlay.popup.typed \in Seq(Prompt)
    /\ {overlay.visible, overlay.ascii, overlay.error} \subseteq BOOLEAN
    /\ overlay.content \in Value
    /\ overlay.pending \in Seq(Command)
    /\ overlay.popup.kind = "info" => overlay.popup = Message
    /\ screen \subseteq Texts
    /\ tui \in {"up", "held", "closed"}
    /\ commands \in VmScripts /\ ordered \in InOrder
    /\ sent \in 0..Len(commands)
    /\ inflight \subseteq 1..sent
    /\ user \in [prompt : Prompt \cup {None}, left : 0..2]
    /\ extra \in 0..MaxExtra

\* While the user types a password the dialog stays, whatever else reports
\* progress at the same time: no piece of it reaches the guest's terminal.
\* (Enter pressed unasked is excepted here and below, see AnswerFitsPrompt.)
SecretsStayHidden == extra = 0 => ~leaked

\* The answer to a prompt is what the user typed for that prompt, all of it.
AnswersAreTyped ==
    extra = 0 => \A p \in Prompt : answers[p] # None => answers[p] = <<p, p>>

\* src/logging.rs:59: "Sends a password prompt to the TUI, blocks reading the
\* response from the status fd": the response to that prompt, not to another.
AnswerFitsPrompt ==
    \A p \in Prompt : answers[p] # None => Range(answers[p]) \subseteq {p}

\* An error that kata::run reported is shown, and stays on the screen until the
\* user has dismissed it; the end of the child does not overtake it.
ErrorIsSeen ==
    tui = "closed" /\ child = "failed" => seen /\ \A c \in Range(toTui) : c.kind # "error"

\* The child gets an answer to every prompt.
PromptAnswered == awaiting ~> ~awaiting

\* If the guest's commands are applied in the order they were sent in, no command
\* leaves the overlay behind: it goes with the app's first output or the text a
\* hide waits for (docs/config/hooks.md:33), whenever that comes.
OverlayHides ==
    (ordered /\ sent = Len(commands) /\ Texts \subseteq screen)
        ~> (~overlay.visible \/ tui # "up")
=============================================================================
