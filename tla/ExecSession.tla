----------------------------- MODULE ExecSession -----------------------------
(***************************************************************************)
(* One passthrough call: bunkerbox-vscomm in the guest, the connection    *)
(* handler of the host daemon (src/daemon.rs), the tasks it spawns (two   *)
(* output pumps and, under a sandbox profile, the reader of bwrap's       *)
(* status pipe) and the host process they watch.                          *)
(*                                                                         *)
(* The tasks meet in one unbounded FIFO channel, `events`.  The handler is *)
(* the only reader of it and the only writer of the connection, `wire`.    *)
(***************************************************************************)
EXTENDS Integers, Sequences

CONSTANTS
    Modes,          \* SUBSET {"direct", "bwrap", "relay"}: the sessions considered
    Codes,          \* exit codes of host processes
    LauncherWarns,  \* may bwrap print something and start the command all the same?
    MaxChunks,      \* bound: pieces of output, on both streams together
    Signalled,      \* exit status of a process ended by a signal
    NoStatus,       \* the host process has not ended
    NoResult        \* the client has no exit code

ASSUME ConstantsOK ==
    /\ Modes # {} /\ Modes \subseteq {"direct", "bwrap", "relay"}
    /\ Codes \subseteq 0..255 /\ 0 \in Codes /\ 1 \in Codes
    /\ LauncherWarns \in BOOLEAN
    /\ MaxChunks \in Nat
    /\ Signalled \notin Int /\ NoStatus \notin Int /\ NoResult \notin Int
    /\ Signalled # NoStatus

VARIABLES
    mode,       \* "direct": no profile; "bwrap": profile; "relay": profile and allow list
    request,    \* what the client put on the connection
    client,     \* bunkerbox-vscomm: "sending", "waiting", "exited", "killed"
    result,     \* the exit status its caller sees
    received,   \* received[s]: what it printed on its own stream s
    wire,       \* frames sent by the daemon and not yet read by the client
    handler,    \* where handle_connection / execute_request stands
    launched,   \* launcher_started
    failed,     \* launcher_failed
    closed,     \* closed_streams
    buffered,   \* buffered_output
    events,     \* the mpsc channel of ChildEvent
    pump,       \* pump[s]: "idle", "reading" or "done"
    monitor,    \* monitor_bwrap_status: "absent", "watching", "started", "done"
    child,      \* the spawned process: "none", "setup", "aborting", "relay", "running", "exited"
    status,     \* its exit status
    holders,    \* who holds the write ends of stdout and stderr
    pipe,       \* pipe[s]: output between the process and its pump
    lines,      \* lines in the status pipe
    written     \* history: written[s] is everything ever put on pipe s

Stream == {"stdout", "stderr"}

guest == <<client, result, received>>
daemon == <<handler, launched, failed, closed, buffered>>
tasks == <<pump, monitor>>
host == <<child, status, holders, lines, written>>
vars == <<mode, request, guest, wire, daemon, events, tasks, host, pipe>>

Profiled == mode # "direct"
Gone == client \in {"exited", "killed"}

Chunk == [from : {"launcher", "relay", "command"}, n : 1..MaxChunks]
OutputFrame == [kind : {"output"}, stream : Stream, data : Chunk]
ExitFrame == [kind : {"exit"}, code : Int]
Exit(code) == [kind |-> "exit", code |-> code]
Output(s, c) == [kind |-> "output", stream |-> s, data |-> c]
Event(k) == [kind |-> k]

\* ChildEvent
ChildEvent == OutputFrame \cup [kind : {"closed", "started", "failed"}]

Init ==
    /\ mode \in Modes
    /\ request = "none"
    /\ client = "sending"
    /\ result = NoResult
    /\ received = [s \in Stream |-> <<>>]
    /\ wire = <<>>
    /\ handler = "reading"
    /\ launched = FALSE
    /\ failed = FALSE
    /\ closed = 0
    /\ buffered = <<>>
    /\ events = <<>>
    /\ pump = [s \in Stream |-> "idle"]
    /\ monitor = "absent"
    /\ child = "none"
    /\ status = NoStatus
    /\ holders = {}
    /\ pipe = [s \in Stream |-> <<>>]
    /\ lines = <<>>
    /\ written = [s \in Stream |-> <<>>]

-----------------------------------------------------------------------------
(* The client: bunkerbox-vscomm.                                           *)

\* std::process::exit hands the caller the low eight bits.
Leave(code) ==
    /\ client' = "exited"
    /\ result' = code % 256
    /\ wire' = <<>>

\* Any program of the guest may speak the protocol, hence the requests the
\* daemon has to turn down.
ClientSend ==
    /\ client = "sending"
    /\ client' = "waiting"
    /\ request' \in {"allowed", "denied", "invalid", "malformed"}
    /\ UNCHANGED <<mode, result, received, wire, daemon, events, tasks, host, pipe>>

\* vsock_connect or the write of the request fails.
ClientConnectFails ==
    /\ client = "sending"
    /\ Leave(1)
    /\ UNCHANGED <<mode, request, received, daemon, events, tasks, host, pipe>>

ClientPrints ==
    /\ client = "waiting"
    /\ wire # <<>> /\ Head(wire).kind = "output"
    /\ LET f == Head(wire) IN
        received' = [received EXCEPT ![f.stream] = Append(@, f.data)]
    /\ wire' = Tail(wire)
    /\ UNCHANGED <<mode, request, client, result, daemon, events, tasks, host, pipe>>

\* The client's own stdout or stderr is closed.
ClientPrintFails ==
    /\ client = "waiting"
    /\ wire # <<>> /\ Head(wire).kind = "output"
    /\ Leave(1)
    /\ UNCHANGED <<mode, request, received, daemon, events, tasks, host, pipe>>

ClientExits ==
    /\ client = "waiting"
    /\ wire # <<>> /\ Head(wire).kind = "exit"
    /\ Leave(Head(wire).code)
    /\ UNCHANGED <<mode, request, received, daemon, events, tasks, host, pipe>>

\* The daemon dropped the connection without an Exit frame.
ClientSeesEOF ==
    /\ client = "waiting"
    /\ wire = <<>> /\ handler = "closed"
    /\ Leave(1)
    /\ UNCHANGED <<mode, request, received, daemon, events, tasks, host, pipe>>

\* The agent interrupts the command, or the guest goes down.
ClientKilled ==
    /\ client \in {"sending", "waiting"}
    /\ client' = "killed"
    /\ wire' = <<>>
    /\ UNCHANGED <<mode, request, result, received, daemon, events, tasks, host, pipe>>

-----------------------------------------------------------------------------
(* The connection handler.                                                 *)

\* A write to a connection whose peer is gone either fails or vanishes in
\* the socket buffer.
Send(frame) ==
    /\ wire' = IF Gone THEN wire ELSE Append(wire, frame)

RequestUnreadable ==
    /\ handler = "reading"
    /\ request = "malformed" \/ Gone
    /\ handler' = "closed"
    /\ UNCHANGED <<mode, request, guest, wire, launched, failed, closed, buffered,
                   events, tasks, host, pipe>>

\* read_exec_request, validate_exec_request, is_allowed.
ReadRequest ==
    /\ handler = "reading"
    /\ request \in {"allowed", "denied", "invalid"}
    /\ handler' = IF request = "allowed" THEN "spawning" ELSE "refusing"
    /\ UNCHANGED <<mode, request, guest, wire, launched, failed, closed, buffered,
                   events, tasks, host, pipe>>

\* The Exit(1) of a refused request; a failed write only drops the connection.
Refuse ==
    /\ handler = "refusing"
    /\ Send(Exit(1))
    /\ handler' = "closed"
    /\ UNCHANGED <<mode, request, guest, launched, failed, closed, buffered,
                   events, tasks, host, pipe>>

\* The status pipe, build_command or spawn returns an error.
SpawnFails ==
    /\ handler = "spawning"
    /\ handler' = "failing"
    /\ UNCHANGED <<mode, request, guest, wire, launched, failed, closed, buffered,
                   events, tasks, host, pipe>>

Spawn ==
    /\ handler = "spawning"
    /\ handler' = "relaying"
    /\ launched' = ~Profiled
    /\ pump' = [s \in Stream |-> "reading"]
    /\ monitor' = IF Profiled THEN "watching" ELSE "absent"
    /\ child' = IF Profiled THEN "setup" ELSE "running"
    /\ holders' = {"child"}
    /\ UNCHANGED <<mode, request, guest, wire, failed, closed, buffered, events,
                   status, lines, written, pipe>>

\* Slips a rewrite of the loop's condition could make.
LoopDoneAtFirstEOF ==
    /\ closed >= 1
    /\ Profiled => launched \/ failed

LoopDoneWithoutVerdict == closed >= 2

\* The condition that ends execute_request's loop.
LoopDone ==
    /\ closed >= 2
    /\ Profiled => launched \/ failed

\* event_rx lives as long as execute_request does.
Listening == handler \in {"relaying", "draining", "reaping", "joining"}

\* kill_on_drop: SIGKILL to the process the daemon spawned.  bwrap is not given
\* --die-with-parent, so what it started may live on.
KillChild ==
    IF child \in {"none", "exited"}
    THEN UNCHANGED host
    ELSE /\ child' = "exited"
         /\ status' = Signalled
         /\ \/ holders' = holders \ {"child"}
            \/ /\ Profiled /\ child \in {"relay", "running"}
               /\ holders' = (holders \ {"child"}) \cup {"background"}
         /\ UNCHANGED <<lines, written>>

\* A write fails: `?` leaves execute_request, which drops the channel, the
\* buffered output and the child.
WriteFails ==
    /\ Gone
    /\ \/ handler = "relaying" /\ ~LoopDone /\ launched /\ ~failed
          /\ events # <<>> /\ Head(events).kind = "output"
       \/ handler = "draining"
       \/ handler = "reaping" /\ child = "exited"
    /\ handler' = "failing"
    /\ events' = <<>>
    /\ buffered' = <<>>
    /\ KillChild
    /\ UNCHANGED <<mode, request, guest, wire, launched, failed, closed, tasks, pipe>>

\* Slip: output is forwarded as it arrives, whatever the launch is.
HandleOutputAtOnce ==
    /\ handler = "relaying" /\ ~LoopDone
    /\ events # <<>> /\ Head(events).kind = "output"
    /\ events' = Tail(events)
    /\ Send(Head(events))
    /\ UNCHANGED <<mode, request, guest, handler, launched, failed, closed, buffered,
                   tasks, host, pipe>>

\* One turn of the loop, but for the write that fails.
HandleOutput ==
    /\ handler = "relaying" /\ ~LoopDone
    /\ events # <<>> /\ Head(events).kind = "output"
    /\ events' = Tail(events)
    /\ IF failed THEN UNCHANGED <<wire, buffered>>    \* diagnostic log
       ELSE IF launched THEN Send(Head(events)) /\ UNCHANGED buffered
       ELSE buffered' = Append(buffered, Head(events)) /\ UNCHANGED wire
    /\ UNCHANGED <<mode, request, guest, handler, launched, failed, closed, tasks, host, pipe>>

HandleClosed ==
    /\ handler = "relaying" /\ ~LoopDone
    /\ events # <<>> /\ Head(events).kind = "closed"
    /\ events' = Tail(events)
    /\ closed' = closed + 1
    /\ UNCHANGED <<mode, request, guest, wire, handler, launched, failed, buffered,
                   tasks, host, pipe>>

\* Slip: the output held back is not flushed when the command starts.
HandleStartedNoFlush ==
    /\ handler = "relaying" /\ ~LoopDone
    /\ events # <<>> /\ Head(events).kind = "started"
    /\ events' = Tail(events)
    /\ launched' = TRUE
    /\ UNCHANGED <<mode, request, guest, wire, handler, failed, closed, buffered,
                   tasks, host, pipe>>

HandleStarted ==
    /\ handler = "relaying" /\ ~LoopDone
    /\ events # <<>> /\ Head(events).kind = "started"
    /\ events' = Tail(events)
    /\ launched' = TRUE
    /\ handler' = IF buffered = <<>> THEN "relaying" ELSE "draining"
    /\ UNCHANGED <<mode, request, guest, wire, failed, closed, buffered, tasks, host, pipe>>

\* Slip: drained from the wrong end.
DrainBackwards ==
    /\ handler = "draining"
    /\ Send(buffered[Len(buffered)])
    /\ buffered' = SubSeq(buffered, 1, Len(buffered) - 1)
    /\ handler' = IF Tail(buffered) = <<>> THEN "relaying" ELSE "draining"
    /\ UNCHANGED <<mode, request, guest, launched, failed, closed, events, tasks, host, pipe>>

\* One frame of buffered_output.drain(..).
DrainBuffered ==
    /\ handler = "draining"
    /\ Send(Head(buffered))
    /\ buffered' = Tail(buffered)
    /\ handler' = IF Tail(buffered) = <<>> THEN "relaying" ELSE "draining"
    /\ UNCHANGED <<mode, request, guest, launched, failed, closed, events, tasks, host, pipe>>

\* The output of a launch that failed goes to the diagnostic log.
HandleFailed ==
    /\ handler = "relaying" /\ ~LoopDone
    /\ events # <<>> /\ Head(events).kind = "failed"
    /\ events' = Tail(events)
    /\ failed' = TRUE
    /\ buffered' = <<>>
    /\ UNCHANGED <<mode, request, guest, wire, handler, launched, closed, tasks, host, pipe>>

LeaveLoop ==
    /\ handler = "relaying" /\ LoopDone
    /\ handler' = "reaping"
    /\ UNCHANGED <<mode, request, guest, wire, launched, failed, closed, buffered,
                   events, tasks, host, pipe>>

\* status.code().unwrap_or(-1)
ExitCode(st) == IF st = Signalled THEN -1 ELSE st

Reap ==
    /\ handler = "reaping"
    /\ child = "exited"
    /\ Send(Exit(ExitCode(status)))
    /\ handler' = "joining"
    /\ UNCHANGED <<mode, request, guest, launched, failed, closed, buffered, events,
                   tasks, host, pipe>>

\* Slip: the join expects a status reader in every session.
JoinAllTasks ==
    /\ handler = "joining"
    /\ \A s \in Stream : pump[s] = "done"
    /\ monitor = "done"
    /\ handler' = "closed"
    /\ UNCHANGED <<mode, request, guest, wire, launched, failed, closed, buffered,
                   events, tasks, host, pipe>>

JoinTasks ==
    /\ handler = "joining"
    /\ \A s \in Stream : pump[s] = "done"
    /\ monitor \in {"absent", "done"}
    /\ handler' = "closed"
    /\ UNCHANGED <<mode, request, guest, wire, launched, failed, closed, buffered,
                   events, tasks, host, pipe>>

\* execute_request returned an error: a last, best-effort Exit(1).
ReportFailure ==
    /\ handler = "failing"
    /\ Send(Exit(1))
    /\ handler' = "closed"
    /\ UNCHANGED <<mode, request, guest, launched, failed, closed, buffered, events,
                   tasks, host, pipe>>

-----------------------------------------------------------------------------
(* The tasks execute_request spawns.                                       *)

Tell(event) == events' = IF Listening THEN Append(events, event) ELSE events

\* pump_to_channel; a pump whose channel is gone returns without a word.
PumpReads(s) ==
    /\ pump[s] = "reading"
    /\ pipe[s] # <<>>
    /\ pipe' = [pipe EXCEPT ![s] = Tail(@)]
    /\ Tell(Output(s, Head(pipe[s])))
    /\ pump' = IF Listening THEN pump ELSE [pump EXCEPT ![s] = "done"]
    /\ UNCHANGED <<mode, request, guest, wire, daemon, monitor, host>>

PumpSeesEOF(s) ==
    /\ pump[s] = "reading"
    /\ pipe[s] = <<>> /\ holders = {}
    /\ Tell(Event("closed"))
    /\ pump' = [pump EXCEPT ![s] = "done"]
    /\ UNCHANGED <<mode, request, guest, wire, daemon, monitor, host, pipe>>

\* monitor_bwrap_status: one line of the status pipe.  A "junk" line is one
\* that cannot be read or is no JSON.
MonitorReads ==
    /\ monitor \in {"watching", "started"}
    /\ lines # <<>>
    /\ lines' = Tail(lines)
    /\ LET line == Head(lines) IN
        CASE monitor = "watching" /\ line = "child-pid" ->
                monitor' = "started" /\ Tell(Event("started"))
          [] monitor = "watching" /\ line # "child-pid" ->
                monitor' = "done" /\ Tell(Event("failed"))
          [] monitor = "started" ->
                /\ monitor' = IF line = "junk" THEN "done" ELSE "started"
                /\ UNCHANGED events
    /\ UNCHANGED <<mode, request, guest, wire, daemon, pump, child, status, holders,
                   written, pipe>>

\* Slip: a launcher that dies without a word on the status pipe gets no verdict.
MonitorEndsQuietly ==
    /\ monitor \in {"watching", "started"}
    /\ lines = <<>> /\ child = "exited"
    /\ monitor' = "done"
    /\ UNCHANGED <<mode, request, guest, wire, daemon, events, pump, host, pipe>>

MonitorSeesEOF ==
    /\ monitor \in {"watching", "started"}
    /\ lines = <<>> /\ child = "exited"
    /\ monitor' = "done"
    /\ IF monitor = "watching" THEN Tell(Event("failed")) ELSE UNCHANGED events
    /\ UNCHANGED <<mode, request, guest, wire, daemon, pump, host, pipe>>

-----------------------------------------------------------------------------
(* The host process: the command itself, or bwrap and what it starts.      *)

Put(s, who) ==
    /\ pump[s] = "reading"
    /\ Len(written["stdout"]) + Len(written["stderr"]) < MaxChunks
    /\ LET c == [from |-> who, n |-> Len(written[s]) + 1] IN
        /\ written' = [written EXCEPT ![s] = Append(@, c)]
        /\ pipe' = [pipe EXCEPT ![s] = Append(@, c)]

\* What bwrap has to say: the reason it gives up or, if LauncherWarns, anything.
LauncherWrites(s) ==
    /\ \/ child = "aborting"
       \/ child = "setup" /\ LauncherWarns
    /\ Put(s, "launcher")
    /\ UNCHANGED <<mode, request, guest, wire, daemon, events, tasks, child, status,
                   holders, lines>>

LauncherGivesUp ==
    /\ child = "setup"
    /\ child' = "aborting"
    /\ UNCHANGED <<mode, request, guest, wire, daemon, events, tasks, status, holders,
                   lines, written, pipe>>

\* bwrap ends without having started the command: with an exit-code line, a
\* line cut short, or none.
LauncherExits ==
    /\ child = "aborting"
    /\ child' = "exited"
    /\ status' \in Codes \ {0}
    /\ holders' = holders \ {"child"}
    /\ lines' \in {lines, Append(lines, "exit-code"), Append(lines, "junk")}
    /\ UNCHANGED <<mode, request, guest, wire, daemon, events, tasks, written, pipe>>

\* bwrap reports child-pid and the command, or the relay in front of it, runs.
LauncherStarts ==
    /\ child = "setup"
    /\ child' = IF mode = "relay" THEN "relay" ELSE "running"
    /\ lines' = Append(lines, "child-pid")
    /\ UNCHANGED <<mode, request, guest, wire, daemon, events, tasks, status, holders,
                   written, pipe>>

\* bunkerbox-netrelay spawned the target command.
RelayStarts ==
    /\ child = "relay"
    /\ child' = "running"
    /\ UNCHANGED <<mode, request, guest, wire, daemon, events, tasks, status, holders,
                   lines, written, pipe>>

\* Its port is taken or the target cannot be spawned: eprintln, exit(1).
RelayFails ==
    /\ child = "relay"
    /\ Put("stderr", "relay")
    /\ child' = "exited"
    /\ status' = 1
    /\ holders' = holders \ {"child"}
    /\ lines' = Append(lines, "exit-code")
    /\ UNCHANGED <<mode, request, guest, wire, daemon, events, tasks>>

\* The command, or a process it left in the background, writes.
CommandWrites(s) ==
    /\ \/ child = "running" /\ "child" \in holders
       \/ "background" \in holders
    /\ Put(s, "command")
    /\ UNCHANGED <<mode, request, guest, wire, daemon, events, tasks, child, status,
                   holders, lines>>

CommandForks ==
    /\ child = "running" /\ "child" \in holders
    /\ holders' = holders \cup {"background"}
    /\ UNCHANGED <<mode, request, guest, wire, daemon, events, tasks, child, status,
                   lines, written, pipe>>

\* A command that runs on with its output closed; under bwrap the launcher
\* still has the pipes.
CommandCloses ==
    /\ child = "running" /\ ~Profiled
    /\ "child" \in holders
    /\ holders' = holders \ {"child"}
    /\ UNCHANGED <<mode, request, guest, wire, daemon, events, tasks, child, status,
                   lines, written, pipe>>

CommandExits ==
    /\ child = "running"
    /\ child' = "exited"
    /\ status' \in Codes \cup {Signalled}
    /\ holders' = holders \ {"child"}
    /\ lines' = IF Profiled THEN Append(lines, "exit-code") ELSE lines
    /\ UNCHANGED <<mode, request, guest, wire, daemon, events, tasks, written, pipe>>

BackgroundExits ==
    /\ "background" \in holders
    /\ holders' = holders \ {"background"}
    /\ UNCHANGED <<mode, request, guest, wire, daemon, events, tasks, child, status,
                   lines, written, pipe>>

-----------------------------------------------------------------------------

Client ==
    \/ ClientPrints \/ ClientPrintFails \/ ClientExits \/ ClientSeesEOF

Handler ==
    \/ RequestUnreadable \/ ReadRequest \/ Refuse \/ SpawnFails \/ Spawn
    \/ HandleOutput \/ HandleClosed \/ HandleStarted \/ HandleFailed
    \/ DrainBuffered \/ WriteFails \/ LeaveLoop \/ Reap \/ JoinTasks
    \/ ReportFailure

Pump(s) == PumpReads(s) \/ PumpSeesEOF(s)

Monitor == MonitorReads \/ MonitorSeesEOF

Process ==
    \/ LauncherGivesUp \/ LauncherExits \/ LauncherStarts
    \/ RelayStarts \/ RelayFails \/ CommandForks \/ CommandCloses \/ CommandExits
    \/ BackgroundExits
    \/ \E s \in Stream : LauncherWrites(s) \/ CommandWrites(s)

Next ==
    \/ ClientSend \/ ClientConnectFails \/ ClientKilled \/ Client
    \/ Handler
    \/ \E s \in Stream : Pump(s)
    \/ Monitor
    \/ Process

Spec == Init /\ [][Next]_vars

\* The tasks, threads and processes of the daemon keep being scheduled, and a
\* host command ends sooner or later; that it forks, warns or is refused is
\* never forced.
Fairness ==
    /\ WF_vars(Client)
    /\ WF_vars(Handler)
    /\ \A s \in Stream : WF_vars(Pump(s))
    /\ WF_vars(Monitor)
    /\ WF_vars(LauncherGivesUp \/ LauncherExits \/ LauncherStarts)
    /\ WF_vars(RelayStarts \/ RelayFails)
    /\ WF_vars(CommandExits)

\* ... and so does everything it leaves in the background.
BackgroundEnds == WF_vars(BackgroundExits)

FairSpec == Spec /\ Fairness /\ BackgroundEnds

-----------------------------------------------------------------------------
(* Properties.                                                             *)

TypeOK ==
    /\ mode \in Modes
    /\ request \in {"none", "allowed", "denied", "invalid", "malformed"}
    /\ client \in {"sending", "waiting", "exited", "killed"}
    /\ result \in 0..255 \cup {NoResult}
    /\ received \in [Stream -> Seq(Chunk)]
    /\ wire \in Seq(OutputFrame \cup ExitFrame)
    /\ handler \in {"reading", "refusing", "spawning", "relaying", "draining",
                    "reaping", "joining", "failing", "closed"}
    /\ launched \in BOOLEAN /\ failed \in BOOLEAN
    /\ closed \in Nat
    /\ buffered \in Seq(OutputFrame)
    /\ events \in Seq(ChildEvent)
    /\ pump \in [Stream -> {"idle", "reading", "done"}]
    /\ monitor \in {"absent", "watching", "started", "done"}
    /\ child \in {"none", "setup", "aborting", "relay", "running", "exited"}
    /\ status \in Codes \cup {Signalled, NoStatus}
    /\ holders \subseteq {"child", "background"}
    /\ pipe \in [Stream -> Seq(Chunk)]
    /\ lines \in Seq({"child-pid", "exit-code", "junk"})
    /\ written \in [Stream -> Seq(Chunk)]

\* Is e output of stream s?
Carries(e, s) == e.kind = "output" /\ e.stream = s

\* The pieces of stream s in a queue of frames or events, in order: DataUpTo says
\* which of them are among the first i entries, for each i.
DataUpTo(queue, s) ==
    LET data[i \in 0..Len(queue)] ==
            IF i = 0 THEN <<>>
            ELSE IF Carries(queue[i], s) THEN Append(data[i - 1], queue[i].data)
            ELSE data[i - 1]
    IN  data

Data(queue, s) == DataUpTo(queue, s)[Len(queue)]

\* Between the process and the terminal of the caller nothing is lost,
\* duplicated or reordered, wherever the output waits: the pipe, the event
\* channel, the buffer of a launch not yet decided or the connection.
OutputConserved ==
    ~Gone /\ ~failed =>
        \A s \in Stream :
            written[s] = received[s] \o Data(wire, s) \o Data(buffered, s)
                            \o Data(events, s) \o pipe[s]

\* A launch bwrap gave up shows the caller nothing, and it is never also taken
\* for a started one: the two verdicts of the status pipe exclude each other.
RefusedLaunchIsSilent ==
    failed => /\ ~launched
              /\ \A i \in DOMAIN wire : wire[i].kind # "output"
              /\ \A s \in Stream : received[s] = <<>>

\* The exit frame is sent once, after all output, with no writer left: what a
\* background process still prints keeps the call open.
ExitComesLast ==
    /\ \A i \in DOMAIN wire : wire[i].kind = "exit" => i = Len(wire)
    /\ handler \in {"reaping", "joining"} =>
            /\ holders = {} /\ buffered = <<>> /\ events = <<>>
            /\ \A s \in Stream : pipe[s] = <<>>

\* The caller sees success only for a command that ran, ended with 0 and whose
\* output it has in full; any other code but 1 is the process's own as well.
TruthfulExit ==
    client = "exited" /\ result # 1 =>
        /\ child = "exited"
        /\ result = IF status = Signalled THEN 255 ELSE status
        /\ launched => received = written
        /\ result = 0 => launched

\* The call meets the contract of CommandRelay.
Contract == INSTANCE CommandRelay WITH
    Code <- 0..255,
    open <- child = "none" \/ holders # {},
    exit <- IF status = NoStatus THEN NoResult ELSE ExitCode(status) % 256,
    launch <- IF failed THEN "refused" ELSE IF launched THEN "started" ELSE "pending"

MeetsContract == Contract!Spec

\* Every call is answered once the command and what it left behind have ended,
\* however launch, output and verdict interleave.
CallAnswered == (client = "waiting") ~> (client # "waiting")

\* The handler of a call ends too, even if the caller vanished and nobody told
\* the daemon.
HandlerEnds == (handler # "reading") ~> (handler = "closed")
=============================================================================
