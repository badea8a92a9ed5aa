----------------------------- MODULE LauncherRun -----------------------------
(***************************************************************************)
(* One run of a packaged runtime (run_packaged_runtime, src/main.rs): the  *)
(* launcher forks; the child resolves the workspace, hands its path over   *)
(* and runs the container; a thread of the parent waits for the path and   *)
(* starts the passthrough daemon; the parent shows the terminal, waits for *)
(* the child and takes everything down in order.                          *)
(*                                                                         *)
(* The vsock ports are the host's: another run may hold them, or there is  *)
(* no vsock at all.                                                        *)
(***************************************************************************)
EXTENDS FiniteSets

CONSTANTS
    Projects,       \* what the projects ask for, see Project
    Faults,         \* what may go wrong, see Fault
    PortsKnown,     \* the vsock ports a run may find free
    None

Fault == {"resolve", "interrupt", "container", "daemon", "loop"}
Port == {"status", "toolchain"}

\* Are commands let through to the host, and under a sandbox profile whose
\* allow list needs the filter proxy?
Project == {"isolated", "passthrough", "filtered"}

ASSUME ConstantsOK ==
    /\ Projects \subseteq Project
    /\ Faults \subseteq Fault
    /\ PortsKnown \subseteq SUBSET Port
    /\ None \notin {"ok", "failed", "signal", "reading", "loading", "binding", "up", "down"}

VARIABLES
    project,    \* what this run's project asks for
    free,       \* the ports this run finds free
    parent,     \* "forked", "listen", "spawn", "loop", "wait", "join", "daemon",
                \* "listener", "returned"
    result,     \* what run_packaged_runtime returns
    loopFailed, \* event_loop returned an error
    listener,   \* the status listener is bound
    child,      \* "start", "resolved", "running", "stuck", "gone"
    status,     \* how the child ended
    ran,        \* history: the container ran to its end
    writeEnd,   \* who holds the child's end of the handoff socket
    handoff,    \* the path is in the socket
    setup,      \* the setup thread: None, "reading", "loading", "binding", "ok", "failed"
    daemon,     \* VsockDaemon: None, "up", "down"
    proxy       \* its filter proxy, socket and directory: None, "up", "down"

parentVars == <<parent, result, loopFailed, listener>>
childVars == <<child, status, ran, writeEnd, handoff>>
setupVars == <<setup, daemon, proxy>>
given == <<project, free>>
vars == <<given, parentVars, childVars, setupVars>>

Init ==
    /\ project \in Projects
    /\ free \in PortsKnown
    /\ parent = "forked"
    /\ result = None
    /\ loopFailed = FALSE
    /\ listener = FALSE
    /\ child = "start"
    /\ status = None
    /\ ran = FALSE
    /\ writeEnd = {"parent", "child"}
    /\ handoff = FALSE
    /\ setup = None
    /\ daemon = None
    /\ proxy = None

-----------------------------------------------------------------------------
(* The child.                                                              *)

\* A `?` before kata::run (sudo, the workspace) returns into run(), which drops
\* a Runtime whose worker threads did not come along with the fork: the drop
\* waits for them.  The message is never printed, and nothing is closed.
ChildGetsStuck ==
    /\ "resolve" \in Faults
    /\ child = "start"
    /\ child' = "stuck"
    /\ UNCHANGED <<given, parentVars, status, ran, writeEnd, handoff, setupVars>>

ChildResolves ==
    /\ child = "start"
    /\ child' = "resolved"
    /\ UNCHANGED <<given, parentVars, status, ran, writeEnd, handoff, setupVars>>

\* write_workspace_handoff: the frame, then the end of its File.
ChildHandsOver ==
    /\ child = "resolved"
    /\ handoff' = TRUE
    /\ writeEnd' = writeEnd \ {"child"}
    /\ child' = "running"
    /\ UNCHANGED <<given, parentVars, status, ran, setupVars>>

\* kata::run returns, its error is shown, the child exits.
ContainerEnds ==
    /\ child = "running"
    /\ \/ status' = "ok" /\ ran' = TRUE
       \/ "container" \in Faults /\ status' = "failed" /\ UNCHANGED ran
    /\ child' = "gone"
    /\ UNCHANGED <<given, parentVars, writeEnd, handoff, setupVars>>

\* Control-C from the terminal, or the hang-up when the launcher is gone.
ChildKilled ==
    /\ child # "gone"
    /\ "interrupt" \in Faults \/ parent = "returned"
    /\ child' = "gone"
    /\ status' = "signal"
    /\ writeEnd' = writeEnd \ {"child"}
    /\ UNCHANGED <<given, parentVars, ran, handoff, setupVars>>

-----------------------------------------------------------------------------
(* The setup thread.                                                       *)

SetupReads ==
    /\ setup = "reading" /\ handoff
    /\ setup' = IF project = "isolated" THEN "ok" ELSE "loading"
    /\ UNCHANGED <<given, parentVars, childVars, daemon, proxy>>

SetupSeesEOF ==
    /\ setup = "reading" /\ ~handoff /\ writeEnd = {}
    /\ setup' = "failed"
    /\ UNCHANGED <<given, parentVars, childVars, daemon, proxy>>

\* The first half of VsockDaemon::start: profiles, bwrap, the proxy.  What fails
\* here leaves nothing behind.
DaemonLoads ==
    /\ setup = "loading"
    /\ \/ setup' = "binding" /\ proxy' = IF project = "filtered" THEN "up" ELSE None
       \/ "daemon" \in Faults /\ setup' = "failed" /\ UNCHANGED proxy
    /\ UNCHANGED <<given, parentVars, childVars, daemon>>

\* The second half: the port, or everything taken down again.
DaemonBinds ==
    /\ setup = "binding"
    /\ IF "toolchain" \in free
       THEN setup' = "ok" /\ daemon' = "up" /\ UNCHANGED proxy
       ELSE /\ setup' = "failed"
            /\ proxy' = IF proxy = "up" THEN "down" ELSE proxy
            /\ UNCHANGED daemon
    /\ UNCHANGED <<given, parentVars, childVars>>

-----------------------------------------------------------------------------
(* The parent.                                                             *)

\* Slip: the parent keeps the child's end of the handoff socket.
ParentKeepsEnd ==
    /\ parent = "forked"
    /\ parent' = "listen"
    /\ UNCHANGED <<given, result, loopFailed, listener, childVars, setupVars>>

ParentCloses ==
    /\ parent = "forked"
    /\ writeEnd' = writeEnd \ {"parent"}
    /\ parent' = "listen"
    /\ UNCHANGED <<given, result, loopFailed, listener, child, status, ran, handoff, setupVars>>

\* start_status_listener; its error leaves the function, and the child alone.
StartListener ==
    /\ parent = "listen"
    /\ IF "status" \in free
       THEN parent' = "spawn" /\ listener' = TRUE /\ UNCHANGED result
       ELSE parent' = "returned" /\ result' = "failed" /\ UNCHANGED listener
    /\ UNCHANGED <<given, loopFailed, childVars, setupVars>>

SpawnSetup ==
    /\ parent = "spawn"
    /\ parent' = "loop"
    /\ setup' = "reading"
    /\ UNCHANGED <<given, result, loopFailed, listener, childVars, daemon, proxy>>

\* event_loop: until nobody has the terminal open, or an error of its own.
EventLoop ==
    /\ parent = "loop"
    /\ \/ child = "gone" /\ UNCHANGED loopFailed
       \/ "loop" \in Faults /\ loopFailed' = TRUE
    /\ parent' = "wait"
    /\ UNCHANGED <<given, result, listener, childVars, setupVars>>

\* Slip: a failed loop ends the run without waiting for the child.
WaitOnlyIfShown ==
    /\ parent = "wait" /\ (child = "gone" \/ loopFailed)
    /\ parent' = "join"
    /\ UNCHANGED <<given, result, loopFailed, listener, childVars, setupVars>>

WaitChild ==
    /\ parent = "wait" /\ child = "gone"
    /\ parent' = "join"
    /\ UNCHANGED <<given, result, loopFailed, listener, childVars, setupVars>>

\* Slip: the daemon is taken from its slot before the thread has filled it.
JoinNobody ==
    /\ parent = "join"
    /\ parent' = "daemon"
    /\ UNCHANGED <<given, result, loopFailed, listener, childVars, setupVars>>

JoinSetup ==
    /\ parent = "join" /\ setup \in {"ok", "failed"}
    /\ parent' = "daemon"
    /\ UNCHANGED <<given, result, loopFailed, listener, childVars, setupVars>>

\* VsockDaemon::shutdown, its proxy included.
StopDaemon ==
    /\ parent = "daemon"
    /\ daemon' = IF daemon = "up" THEN "down" ELSE daemon
    /\ proxy' = IF daemon = "up" /\ proxy = "up" THEN "down" ELSE proxy
    /\ parent' = "listener"
    /\ UNCHANGED <<given, result, loopFailed, listener, childVars, setup>>

\* Slip: what became of the setup thread is not looked at.
StopListenerForgets ==
    /\ parent = "listener"
    /\ listener' = FALSE
    /\ result' = IF ~loopFailed /\ status = "ok" THEN "ok" ELSE "failed"
    /\ parent' = "returned"
    /\ UNCHANGED <<given, loopFailed, childVars, setupVars>>

StopListener ==
    /\ parent = "listener"
    /\ listener' = FALSE
    /\ result' = IF ~loopFailed /\ setup = "ok" /\ status = "ok" THEN "ok" ELSE "failed"
    /\ parent' = "returned"
    /\ UNCHANGED <<given, loopFailed, childVars, setupVars>>

-----------------------------------------------------------------------------

Child == ChildResolves \/ ChildHandsOver \/ ContainerEnds

Setup == SetupReads \/ SetupSeesEOF \/ DaemonLoads \/ DaemonBinds

Parent ==
    \/ ParentCloses \/ StartListener \/ SpawnSetup \/ EventLoop
    \/ WaitChild \/ JoinSetup \/ StopDaemon \/ StopListener

Next == Child \/ ChildGetsStuck \/ ChildKilled \/ Setup \/ Parent

Spec == Init /\ [][Next]_vars

\* The user leaves the app at some time, and a launcher that is gone hangs up.
FairSpec ==
    Spec /\ WF_vars(Child) /\ WF_vars(Setup) /\ WF_vars(Parent)
         /\ WF_vars(parent = "returned" /\ ChildKilled)

-----------------------------------------------------------------------------
(* Properties.                                                             *)

TypeOK ==
    /\ project \in Project /\ free \subseteq Port
    /\ parent \in {"forked", "listen", "spawn", "loop", "wait", "join", "daemon",
                   "listener", "returned"}
    /\ result \in {None, "ok", "failed"}
    /\ {loopFailed, listener, ran, handoff} \subseteq BOOLEAN
    /\ child \in {"start", "resolved", "running", "stuck", "gone"}
    /\ status \in {None, "ok", "failed", "signal"}
    /\ writeEnd \subseteq {"parent", "child"}
    /\ setup \in {None, "reading", "loading", "binding", "ok", "failed"}
    /\ daemon \in {None, "up", "down"}
    /\ proxy \in {None, "up", "down"}
    /\ (daemon # None => project # "isolated") /\ (proxy # None => project = "filtered")

\* Whatever failed and whenever it did, a run that has returned has taken down
\* all it started on the host: daemon, proxy and its socket, status listener.
NothingLeftRunning ==
    parent = "returned" => daemon # "up" /\ proxy # "up" /\ ~listener

\* A run that reports success had its container run to the end, and its daemon
\* up before it looked away.
ResultIsTruthful ==
    result = "ok" => ran /\ (project # "isolated" => daemon = "down")

\* The daemon does not go before the container it serves.
DaemonOutlivesContainer ==
    [][daemon = "up" /\ daemon' # "up" => child = "gone"]_vars

\* Every run comes to an end, with its child and the thread that waits for it,
\* unless the child got stuck, or the event loop failed and left the app without
\* the keys that would end it.
RunEnds == <>((parent = "returned" /\ child = "gone") \/ child = "stuck" \/ loopFailed)
=============================================================================
