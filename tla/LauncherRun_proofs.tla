-------------------------- MODULE LauncherRun_proofs --------------------------
(***************************************************************************)
(* Proofs about LauncherRun: for every set of projects, faults and free    *)
(* ports, a run that has returned has left nothing running, its result is  *)
(* true, and its daemon has not gone before the container.                 *)
(***************************************************************************)
EXTENDS LauncherRun, TLAPS

(***************************************************************************)
(* The inductive invariant, one part for each of the processes and one for *)
(* what the parent knows of the others.                                    *)
(***************************************************************************)

Starting == {"forked", "listen", "spawn"}
TakingDown == {"join", "daemon", "listener"}

\* What the setup thread leaves behind: a daemon only if it went well, a proxy that
\* runs only while it may still bind or beside a daemon, and the other way round a
\* daemon for each project that asks for one.
SetupInv ==
    /\ setup # "ok" => daemon = None
    /\ setup \notin {"binding", "ok"} => proxy # "up"
    /\ setup = "ok" /\ proxy = "up" => daemon = "up"
    /\ setup = "ok" /\ project # "isolated" => daemon \in {"up", "down"}
    /\ setup \in {"loading", "binding"} => project # "isolated"

\* The child has a status only when it is gone, and a good one only if it ran.
ChildInv ==
    /\ status # None => child = "gone"
    /\ status = "ok" => ran

\* What the parent's place says of the thread, the child, the daemon and the listener.
\* A run that returned before the thread was spawned has setup = None.
ParentInv ==
    /\ parent \in Starting => setup = None
    /\ parent \in {"daemon", "listener"} => setup \in {"ok", "failed"}
    /\ parent = "returned" => setup \in {None, "ok", "failed"}
    /\ parent \in {"listener", "returned"} => daemon # "up" /\ proxy # "up"
    /\ parent \in {"forked", "listen", "returned"} => ~listener
    /\ parent \in TakingDown => child = "gone"

ResultInv ==
    /\ parent # "returned" => result = None
    /\ result = "ok" => ran /\ setup = "ok"

IInv == TypeOK /\ SetupInv /\ ChildInv /\ ParentInv /\ ResultInv

LEMMA Initially == Init => IInv
BY ConstantsOK DEF Init, IInv, TypeOK, SetupInv, ChildInv, ParentInv, ResultInv, Starting, TakingDown

\* No step of the child, killed or stuck, takes the invariant away.
LEMMA ChildKeeps ==
    ASSUME IInv, Child \/ ChildGetsStuck \/ ChildKilled
    PROVE  IInv'
<1> USE ConstantsOK DEF IInv, TypeOK, SetupInv, ChildInv, ParentInv, ResultInv, Starting, TakingDown,
        given, parentVars, setupVars
<1>1. CASE ChildResolves
    BY <1>1 DEF ChildResolves
<1>2. CASE ChildHandsOver
    BY <1>2 DEF ChildHandsOver
<1>3. CASE ContainerEnds
    <2>1. TypeOK'
        BY <1>3 DEF ContainerEnds
    <2>2. SetupInv' /\ ChildInv'
        BY <1>3 DEF ContainerEnds
    <2>3. ParentInv' /\ ResultInv'
        BY <1>3 DEF ContainerEnds
    <2>4. QED
        BY <2>1, <2>2, <2>3
<1>4. CASE ChildGetsStuck
    BY <1>4 DEF ChildGetsStuck
<1>5. CASE ChildKilled
    BY <1>5 DEF ChildKilled
<1>6. QED
    BY <1>1, <1>2, <1>3, <1>4, <1>5 DEF Child

\* Nor does a step of the setup thread: whichever way it ends, what it started is
\* in the daemon's hands or down again.
LEMMA SetupKeeps ==
    ASSUME IInv, Setup
    PROVE  IInv'
<1> USE ConstantsOK DEF IInv, TypeOK, SetupInv, ChildInv, ParentInv, ResultInv, Starting, TakingDown,
        given, parentVars, childVars
<1>1. CASE SetupReads
    BY <1>1 DEF SetupReads
<1>2. CASE SetupSeesEOF
    BY <1>2 DEF SetupSeesEOF
<1>3. CASE DaemonLoads
    BY <1>3 DEF DaemonLoads
<1>4. CASE DaemonBinds
    BY <1>4 DEF DaemonBinds
<1>5. QED
    BY <1>1, <1>2, <1>3, <1>4 DEF Setup

\* Nor a step of the parent.  JoinSetup is what StopDaemon rests on: without it the
\* thread could still bind when the daemon's slot has been looked at.
LEMMA ParentKeeps ==
    ASSUME IInv, Parent
    PROVE  IInv'
<1> USE ConstantsOK DEF IInv, TypeOK, SetupInv, ChildInv, ParentInv, ResultInv, Starting, TakingDown,
        given, childVars, setupVars
<1>1. CASE ParentCloses
    BY <1>1 DEF ParentCloses
<1>2. CASE StartListener
    BY <1>2 DEF StartListener
<1>3. CASE SpawnSetup
    BY <1>3 DEF SpawnSetup
<1>4. CASE EventLoop
    <2>1. TypeOK'
        <3>1. parent' = "wait" /\ loopFailed' \in BOOLEAN
            BY <1>4 DEF EventLoop
        <3>2. UNCHANGED <<given, result, listener, childVars, setupVars>>
            BY <1>4 DEF EventLoop
        <3>3. QED
            BY <3>1, <3>2
    <2>2. SetupInv' /\ ChildInv'
        BY <1>4 DEF EventLoop
    <2>3. ParentInv' /\ ResultInv'
        BY <1>4 DEF EventLoop
    <2>4. QED
        BY <2>1, <2>2, <2>3
<1>5. CASE WaitChild
    BY <1>5 DEF WaitChild
<1>6. CASE JoinSetup
    BY <1>6 DEF JoinSetup
<1>7. CASE StopDaemon
    BY <1>7 DEF StopDaemon
<1>8. CASE StopListener
    BY <1>8 DEF StopListener
<1>9. QED
    BY <1>1, <1>2, <1>3, <1>4, <1>5, <1>6, <1>7, <1>8 DEF Parent

LEMMA StepKeeps == IInv /\ [Next]_vars => IInv'
<1>1. ASSUME IInv, UNCHANGED vars PROVE IInv'
    BY <1>1 DEF IInv, TypeOK, SetupInv, ChildInv, ParentInv, ResultInv, vars, given, parentVars,
                childVars, setupVars
<1>2. QED
    BY <1>1, ChildKeeps, SetupKeeps, ParentKeeps DEF Next

LEMMA Invariant == Spec => []IInv
BY Initially, StepKeeps, PTL DEF Spec

(***************************************************************************)
(* The theorems.                                                           *)
(***************************************************************************)

\* The variables keep their types; a daemon is only ever started for a project that
\* lets commands through, a proxy only for one with a filtered profile.
THEOREM TypeCorrect == Spec => []TypeOK
<1>1. IInv => TypeOK
    BY DEF IInv
<1>2. QED
    BY <1>1, Invariant, PTL

\* Whatever failed and whenever: a run that has returned has taken down daemon,
\* proxy and status listener (run_packaged_runtime, VsockDaemon::shutdown).
THEOREM NothingLeft == Spec => []NothingLeftRunning
<1>1. IInv => NothingLeftRunning
    BY DEF IInv, ParentInv, NothingLeftRunning
<1>2. QED
    BY <1>1, Invariant, PTL

\* A run that reports success had its container run to the end, with a daemon beside
\* it if the project asks for one, and that daemon is down.
THEOREM Truthful == Spec => []ResultIsTruthful
<1>1. IInv => ResultIsTruthful
    BY ConstantsOK DEF IInv, SetupInv, ResultInv, ParentInv, ResultIsTruthful
<1>2. QED
    BY <1>1, Invariant, PTL

\* Only a step of the parent takes a daemon down, and it has waited for the child.
THEOREM DaemonOutlives == Spec => DaemonOutlivesContainer
<1>1. IInv /\ [Next]_vars => [daemon = "up" /\ daemon' # "up" => child = "gone"]_vars
    <2> SUFFICES ASSUME IInv, Next, daemon = "up", daemon' # "up"
                 PROVE  child = "gone"
        OBVIOUS
    <2>1. ~Child /\ ~ChildGetsStuck /\ ~ChildKilled
        BY DEF Child, ChildResolves, ChildHandsOver, ContainerEnds, ChildGetsStuck, ChildKilled,
               setupVars
    <2>2. ~Setup
        BY DEF Setup, SetupReads, SetupSeesEOF, DaemonLoads, DaemonBinds
    <2>3. ~(ParentCloses \/ StartListener \/ SpawnSetup \/ EventLoop \/ WaitChild \/ JoinSetup
            \/ StopListener)
        BY DEF ParentCloses, StartListener, SpawnSetup, EventLoop, WaitChild, JoinSetup,
               StopListener, setupVars
    <2>4. StopDaemon
        BY <2>1, <2>2, <2>3 DEF Next, Parent
    <2>5. QED
        BY <2>4 DEF StopDaemon, IInv, ParentInv, TakingDown
<1>2. QED
    BY <1>1, Invariant, PTL DEF Spec, DaemonOutlivesContainer
=============================================================================
