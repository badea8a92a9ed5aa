------------------------- MODULE ExecSession_proofs -------------------------
(***************************************************************************)
(* Theorems about ExecSession, for all modes, exit codes and amounts of   *)
(* output, with their proofs.                                              *)
(***************************************************************************)
EXTENDS ExecSession, SequenceTheorems, WellFoundedInduction, TLAPS

-----------------------------------------------------------------------------
(* Queues.                                                                 *)

\* What appending to a queue and taking from it make of its members.
LEMMA QueueSteps ==
    ASSUME NEW S, NEW q \in Seq(S)
    PROVE  /\ \A e \in S : Append(q, e) \in Seq(S)
           /\ q # <<>> => Head(q) \in S /\ Tail(q) \in Seq(S)
  BY HeadTailProperties, AppendProperties

\* The members of a longer or a shorter queue.
LEMMA QueueMembers ==
    ASSUME NEW S, NEW q \in Seq(S)
    PROVE  /\ \A e \in S : \A i \in DOMAIN Append(q, e) :
                IF i \in DOMAIN q THEN Append(q, e)[i] = q[i]
                ELSE Append(q, e)[i] = e
           /\ q # <<>> =>
                /\ 1 \in DOMAIN q /\ Head(q) = q[1]
                /\ \A i \in DOMAIN Tail(q) :
                    i + 1 \in DOMAIN q /\ Tail(q)[i] = q[i + 1]
  <1>1. DOMAIN q = 1..Len(q) /\ Len(q) \in Nat
    BY LenProperties
  <1>2. ASSUME NEW e \in S, NEW i \in DOMAIN Append(q, e)
        PROVE  IF i \in DOMAIN q THEN Append(q, e)[i] = q[i]
               ELSE Append(q, e)[i] = e
    <2>1. /\ Append(q, e) \in Seq(S)
          /\ Len(Append(q, e)) = Len(q) + 1
          /\ \A j \in 1..Len(q) : Append(q, e)[j] = q[j]
          /\ Append(q, e)[Len(q) + 1] = e
      BY AppendProperties
    <2>2. DOMAIN Append(q, e) = 1..(Len(q) + 1)
      BY <2>1, LenProperties
    <2> QED  BY <1>1, <2>1, <2>2
  <1>3. ASSUME q # <<>>
        PROVE  /\ 1 \in DOMAIN q /\ Head(q) = q[1]
               /\ \A i \in DOMAIN Tail(q) :
                    i + 1 \in DOMAIN q /\ Tail(q)[i] = q[i + 1]
    <2>1. Len(q) \in Nat \ {0}
      BY <1>3, EmptySeq
    <2>2. /\ Tail(q) \in Seq(S)
          /\ Len(Tail(q)) = Len(q) - 1
          /\ \A i \in 1..Len(Tail(q)) : Tail(q)[i] = q[i + 1]
      BY <1>3, HeadTailProperties
    <2>3. DOMAIN Tail(q) = 1..(Len(q) - 1)
      BY <2>2, LenProperties
    <2>4. Head(q) = q[1]
      OBVIOUS
    <2> QED  BY <1>1, <2>1, <2>2, <2>3, <2>4
  <1> QED  BY <1>2, <1>3

-----------------------------------------------------------------------------
(* Types.                                                                  *)

\* What the types alone do not say and their proof needs: an ended process
\* has a status, and output is being drained only while there is some.
TypeInv ==
    /\ TypeOK
    /\ child = "exited" => status # NoStatus
    /\ handler = "draining" => buffered # <<>>

\* A connection that was just accepted has all its variables in their types
\* (handle_connection, src/daemon.rs).
LEMMA InitTypes == Init => TypeInv
  <1> SUFFICES ASSUME Init PROVE TypeInv
    OBVIOUS
  <1>1. /\ wire \in Seq(OutputFrame \cup ExitFrame)
        /\ buffered \in Seq(OutputFrame)
        /\ events \in Seq(ChildEvent)
        /\ lines \in Seq({"child-pid", "exit-code", "junk"})
    BY DEF Init
  <1>2. /\ received \in [Stream -> Seq(Chunk)]
        /\ pipe \in [Stream -> Seq(Chunk)]
        /\ written \in [Stream -> Seq(Chunk)]
    BY DEF Init
  <1>3. pump \in [Stream -> {"idle", "reading", "done"}]
    BY DEF Init
  <1> QED  BY <1>1, <1>2, <1>3 DEF Init, TypeInv, TypeOK

\* Sending keeps the connection a queue of frames.
LEMMA SendTypes ==
    ASSUME wire \in Seq(OutputFrame \cup ExitFrame),
           NEW f \in OutputFrame \cup ExitFrame, Send(f)
    PROVE  wire' \in Seq(OutputFrame \cup ExitFrame)
  BY QueueSteps DEF Send

\* Telling keeps the channel a queue of events.
LEMMA TellTypes ==
    ASSUME events \in Seq(ChildEvent), NEW e \in ChildEvent, Tell(e)
    PROVE  events' \in Seq(ChildEvent)
  BY QueueSteps DEF Tell

\* Any int, modulo 256, is an exit status.
LEMMA LeaveTypes ==
    ASSUME NEW code \in Int, Leave(code)
    PROVE  /\ client' = "exited"
           /\ result' \in 0..255
           /\ wire' \in Seq(OutputFrame \cup ExitFrame)
  BY DEF Leave

\* The steps of the client.
LEMMA ClientTypes ==
    ASSUME TypeInv,
           ClientSend \/ ClientConnectFails \/ ClientKilled \/ Client
    PROVE  TypeInv'
  <1> USE DEF TypeInv, TypeOK, guest, daemon, tasks, host
  <1>1. CASE ClientSend
    BY <1>1 DEF ClientSend
  <1>2. CASE ClientConnectFails
    <2>1. Leave(1)
      BY <1>2 DEF ClientConnectFails
    <2> QED  BY <1>2, <2>1, LeaveTypes DEF ClientConnectFails
  <1>3. CASE ClientKilled
    BY <1>3 DEF ClientKilled
  <1>4. CASE ClientPrints
    <2>1. /\ Head(wire) \in OutputFrame \cup ExitFrame
          /\ wire' \in Seq(OutputFrame \cup ExitFrame)
      BY <1>4, QueueSteps DEF ClientPrints
    <2>2. Head(wire).stream \in Stream /\ Head(wire).data \in Chunk
      BY <1>4, <2>1 DEF ClientPrints, OutputFrame, ExitFrame
    <2>3. received' \in [Stream -> Seq(Chunk)]
      BY <1>4, <2>2, QueueSteps DEF ClientPrints
    <2> QED  BY <1>4, <2>1, <2>3 DEF ClientPrints
  <1>5. CASE ClientPrintFails
    <2>1. Leave(1)
      BY <1>5 DEF ClientPrintFails
    <2> QED  BY <1>5, <2>1, LeaveTypes DEF ClientPrintFails
  <1>6. CASE ClientExits
    <2>1. Head(wire) \in OutputFrame \cup ExitFrame
      BY <1>6, QueueSteps DEF ClientExits
    <2>2. Head(wire).code \in Int
      BY <1>6, <2>1 DEF ClientExits, OutputFrame, ExitFrame
    <2>3. Leave(Head(wire).code)
      BY <1>6 DEF ClientExits
    <2> QED  BY <1>6, <2>2, <2>3, LeaveTypes DEF ClientExits
  <1>7. CASE ClientSeesEOF
    <2>1. Leave(1)
      BY <1>7 DEF ClientSeesEOF
    <2> QED  BY <1>7, <2>1, LeaveTypes DEF ClientSeesEOF
  <1> QED  BY <1>1, <1>2, <1>3, <1>4, <1>5, <1>6, <1>7 DEF Client

\* What the handler finds at the head of its channel.
LEMMA HeadOfEvents ==
    ASSUME TypeInv, events # <<>>
    PROVE  /\ Head(events) \in ChildEvent
           /\ Tail(events) \in Seq(ChildEvent)
           /\ Head(events).kind = "output" => Head(events) \in OutputFrame
  <1>1. /\ Head(events) \in ChildEvent
        /\ Tail(events) \in Seq(ChildEvent)
    BY QueueSteps DEF TypeInv, TypeOK
  <1> QED  BY <1>1 DEF ChildEvent

\* An ended process has an exit code.
LEMMA ExitCodeTypes ==
    ASSUME TypeInv, child = "exited"
    PROVE  Exit(ExitCode(status)) \in OutputFrame \cup ExitFrame
  BY ConstantsOK DEF TypeInv, TypeOK, ExitCode, Exit, ExitFrame

\* Killing the process, if there is one, ends it.
LEMMA KillTypes ==
    ASSUME TypeInv, KillChild
    PROVE  /\ child' \in {"none", "exited"}
           /\ status' \in Codes \cup {Signalled, NoStatus}
           /\ child' = "exited" => status' # NoStatus
           /\ holders' \subseteq {"child", "background"}
           /\ lines' = lines /\ written' = written
  <1>0. /\ child \in {"none", "setup", "aborting", "relay", "running", "exited"}
        /\ status \in Codes \cup {Signalled, NoStatus}
        /\ child = "exited" => status # NoStatus
        /\ holders \subseteq {"child", "background"}
    BY DEF TypeInv, TypeOK
  <1>1. CASE child \in {"none", "exited"}
    BY <1>0, <1>1 DEF KillChild, host
  <1>2. CASE child \notin {"none", "exited"}
    BY <1>0, <1>2, ConstantsOK DEF KillChild
  <1> QED  BY <1>1, <1>2

\* The steps of the handler.
LEMMA HandlerTypes ==
    ASSUME TypeInv, Handler
    PROVE  TypeInv'
  <1> USE DEF TypeInv, TypeOK, guest, daemon, tasks, host
  <1>0. Exit(1) \in OutputFrame \cup ExitFrame
    BY DEF Exit, ExitFrame
  <1>1. CASE RequestUnreadable
    BY <1>1 DEF RequestUnreadable
  <1>2. CASE ReadRequest
    BY <1>2 DEF ReadRequest
  <1>3. CASE Refuse
    <2>1. wire' \in Seq(OutputFrame \cup ExitFrame)
      BY <1>0, <1>3, SendTypes DEF Refuse
    <2> QED  BY <1>3, <2>1 DEF Refuse
  <1>4. CASE SpawnFails
    BY <1>4 DEF SpawnFails
  <1>5. CASE Spawn
    BY <1>5 DEF Spawn
  <1>6. CASE HandleOutput
    <2>1. /\ Head(events) \in OutputFrame
          /\ events' \in Seq(ChildEvent)
      BY <1>6, HeadOfEvents DEF HandleOutput
    <2>2. wire' \in Seq(OutputFrame \cup ExitFrame)
      BY <1>6, <2>1, SendTypes DEF HandleOutput
    <2>3. Append(buffered, Head(events)) \in Seq(OutputFrame)
      BY <2>1, QueueSteps
    <2>4. buffered' \in Seq(OutputFrame)
      BY <1>6, <2>3 DEF HandleOutput
    <2>5. handler' = "relaying"
      BY <1>6 DEF HandleOutput
    <2> QED  BY <1>6, <2>1, <2>2, <2>4, <2>5 DEF HandleOutput
  <1>7. CASE HandleClosed
    <2>1. events' \in Seq(ChildEvent)
      BY <1>7, HeadOfEvents DEF HandleClosed
    <2> QED  BY <1>7, <2>1 DEF HandleClosed
  <1>8. CASE HandleStarted
    <2>1. events' \in Seq(ChildEvent)
      BY <1>8, HeadOfEvents DEF HandleStarted
    <2> QED  BY <1>8, <2>1 DEF HandleStarted
  <1>9. CASE HandleFailed
    <2>1. events' \in Seq(ChildEvent)
      BY <1>9, HeadOfEvents DEF HandleFailed
    <2>2. buffered' \in Seq(OutputFrame) /\ handler' = "relaying"
      BY <1>9 DEF HandleFailed
    <2> QED  BY <1>9, <2>1, <2>2 DEF HandleFailed
  <1>10. CASE DrainBuffered
    <2>1. Head(buffered) \in OutputFrame /\ buffered' \in Seq(OutputFrame)
      BY <1>10, QueueSteps DEF DrainBuffered
    <2>2. wire' \in Seq(OutputFrame \cup ExitFrame)
      BY <1>10, <2>1, SendTypes DEF DrainBuffered
    <2> QED  BY <1>10, <2>1, <2>2 DEF DrainBuffered
  <1>11. CASE WriteFails
    <2>1. KillChild
      BY <1>11 DEF WriteFails
    <2>2. /\ events' \in Seq(ChildEvent)
          /\ buffered' \in Seq(OutputFrame)
          /\ handler' = "failing"
      BY <1>11 DEF WriteFails
    <2> QED  BY <1>11, <2>1, <2>2, KillTypes DEF WriteFails
  <1>12. CASE LeaveLoop
    BY <1>12 DEF LeaveLoop
  <1>13. CASE Reap
    <2>1. wire' \in Seq(OutputFrame \cup ExitFrame)
      BY <1>13, ExitCodeTypes, SendTypes DEF Reap
    <2> QED  BY <1>13, <2>1 DEF Reap
  <1>14. CASE JoinTasks
    BY <1>14 DEF JoinTasks
  <1>15. CASE ReportFailure
    <2>1. wire' \in Seq(OutputFrame \cup ExitFrame)
      BY <1>0, <1>15, SendTypes DEF ReportFailure
    <2> QED  BY <1>15, <2>1 DEF ReportFailure
  <1> QED
    BY <1>1, <1>2, <1>3, <1>4, <1>5, <1>6, <1>7, <1>8, <1>9, <1>10, <1>11, <1>12,
       <1>13, <1>14, <1>15
    DEF Handler

\* The steps of the two pumps and of the reader of the status pipe.
LEMMA TaskTypes ==
    ASSUME TypeInv, (\E s \in Stream : Pump(s)) \/ Monitor
    PROVE  TypeInv'
  <1> USE DEF TypeInv, TypeOK, guest, daemon, tasks, host
  <1>1. ASSUME NEW s \in Stream, PumpReads(s)
        PROVE  TypeInv'
    <2>1. /\ pipe[s] \in Seq(Chunk)
          /\ Head(pipe[s]) \in Chunk /\ Tail(pipe[s]) \in Seq(Chunk)
      BY <1>1, QueueSteps DEF PumpReads
    <2>2. pipe' \in [Stream -> Seq(Chunk)]
      BY <1>1, <2>1 DEF PumpReads
    <2>3. Output(s, Head(pipe[s])) \in ChildEvent
      BY <2>1 DEF Output, OutputFrame, ChildEvent
    <2>4. events' \in Seq(ChildEvent)
      BY <1>1, <2>3, TellTypes DEF PumpReads
    <2>5. pump' \in [Stream -> {"idle", "reading", "done"}]
      BY <1>1 DEF PumpReads
    <2> QED  BY <1>1, <2>2, <2>4, <2>5 DEF PumpReads
  <1>2. ASSUME NEW s \in Stream, PumpSeesEOF(s)
        PROVE  TypeInv'
    <2>1. Event("closed") \in ChildEvent
      BY DEF Event, ChildEvent
    <2>2. events' \in Seq(ChildEvent)
      BY <1>2, <2>1, TellTypes DEF PumpSeesEOF
    <2>3. pump' \in [Stream -> {"idle", "reading", "done"}]
      BY <1>2 DEF PumpSeesEOF
    <2> QED  BY <1>2, <2>2, <2>3 DEF PumpSeesEOF
  <1>3. Event("started") \in ChildEvent /\ Event("failed") \in ChildEvent
    BY DEF Event, ChildEvent
  <1>4. CASE MonitorReads
    <2>1. lines' \in Seq({"child-pid", "exit-code", "junk"})
      BY <1>4, QueueSteps DEF MonitorReads
    <2>2. /\ monitor' \in {"absent", "watching", "started", "done"}
          /\ \/ Tell(Event("started")) \/ Tell(Event("failed")) \/ UNCHANGED events
      BY <1>4 DEF MonitorReads
    <2>3. events' \in Seq(ChildEvent)
      BY <1>3, <2>2, TellTypes
    <2> QED  BY <1>4, <2>1, <2>2, <2>3 DEF MonitorReads
  <1>5. CASE MonitorSeesEOF
    <2>1. Tell(Event("failed")) \/ UNCHANGED events
      BY <1>5 DEF MonitorSeesEOF
    <2>2. events' \in Seq(ChildEvent)
      BY <1>3, <2>1, TellTypes
    <2> QED  BY <1>5, <2>2 DEF MonitorSeesEOF
  <1> QED  BY <1>1, <1>2, <1>4, <1>5 DEF Pump, Monitor

\* What a process of the host writes is a piece of output within the bound.
LEMMA PutChunk ==
    ASSUME TypeInv, NEW s \in Stream,
           NEW who \in {"launcher", "relay", "command"}, Put(s, who)
    PROVE  [from |-> who, n |-> Len(written[s]) + 1] \in Chunk
  <1> DEFINE m == Len(written["stdout"])
             n == Len(written["stderr"])
  <1>1. m \in Nat /\ n \in Nat /\ m + n < MaxChunks
    <2>1. written["stdout"] \in Seq(Chunk) /\ written["stderr"] \in Seq(Chunk)
      BY DEF TypeInv, TypeOK, Stream
    <2>2. m + n < MaxChunks
      BY DEF Put
    <2>3. m \in Nat /\ n \in Nat
      BY <2>1
    <2> QED  BY <2>2, <2>3
  <1>2. Len(written[s]) = m \/ Len(written[s]) = n
    BY DEF Stream
  <1> HIDE DEF m, n
  <1>3. m + 1 \in 1..MaxChunks /\ n + 1 \in 1..MaxChunks
    BY <1>1, ConstantsOK
  <1> QED  BY <1>2, <1>3 DEF Chunk

\* A piece of output keeps pipe and history queues of pieces.
LEMMA PutTypes ==
    ASSUME TypeInv, NEW s \in Stream,
           NEW who \in {"launcher", "relay", "command"}, Put(s, who)
    PROVE  /\ pipe' \in [Stream -> Seq(Chunk)]
           /\ written' \in [Stream -> Seq(Chunk)]
  <1> DEFINE c == [from |-> who, n |-> Len(written[s]) + 1]
  <1>1. written[s] \in Seq(Chunk) /\ pipe[s] \in Seq(Chunk)
    BY DEF TypeInv, TypeOK
  <1>2. c \in Chunk
    BY PutChunk
  <1>3. Append(written[s], c) \in Seq(Chunk) /\ Append(pipe[s], c) \in Seq(Chunk)
    BY <1>1, <1>2, QueueSteps
  <1> QED  BY <1>3 DEF Put, TypeInv, TypeOK

\* The steps of the host process.
LEMMA ProcessTypes ==
    ASSUME TypeInv, Process
    PROVE  TypeInv'
  <1> USE DEF TypeInv, TypeOK, guest, daemon, tasks, host
  <1>0. \A l \in {"child-pid", "exit-code", "junk"} :
            Append(lines, l) \in Seq({"child-pid", "exit-code", "junk"})
    BY QueueSteps
  <1>1. CASE LauncherGivesUp
    BY <1>1 DEF LauncherGivesUp
  <1>2. CASE LauncherExits
    <2>1. lines' \in Seq({"child-pid", "exit-code", "junk"})
      BY <1>0, <1>2 DEF LauncherExits
    <2>2. status' \in Codes /\ status' # NoStatus
      BY <1>2, ConstantsOK DEF LauncherExits
    <2> QED  BY <1>2, <2>1, <2>2 DEF LauncherExits
  <1>3. CASE LauncherStarts
    BY <1>0, <1>3 DEF LauncherStarts
  <1>4. CASE RelayStarts
    BY <1>4 DEF RelayStarts
  <1>5. CASE RelayFails
    <2>1. /\ pipe' \in [Stream -> Seq(Chunk)]
          /\ written' \in [Stream -> Seq(Chunk)]
      BY <1>5, PutTypes DEF RelayFails, Stream
    <2>2. status' \in Codes /\ status' # NoStatus
      BY <1>5, ConstantsOK DEF RelayFails
    <2> QED  BY <1>0, <1>5, <2>1, <2>2 DEF RelayFails
  <1>6. CASE CommandForks
    BY <1>6 DEF CommandForks
  <1>7. CASE CommandCloses
    BY <1>7 DEF CommandCloses
  <1>8. CASE CommandExits
    <2>1. status' \in Codes \cup {Signalled} /\ status' # NoStatus
      BY <1>8, ConstantsOK DEF CommandExits
    <2>2. lines' \in Seq({"child-pid", "exit-code", "junk"})
      BY <1>0, <1>8 DEF CommandExits
    <2> QED  BY <1>8, <2>1, <2>2 DEF CommandExits
  <1>9. CASE BackgroundExits
    BY <1>9 DEF BackgroundExits
  <1>10. ASSUME NEW s \in Stream, LauncherWrites(s)
         PROVE  TypeInv'
    <2>1. /\ pipe' \in [Stream -> Seq(Chunk)]
          /\ written' \in [Stream -> Seq(Chunk)]
      BY <1>10, PutTypes DEF LauncherWrites
    <2> QED  BY <1>10, <2>1 DEF LauncherWrites
  <1>11. ASSUME NEW s \in Stream, CommandWrites(s)
         PROVE  TypeInv'
    <2>1. /\ pipe' \in [Stream -> Seq(Chunk)]
          /\ written' \in [Stream -> Seq(Chunk)]
      BY <1>11, PutTypes DEF CommandWrites
    <2> QED  BY <1>11, <2>1 DEF CommandWrites
  <1> QED
    BY <1>1, <1>2, <1>3, <1>4, <1>5, <1>6, <1>7, <1>8, <1>9, <1>10, <1>11
    DEF Process

\* The strengthened types hold in every reachable state: the daemon never drains
\* an empty buffer and never reports the status of a process that has none.
THEOREM TypesHold == Spec => []TypeInv
  <1>1. ASSUME TypeInv, [Next]_vars
        PROVE  TypeInv'
    <2>1. CASE Next
      BY <1>1, <2>1, ClientTypes, HandlerTypes, TaskTypes, ProcessTypes DEF Next
    <2>2. CASE UNCHANGED vars
      BY <1>1, <2>2 DEF vars, guest, daemon, tasks, host, TypeInv, TypeOK
    <2> QED  BY <1>1, <2>1, <2>2
  <1> QED  BY InitTypes, <1>1, PTL DEF Spec

\* The model is well typed, whatever the modes, the exit codes and the amount of
\* output; in particular the caller is never handed more than eight bits.
THEOREM TypeCorrect == Spec => []TypeOK
  <1>1. TypeInv => TypeOK
    BY DEF TypeInv
  <1> QED  BY TypesHold, <1>1, PTL

-----------------------------------------------------------------------------
(* A refused launch is silent.                                             *)

\* Is there an event of kind k in the channel?
Waiting(k) == \E i \in DOMAIN events : events[i].kind = k

\* The verdict of the status pipe is given once: while its reader still
\* watches, nobody has heard of one, and of "started" and "failed" at most one
\* is ever under way or taken in.
OneVerdict ==
    /\ ~Profiled \/ handler \in {"reading", "refusing", "spawning"} => monitor = "absent"
    /\ monitor = "watching" => Profiled
    /\ monitor \in {"absent", "watching"} =>
            ~failed /\ ~Waiting("started") /\ ~Waiting("failed")
    /\ monitor = "watching" => ~launched
    /\ failed => ~launched /\ ~Waiting("started")
    /\ Waiting("failed") => ~launched /\ ~Waiting("started")

\* Until the launch is known to have succeeded the caller has been sent nothing.
SilentUntilStarted ==
    /\ handler \in {"reading", "refusing", "spawning"} => ~launched
    /\ handler = "draining" => launched
    /\ ~launched => /\ \A i \in DOMAIN wire : wire[i].kind # "output"
                    /\ \A s \in Stream : received[s] = <<>>

SilenceInv == OneVerdict /\ SilentUntilStarted

\* Before bwrap is started there is no verdict and no output (handle_connection,
\* src/daemon.rs).
LEMMA InitSilence == Init => SilenceInv
  <1> SUFFICES ASSUME Init PROVE SilenceInv
    OBVIOUS
  <1>1. DOMAIN events = {} /\ DOMAIN wire = {}
    BY DEF Init
  <1>2. ~Waiting("started") /\ ~Waiting("failed")
    BY <1>1 DEF Waiting
  <1> QED  BY <1>1, <1>2 DEF Init, SilenceInv, OneVerdict, SilentUntilStarted

\* Taking the head of the channel adds nothing to what waits in it.
LEMMA TakeWaiting ==
    ASSUME TypeInv, events # <<>>, events' = Tail(events), NEW CONSTANT k
    PROVE  /\ Waiting(k)' => Waiting(k)
           /\ Head(events).kind = k => Waiting(k)
  <1>1. /\ 1 \in DOMAIN events /\ Head(events) = events[1]
        /\ \A i \in DOMAIN Tail(events) :
                i + 1 \in DOMAIN events /\ Tail(events)[i] = events[i + 1]
    BY QueueMembers DEF TypeInv, TypeOK
  <1> QED  BY <1>1 DEF Waiting

\* Telling the handler of e adds at most e.
LEMMA TellWaiting ==
    ASSUME TypeInv, NEW e \in ChildEvent, Tell(e), NEW CONSTANT k, Waiting(k)'
    PROVE  Waiting(k) \/ e.kind = k
  <1>1. \A i \in DOMAIN Append(events, e) :
            IF i \in DOMAIN events THEN Append(events, e)[i] = events[i]
            ELSE Append(events, e)[i] = e
    BY QueueMembers DEF TypeInv, TypeOK
  <1>2. events' = events \/ events' = Append(events, e)
    BY DEF Tell
  <1> QED  BY <1>1, <1>2 DEF Waiting

\* Sending f adds at most f to the connection.
LEMMA SendMembers ==
    ASSUME TypeInv, NEW f \in OutputFrame \cup ExitFrame, Send(f),
           NEW i \in DOMAIN wire'
    PROVE  IF i \in DOMAIN wire THEN wire'[i] = wire[i] ELSE wire'[i] = f
  <1>1. \A j \in DOMAIN Append(wire, f) :
            IF j \in DOMAIN wire THEN Append(wire, f)[j] = wire[j]
            ELSE Append(wire, f)[j] = f
    BY QueueMembers DEF TypeInv, TypeOK
  <1> QED  BY <1>1 DEF Send

\* A step that hears no verdict, starts no launch and sends no output keeps the
\* silence.
LEMMA QuietStep ==
    ASSUME SilenceInv,
           UNCHANGED <<mode, handler, launched, failed, monitor, events>>,
           \A i \in DOMAIN wire' : ~launched => wire'[i].kind # "output",
           ~launched => received' = received
    PROVE  SilenceInv'
  <1>1. OneVerdict'
    BY DEF SilenceInv, OneVerdict, Waiting, Profiled
  <1>2. SilentUntilStarted'
    BY DEF SilenceInv, SilentUntilStarted
  <1> QED  BY <1>1, <1>2 DEF SilenceInv

\* The steps of the client: it prints only what is on the connection.
LEMMA ClientSilence ==
    ASSUME TypeInv, SilenceInv,
           ClientSend \/ ClientConnectFails \/ ClientKilled \/ Client
    PROVE  SilenceInv'
  <1>1. UNCHANGED <<mode, handler, launched, failed, monitor, events>>
    BY DEF Client, ClientSend, ClientConnectFails, ClientKilled, ClientPrints,
           ClientPrintFails, ClientExits, ClientSeesEOF, daemon, tasks
  <1>2. CASE ClientPrints
    <2>1. /\ 1 \in DOMAIN wire /\ Head(wire) = wire[1]
          /\ \A i \in DOMAIN Tail(wire) :
                i + 1 \in DOMAIN wire /\ Tail(wire)[i] = wire[i + 1]
      BY <1>2, QueueMembers DEF ClientPrints, TypeInv, TypeOK
    <2>2. launched
      BY <1>2, <2>1 DEF ClientPrints, SilenceInv, SilentUntilStarted
    <2> QED  BY <1>1, <2>2, QuietStep
  <1>3. CASE ~ClientPrints
    <2>1. received' = received /\ (wire' = wire \/ wire' = <<>>)
      BY <1>3 DEF Client, ClientSend, ClientConnectFails, ClientKilled,
                  ClientPrintFails, ClientExits, ClientSeesEOF, Leave, guest
    <2>2. \A i \in DOMAIN wire' : ~launched => wire'[i].kind # "output"
      BY <2>1 DEF SilenceInv, SilentUntilStarted
    <2> QED  BY <1>1, <2>1, <2>2, QuietStep
  <1> QED  BY <1>2, <1>3

\* Dropping or keeping the channel, a step that moves the handler on and sends at
\* most an exit frame keeps the silence.
LEMMA QuietHandler ==
    ASSUME TypeInv, SilenceInv,
           UNCHANGED <<mode, launched, failed, monitor, received>>,
           events' \in {events, <<>>},
           handler \notin {"reading", "refusing", "spawning"} =>
                handler' \notin {"reading", "refusing", "spawning"},
           handler' # "draining",
           wire' = wire \/ \E code \in Int : Send(Exit(code))
    PROVE  SilenceInv'
  <1>1. \A k : Waiting(k)' => Waiting(k)
    BY DEF Waiting
  <1>2. OneVerdict'
    BY <1>1 DEF SilenceInv, OneVerdict, Profiled
  <1>3. ASSUME NEW i \in DOMAIN wire', ~launched
        PROVE  wire'[i].kind # "output"
    <2>1. CASE wire' = wire
      BY <1>3, <2>1 DEF SilenceInv, SilentUntilStarted
    <2>2. CASE \E code \in Int : Send(Exit(code))
      <3>1. PICK code \in Int : Send(Exit(code))
        BY <2>2
      <3>2. Exit(code) \in OutputFrame \cup ExitFrame /\ Exit(code).kind = "exit"
        BY DEF Exit, ExitFrame
      <3>3. IF i \in DOMAIN wire THEN wire'[i] = wire[i] ELSE wire'[i] = Exit(code)
        BY <1>3, <3>1, <3>2, SendMembers
      <3> QED  BY <1>3, <3>2, <3>3 DEF SilenceInv, SilentUntilStarted
    <2> QED  BY <2>1, <2>2
  <1>4. SilentUntilStarted'
    BY <1>3 DEF SilenceInv, SilentUntilStarted
  <1> QED  BY <1>2, <1>4 DEF SilenceInv

\* The steps of the handler: it holds output back until it knows.
LEMMA HandlerSilence ==
    ASSUME TypeInv, SilenceInv, Handler
    PROVE  SilenceInv'
  <1>1. CASE RequestUnreadable \/ ReadRequest \/ SpawnFails \/ LeaveLoop \/ JoinTasks
    <2>1. UNCHANGED <<mode, launched, failed, monitor, received, events, wire>>
      BY <1>1 DEF RequestUnreadable, ReadRequest, SpawnFails, LeaveLoop, JoinTasks,
                  guest, tasks
    <2>2. /\ handler' # "draining"
          /\ handler \notin {"reading", "refusing", "spawning"} =>
                handler' \notin {"reading", "refusing", "spawning"}
      BY <1>1 DEF RequestUnreadable, ReadRequest, SpawnFails, LeaveLoop, JoinTasks
    <2> QED  BY <2>1, <2>2, QuietHandler
  <1>2. CASE Refuse \/ ReportFailure
    <2>1. UNCHANGED <<mode, launched, failed, monitor, received, events>>
      BY <1>2 DEF Refuse, ReportFailure, guest, tasks
    <2>2. handler' = "closed" /\ Send(Exit(1))
      BY <1>2 DEF Refuse, ReportFailure
    <2> QED  BY <2>1, <2>2, QuietHandler
  <1>3. CASE Reap
    <2>1. UNCHANGED <<mode, launched, failed, monitor, received, events>>
      BY <1>3 DEF Reap, guest, tasks
    <2>2. handler' = "joining" /\ Send(Exit(ExitCode(status))) /\ child = "exited"
      BY <1>3 DEF Reap
    <2>3. ExitCode(status) \in Int
      BY <2>2, ConstantsOK DEF ExitCode, TypeInv, TypeOK
    <2> QED  BY <2>1, <2>2, <2>3, QuietHandler
  <1>4. CASE WriteFails
    <2>1. UNCHANGED <<mode, launched, failed, monitor, received, wire>>
      BY <1>4 DEF WriteFails, guest, tasks
    <2>2. handler' = "failing" /\ events' = <<>>
      BY <1>4 DEF WriteFails
    <2> QED  BY <2>1, <2>2, QuietHandler
  <1>5. CASE Spawn
    <2>1. /\ UNCHANGED <<mode, failed, events, wire, received>>
          /\ handler = "spawning" /\ handler' = "relaying"
          /\ launched' = ~Profiled
          /\ monitor' = IF Profiled THEN "watching" ELSE "absent"
      BY <1>5 DEF Spawn, guest
    <2>2. ~failed /\ ~Waiting("started") /\ ~Waiting("failed")
      BY <2>1 DEF SilenceInv, OneVerdict
    <2>3. OneVerdict'
      BY <2>1, <2>2 DEF OneVerdict, Waiting, Profiled
    <2>4. SilentUntilStarted'
      BY <2>1 DEF SilenceInv, SilentUntilStarted
    <2> QED  BY <2>3, <2>4 DEF SilenceInv
  <1>6. CASE HandleOutput
    <2>1. /\ UNCHANGED <<mode, handler, launched, failed, monitor, received>>
          /\ events # <<>> /\ events' = Tail(events) /\ handler = "relaying"
      BY <1>6 DEF HandleOutput, guest, tasks
    <2>2. ~Waiting("started")' \/ Waiting("started")
      BY <2>1, TakeWaiting
    <2>3. ~Waiting("failed")' \/ Waiting("failed")
      BY <2>1, TakeWaiting
    <2>4. OneVerdict'
      BY <2>1, <2>2, <2>3 DEF SilenceInv, OneVerdict, Profiled
    <2>5. ~launched => wire' = wire
      BY <1>6 DEF HandleOutput
    <2>6. SilentUntilStarted'
      BY <2>1, <2>5 DEF SilenceInv, SilentUntilStarted
    <2> QED  BY <2>4, <2>6 DEF SilenceInv
  <1>7. CASE HandleClosed
    <2>1. /\ UNCHANGED <<mode, handler, launched, failed, monitor, received, wire>>
          /\ events # <<>> /\ events' = Tail(events)
      BY <1>7 DEF HandleClosed, guest, tasks
    <2>2. Waiting("started")' => Waiting("started")
      BY <2>1, TakeWaiting
    <2>3. Waiting("failed")' => Waiting("failed")
      BY <2>1, TakeWaiting
    <2>4. OneVerdict'
      BY <2>1, <2>2, <2>3 DEF SilenceInv, OneVerdict, Profiled
    <2>5. SilentUntilStarted'
      BY <2>1 DEF SilenceInv, SilentUntilStarted
    <2> QED  BY <2>4, <2>5 DEF SilenceInv
  <1>8. CASE HandleStarted
    <2>1. /\ UNCHANGED <<mode, failed, monitor>>
          /\ events # <<>> /\ events' = Tail(events)
          /\ Head(events).kind = "started"
          /\ handler = "relaying" /\ handler' \in {"relaying", "draining"}
          /\ launched' = TRUE
      BY <1>8 DEF HandleStarted, tasks
    <2>2. Waiting("started") /\ (Waiting("failed")' => Waiting("failed"))
      BY <2>1, TakeWaiting
    <2>3. ~Waiting("failed")' /\ ~failed /\ monitor \notin {"absent", "watching"}
      BY <2>2 DEF SilenceInv, OneVerdict
    <2>4. OneVerdict'
      BY <2>1, <2>3 DEF SilenceInv, OneVerdict, Profiled
    <2>5. SilentUntilStarted'
      BY <2>1 DEF SilentUntilStarted
    <2> QED  BY <2>4, <2>5 DEF SilenceInv
  <1>9. CASE HandleFailed
    <2>1. /\ UNCHANGED <<mode, handler, launched, monitor, received, wire>>
          /\ events # <<>> /\ events' = Tail(events)
          /\ Head(events).kind = "failed"
          /\ failed' = TRUE
      BY <1>9 DEF HandleFailed, guest, tasks
    <2>2. Waiting("failed") /\ (Waiting("started")' => Waiting("started"))
      BY <2>1, TakeWaiting
    <2>3. ~Waiting("started")' /\ ~launched /\ monitor \notin {"absent", "watching"}
      BY <2>2 DEF SilenceInv, OneVerdict
    <2>4. OneVerdict'
      BY <2>1, <2>3 DEF SilenceInv, OneVerdict, Profiled
    <2>5. SilentUntilStarted'
      BY <2>1 DEF SilenceInv, SilentUntilStarted
    <2> QED  BY <2>4, <2>5 DEF SilenceInv
  <1>10. CASE DrainBuffered
    <2>1. /\ UNCHANGED <<mode, launched, failed, monitor, events>>
          /\ handler = "draining" /\ handler' \in {"relaying", "draining"}
      BY <1>10 DEF DrainBuffered, tasks
    <2>2. launched
      BY <2>1 DEF SilenceInv, SilentUntilStarted
    <2>3. OneVerdict'
      BY <2>1 DEF SilenceInv, OneVerdict, Profiled, Waiting
    <2>4. SilentUntilStarted'
      BY <2>1, <2>2 DEF SilentUntilStarted
    <2> QED  BY <2>3, <2>4 DEF SilenceInv
  <1> QED
    BY <1>1, <1>2, <1>3, <1>4, <1>5, <1>6, <1>7, <1>8, <1>9, <1>10 DEF Handler

\* The steps of the tasks: the reader of the status pipe gives its verdict once.
LEMMA TaskSilence ==
    ASSUME TypeInv, SilenceInv, (\E s \in Stream : Pump(s)) \/ Monitor
    PROVE  SilenceInv'
  <1>1. UNCHANGED <<mode, handler, launched, failed, wire, received>>
    BY DEF Pump, PumpReads, PumpSeesEOF, Monitor, MonitorReads, MonitorSeesEOF,
           guest, daemon
  <1>2. SilentUntilStarted'
    BY <1>1 DEF SilenceInv, SilentUntilStarted
  <1>3. CASE \E s \in Stream : Pump(s)
    <2>1. PICK s \in Stream : PumpReads(s) \/ PumpSeesEOF(s)
      BY <1>3 DEF Pump
    <2>2. monitor' = monitor
      BY <2>1 DEF PumpReads, PumpSeesEOF
    <2>3. PICK e \in ChildEvent : Tell(e) /\ e.kind \in {"output", "closed"}
      <3>1. CASE PumpReads(s)
        <4>1. Head(pipe[s]) \in Chunk
          BY <3>1, QueueSteps DEF PumpReads, TypeInv, TypeOK
        <4>2. /\ Output(s, Head(pipe[s])) \in ChildEvent
              /\ Output(s, Head(pipe[s])).kind = "output"
          BY <4>1 DEF Output, OutputFrame, ChildEvent
        <4> QED  BY <3>1, <4>2 DEF PumpReads
      <3>2. CASE PumpSeesEOF(s)
        <4>1. Event("closed") \in ChildEvent /\ Event("closed").kind = "closed"
          BY DEF Event, ChildEvent
        <4> QED  BY <3>2, <4>1 DEF PumpSeesEOF
      <3> QED  BY <2>1, <3>1, <3>2
    <2>4. Waiting("started")' => Waiting("started")
      BY <2>3, TellWaiting
    <2>5. Waiting("failed")' => Waiting("failed")
      BY <2>3, TellWaiting
    <2>6. OneVerdict'
      BY <1>1, <2>2, <2>4, <2>5 DEF SilenceInv, OneVerdict, Profiled
    <2> QED  BY <1>2, <2>6 DEF SilenceInv
  <1>4. CASE Monitor /\ monitor = "watching"
    <2>1. /\ Profiled /\ ~launched /\ ~failed
          /\ ~Waiting("started") /\ ~Waiting("failed")
          /\ handler \notin {"reading", "refusing", "spawning"}
      BY <1>4 DEF SilenceInv, OneVerdict
    <2>2. /\ Event("started") \in ChildEvent /\ Event("started").kind = "started"
          /\ Event("failed") \in ChildEvent /\ Event("failed").kind = "failed"
      BY DEF Event, ChildEvent
    <2>3. /\ monitor' \in {"started", "done"}
          /\ Tell(Event("started")) \/ Tell(Event("failed"))
      BY <1>4 DEF Monitor, MonitorReads, MonitorSeesEOF
    <2>4. ~Waiting("started")' \/ ~Waiting("failed")'
      <3>1. CASE Tell(Event("started"))
        <4>1. ~Waiting("failed")'
          BY <2>1, <2>2, <3>1, TellWaiting
        <4> QED  BY <4>1
      <3>2. CASE Tell(Event("failed"))
        <4>1. ~Waiting("started")'
          BY <2>1, <2>2, <3>2, TellWaiting
        <4> QED  BY <4>1
      <3> QED  BY <2>3, <3>1, <3>2
    <2>5. OneVerdict'
      BY <1>1, <2>1, <2>3, <2>4 DEF OneVerdict, Profiled
    <2> QED  BY <1>2, <2>5 DEF SilenceInv
  <1>5. CASE Monitor /\ monitor = "started"
    <2>1. UNCHANGED events /\ monitor' \in {"started", "done"}
      BY <1>5 DEF Monitor, MonitorReads, MonitorSeesEOF
    <2>2. OneVerdict'
      BY <1>1, <1>5, <2>1 DEF SilenceInv, OneVerdict, Profiled, Waiting
    <2> QED  BY <1>2, <2>2 DEF SilenceInv
  <1>6. Monitor => monitor \in {"watching", "started"}
    BY DEF Monitor, MonitorReads, MonitorSeesEOF
  <1> QED  BY <1>3, <1>4, <1>5, <1>6

\* The host process has no part in the connection nor in the channel.
LEMMA ProcessSilence ==
    ASSUME SilenceInv, Process
    PROVE  SilenceInv'
  <1>1. UNCHANGED <<mode, handler, launched, failed, monitor, events, wire, received>>
    BY DEF Process, LauncherGivesUp, LauncherExits, LauncherStarts, RelayStarts,
           RelayFails, CommandForks, CommandCloses, CommandExits, BackgroundExits,
           LauncherWrites, CommandWrites, guest, daemon, tasks
  <1>2. OneVerdict' /\ SilentUntilStarted'
    BY <1>1 DEF SilenceInv, OneVerdict, SilentUntilStarted, Profiled, Waiting
  <1> QED  BY <1>2 DEF SilenceInv

\* The verdict on a launch is given once, and before it nothing is sent.
THEOREM SilenceHolds == Spec => []SilenceInv
  <1>1. ASSUME TypeInv, SilenceInv, [Next]_vars
        PROVE  SilenceInv'
    <2>1. CASE Next
      BY <1>1, <2>1, ClientSilence, HandlerSilence, TaskSilence, ProcessSilence
      DEF Next
    <2>2. CASE UNCHANGED vars
      BY <1>1, <2>2
      DEF vars, guest, daemon, tasks, SilenceInv, OneVerdict, SilentUntilStarted,
          Profiled, Waiting
    <2> QED  BY <1>1, <2>1, <2>2
  <1> QED  BY InitSilence, <1>1, TypesHold, PTL DEF Spec

\* A launch that bwrap gave up shows the caller nothing and is never also taken
\* for a started one, whatever the order in which output, verdict and end of file
\* reach the handler.
THEOREM RefusedLaunchStaysSilent == Spec => []RefusedLaunchIsSilent
  <1>1. SilenceInv => RefusedLaunchIsSilent
    BY DEF SilenceInv, OneVerdict, SilentUntilStarted, RefusedLaunchIsSilent
  <1> QED  BY SilenceHolds, <1>1, PTL

-----------------------------------------------------------------------------
(* The pieces of a stream in a queue.  A recursive function lists them; what  *)
(* it lists for every queue is shown with a least counterexample, and that    *)
(* there is a least one by the well-foundedness of < on the naturals.         *)

\* < on the naturals.
Below == OpToRel(<, Nat)

\* Among some naturals there is a least: induction without an operator parameter.
LEMMA LeastNumber ==
    ASSUME NEW T \in SUBSET Nat, T # {}
    PROVE  \E m \in T : \A k \in T : m <= k
  <1>1. IsWellFoundedOn(Below, Nat)
    BY NatLessThanWellFounded DEF Below
  <1>2. PICK m \in T : \A k \in T : ~ (<<k, m>> \in Below)
    BY <1>1, WFMin
  <1>3. \A k \in T : k < m => <<k, m>> \in Below
    BY DEF Below, OpToRel
  <1>4. \A k \in T : ~ (k < m)
    BY <1>2, <1>3
  <1> QED  BY <1>4

\* Appending to the second of two queues appends to both.
LEMMA ConcatAppend ==
    ASSUME NEW q \in Seq(Chunk), NEW r \in Seq(Chunk), NEW e \in Chunk
    PROVE  Append(q \o r, e) = q \o Append(r, e)
  <1>1. q \o r \in Seq(Chunk) /\ <<e>> \in Seq(Chunk)
    BY ConcatProperties
  <1>2. Append(q \o r, e) = (q \o r) \o <<e>> /\ Append(r, e) = r \o <<e>>
    BY <1>1, AppendIsConcat
  <1> QED  BY <1>1, <1>2, ConcatAssociative

\* What travels in the connection and in the channel.
Frame == OutputFrame \cup ExitFrame \cup ChildEvent

\* What carries output carries a piece of it.
LEMMA FrameData ==
    ASSUME NEW e \in Frame, NEW s, Carries(e, s)
    PROVE  e.data \in Chunk
  BY DEF Frame, Carries, OutputFrame, ExitFrame, ChildEvent

\* d lists the pieces of stream s among the first n entries of the queue q.
Lists(d, q, s, n) ==
    /\ d[0] = <<>>
    /\ \A i \in 1..n : d[i] = IF Carries(q[i], s) THEN Append(d[i - 1], q[i].data)
                              ELSE d[i - 1]

\* There is such a list, up to every n: longest first, none could be missing.
LEMMA ListExists ==
    ASSUME NEW q \in Seq(Frame), NEW s
    PROVE  \A n \in 0..Len(q) : \E d \in [0..n -> Seq(Chunk)] : Lists(d, q, s, n)
  <1> DEFINE Bad == {n \in 0..Len(q) : ~
                    \E d \in [0..n -> Seq(Chunk)] : Lists(d, q, s, n)}
  <1>1. SUFFICES ASSUME Bad # {} PROVE FALSE
    OBVIOUS
  <1>2. Len(q) \in Nat /\ \A i \in 1..Len(q) : q[i] \in Frame
    BY LenProperties, ElementOfSeq
  <1>3. Bad \in SUBSET Nat
    BY <1>2
  <1>4. PICK m \in Bad : \A k \in Bad : m <= k
    <2> HIDE DEF Bad
    <2> QED  BY <1>1, <1>3, LeastNumber
  <1>5. m \in 0..Len(q) /\ ~ \E d \in [0..m -> Seq(Chunk)] : Lists(d, q, s, m)
    BY <1>4
  <1>6. CASE m = 0
    <2> DEFINE d == [i \in 0..0 |-> <<>>]
    <2>1. d \in [0..m -> Seq(Chunk)] /\ d[0] = <<>>
      BY <1>6
    <2>2. Lists(d, q, s, m)
      BY <1>6, <2>1 DEF Lists
    <2> QED  BY <1>5, <2>1, <2>2
  <1>7. CASE m # 0
    <2>1. m - 1 \in 0..Len(q) /\ m \in 1..Len(q) /\ ~ (m <= m - 1)
      BY <1>2, <1>5, <1>7
    <2>2. m - 1 \notin Bad
      BY <1>4, <2>1
    <2>3. PICK c \in [0..(m - 1) -> Seq(Chunk)] : Lists(c, q, s, m - 1)
      BY <2>1, <2>2
    <2> DEFINE last == IF Carries(q[m], s) THEN Append(c[m - 1], q[m].data)
                       ELSE c[m - 1]
               d == [i \in 0..m |-> IF i = m THEN last ELSE c[i]]
    <2>4. last \in Seq(Chunk)
      <3>1. c[m - 1] \in Seq(Chunk) /\ q[m] \in Frame
        BY <1>2, <2>1
      <3> QED  BY <3>1, FrameData, AppendProperties
    <2> HIDE DEF last
    <2>5. d \in [0..m -> Seq(Chunk)]
      BY <2>1, <2>4
    <2>6. /\ d[0] = c[0] /\ d[m] = last /\ d[m - 1] = c[m - 1]
          /\ \A i \in 1..(m - 1) : d[i] = c[i] /\ d[i - 1] = c[i - 1]
      BY <2>1, <1>2
    <2>7. Lists(d, q, s, m)
      <3> HIDE DEF d
      <3>1. d[0] = <<>>
        BY <2>3, <2>6, Zenon DEF Lists
      <3>2. d[m] = IF Carries(q[m], s) THEN Append(d[m - 1], q[m].data) ELSE d[m - 1]
        BY <2>6 DEF last
      <3>3. ASSUME NEW i \in 1..(m - 1)
            PROVE  d[i] = IF Carries(q[i], s) THEN Append(d[i - 1], q[i].data) ELSE d[i - 1]
        <4>1. c[i] = IF Carries(q[i], s) THEN Append(c[i - 1], q[i].data) ELSE c[i - 1]
          BY <2>3, Zenon DEF Lists
        <4> QED  BY <2>6, <4>1
      <3>4. \A i \in 1..m : i = m \/ i \in 1..(m - 1)
        BY <2>1
      <3> QED  BY <3>1, <3>2, <3>3, <3>4, Zenon DEF Lists
    <2> QED  BY <1>5, <2>5, <2>7
  <1> QED  BY <1>6, <1>7

\* Two queues with the same first n entries.
Same(p, q, n) == \A i \in 1..n : p[i] = q[i]

\* The list of a prefix is a prefix of the list.
LEMMA ListsAgree ==
    ASSUME NEW p, NEW q, NEW s, NEW n \in Nat, NEW c, NEW d,
           Lists(c, p, s, n), Lists(d, q, s, n), Same(p, q, n)
    PROVE  \A i \in 0..n : c[i] = d[i]
  <1> DEFINE Bad == {i \in 0..n : c[i] # d[i]}
  <1>1. SUFFICES ASSUME Bad # {} PROVE FALSE
    OBVIOUS
  <1>2. PICK m \in Bad : \A k \in Bad : m <= k
    <2>1. Bad \in SUBSET Nat
      OBVIOUS
    <2> HIDE DEF Bad
    <2> QED  BY <1>1, <2>1, LeastNumber
  <1>3. m \in 1..n /\ m - 1 \in 0..n /\ ~ (m <= m - 1)
    BY <1>2 DEF Lists
  <1>4. c[m - 1] = d[m - 1]
    BY <1>2, <1>3
  <1>5. c[m] = d[m]
    BY <1>3, <1>4 DEF Lists, Same
  <1> QED  BY <1>2, <1>5

\* DataUpTo is such a list: the function its definition asks for exists.
LEMMA DataListed ==
    ASSUME NEW q \in Seq(Frame), NEW s
    PROVE  /\ Lists(DataUpTo(q, s), q, s, Len(q))
           /\ \A i \in 0..Len(q) : DataUpTo(q, s)[i] \in Seq(Chunk)
  <1> DEFINE Step(d, i) ==
                IF i = 0 THEN <<>>
                ELSE IF Carries(q[i], s) THEN Append(d[i - 1], q[i].data)
                ELSE d[i - 1]
  <1>1. Len(q) \in Nat
    BY LenProperties
  <1>2. PICK d \in [0..Len(q) -> Seq(Chunk)] : Lists(d, q, s, Len(q))
    <2>1. Len(q) \in 0..Len(q)
      BY <1>1
    <2> QED  BY <2>1, ListExists, Zenon
  <1>3. \A i \in 0..Len(q) : d[i] = Step(d, i)
    <2>1. \A i \in 0..Len(q) : i = 0 \/ i \in 1..Len(q)
      BY <1>1
    <2> QED  BY <1>2, <2>1 DEF Lists
  <1>4. d = [i \in 0..Len(q) |-> Step(d, i)]
    <2> HIDE DEF Step
    <2> QED  BY <1>2, <1>3
  <1>5. DataUpTo(q, s) = [i \in 0..Len(q) |-> Step(DataUpTo(q, s), i)]
    BY <1>4, Zenon DEF DataUpTo
  <1>6. Lists(DataUpTo(q, s), q, s, Len(q))
    <2>1. \A i \in 0..Len(q) : DataUpTo(q, s)[i] = Step(DataUpTo(q, s), i)
      <3> HIDE DEF Step
      <3> QED  BY <1>5
    <2> QED  BY <1>1, <2>1 DEF Lists
  <1>7. \A i \in 0..Len(q) : DataUpTo(q, s)[i] = d[i]
    <2>1. Same(q, q, Len(q))
      BY DEF Same
    <2> QED  BY <1>1, <1>2, <1>6, <2>1, ListsAgree
  <1> QED  BY <1>1, <1>2, <1>6, <1>7

\* What one entry holds for s.
Own(e, s) == IF Carries(e, s) THEN <<e.data>> ELSE <<>>

\* What an entry put at the end of a queue adds to it.
LEMMA DataAppend ==
    ASSUME NEW q \in Seq(Frame), NEW e \in Frame, NEW s
    PROVE  /\ Data(q, s) \in Seq(Chunk)
           /\ Data(<<>>, s) = <<>>
           /\ Own(e, s) \in Seq(Chunk)
           /\ Data(Append(q, e), s) = Data(q, s) \o Own(e, s)
  <1>1. Len(q) \in Nat
    BY LenProperties
  <1>2. Data(q, s) \in Seq(Chunk)
    BY <1>1, DataListed DEF Data
  <1>3. Data(<<>>, s) = <<>>
    <2>1. <<>> \in Seq(Frame) /\ Len(<<>>) = 0
      BY EmptySeq
    <2>2. Lists(DataUpTo(<<>>, s), <<>>, s, 0)
      BY <2>1, DataListed
    <2> QED  BY <2>1, <2>2 DEF Data, Lists
  <1> DEFINE r == Append(q, e)
  <1>4. /\ r \in Seq(Frame) /\ Len(r) = Len(q) + 1
        /\ \A i \in 1..Len(q) : r[i] = q[i]
        /\ r[Len(q) + 1] = e
    BY AppendProperties
  <1> HIDE DEF r
  <1>5. Lists(DataUpTo(r, s), r, s, Len(q) + 1)
    BY <1>4, DataListed
  <1>6. Lists(DataUpTo(r, s), r, s, Len(q))
    BY <1>1, <1>5 DEF Lists
  <1>7. DataUpTo(r, s)[Len(q)] = Data(q, s)
    <2>1. Lists(DataUpTo(q, s), q, s, Len(q))
      BY DataListed
    <2>2. \A i \in 0..Len(q) : DataUpTo(r, s)[i] = DataUpTo(q, s)[i]
      <3>1. Len(q) \in Nat /\ Same(r, q, Len(q))
        BY <1>1, <1>4 DEF Same
      <3> DEFINE c == DataUpTo(r, s)
                 d == DataUpTo(q, s)
      <3>2. Lists(c, r, s, Len(q)) /\ Lists(d, q, s, Len(q))
        BY <1>6, <2>1
      <3> HIDE DEF c, d
      <3>3. \A i \in 0..Len(q) : c[i] = d[i]
        BY <3>1, <3>2, ListsAgree
      <3> QED  BY <3>3 DEF c, d
    <2> QED  BY <1>1, <2>2 DEF Data
  <1>8. Data(r, s) = IF Carries(e, s) THEN Append(Data(q, s), e.data) ELSE Data(q, s)
    BY <1>1, <1>4, <1>5, <1>7 DEF Lists, Data
  <1>9. Own(e, s) \in Seq(Chunk)
    BY FrameData DEF Own
  <1>10. Data(r, s) = Data(q, s) \o Own(e, s)
    <2>1. CASE Carries(e, s)
      <3>1. Data(r, s) = Append(Data(q, s), e.data) /\ Own(e, s) = <<e.data>>
        BY <1>8, <2>1 DEF Own
      <3> QED  BY <1>2, <2>1, <3>1, FrameData, AppendIsConcat
    <2>2. CASE ~Carries(e, s)
      <3>1. Data(r, s) = Data(q, s) /\ Own(e, s) = <<>>
        BY <1>8, <2>2 DEF Own
      <3> QED  BY <1>2, <3>1, ConcatEmptySeq
    <2> QED  BY <2>1, <2>2
  <1> QED  BY <1>2, <1>3, <1>9, <1>10 DEF r

\* What the entry at the head of a queue takes with it.
LEMMA DataTail ==
    ASSUME NEW q \in Seq(Frame), q # <<>>, NEW s
    PROVE  /\ Own(Head(q), s) \in Seq(Chunk)
           /\ Data(q, s) = Own(Head(q), s) \o Data(Tail(q), s)
  <1> DEFINE t == Tail(q)
             h == Own(Head(q), s)
             c == DataUpTo(q, s)
             d == DataUpTo(t, s)
             Bad == {i \in 0..Len(t) : c[i + 1] # h \o d[i]}
  <1>1. /\ Len(q) \in Nat \ {0} /\ Len(t) = Len(q) - 1 /\ t \in Seq(Frame)
        /\ \A i \in 1..Len(t) : t[i] = q[i + 1] /\ t[i] \in Frame
        /\ Head(q) = q[1] /\ Head(q) \in Frame
    BY EmptySeq, HeadTailProperties, ElementOfSeq
  <1>2. h \in Seq(Chunk)
    BY <1>1, FrameData DEF Own
  <1> HIDE DEF t
  <1>3. /\ Lists(c, q, s, Len(q)) /\ Lists(d, t, s, Len(t))
        /\ \A i \in 0..Len(t) : d[i] \in Seq(Chunk)
    BY <1>1, DataListed
  <1> HIDE DEF h, c, d
  <1>4. \A u \in Seq(Chunk), x \in Chunk : Append(h \o u, x) = h \o Append(u, x)
    BY <1>2, ConcatAppend, Zenon
  <1>5. SUFFICES ASSUME Bad # {} PROVE FALSE
    <2>1. SUFFICES ASSUME Bad = {} PROVE c[Len(q)] = h \o d[Len(t)]
      BY <1>2 DEF Data, h, c, d, t
    <2>2. Len(t) \in 0..Len(t) /\ Len(t) + 1 = Len(q)
      BY <1>1
    <2> QED  BY <2>1, <2>2
  <1>6. PICK m \in Bad : \A k \in Bad : m <= k
    <2>1. Bad \in SUBSET Nat
      OBVIOUS
    <2> HIDE DEF Bad
    <2> QED  BY <1>5, <2>1, LeastNumber
  <1>7. CASE m = 0
    <2>1. c[1] = IF Carries(Head(q), s) THEN Append(c[0], Head(q).data) ELSE c[0]
      <3>1. 1 \in 1..Len(q) /\ 1 - 1 = 0
        BY <1>1
      <3> QED  BY <1>1, <1>3, <3>1 DEF Lists
    <2>2. c[1] = h
      BY <1>3, <2>1 DEF Own, Lists, h
    <2>3. h \o d[0] = h
      BY <1>2, <1>3, ConcatEmptySeq DEF Lists
    <2> QED  BY <1>6, <1>7, <2>2, <2>3
  <1>8. CASE m # 0
    <2>1. /\ m \in 1..Len(t) /\ m - 1 \in 0..Len(t)
          /\ m + 1 \in 1..Len(q) /\ ~ (m <= m - 1)
      BY <1>1, <1>6, <1>8
    <2>2. c[m] = h \o d[m - 1]
      <3>1. m - 1 \notin Bad /\ (m - 1) + 1 = m
        BY <1>6, <2>1
      <3> QED  BY <2>1, <3>1
    <2>3. c[m + 1] = IF Carries(t[m], s) THEN Append(c[m], t[m].data) ELSE c[m]
      BY <1>1, <1>3, <2>1 DEF Lists
    <2>4. d[m] = IF Carries(t[m], s) THEN Append(d[m - 1], t[m].data) ELSE d[m - 1]
      BY <1>3, <2>1 DEF Lists
    <2>5. c[m + 1] = h \o d[m]
      <3>1. CASE Carries(t[m], s)
        <4>1. t[m].data \in Chunk /\ d[m - 1] \in Seq(Chunk)
          BY <1>1, <1>3, <2>1, <3>1, FrameData
        <4>2. Append(h \o d[m - 1], t[m].data) = h \o Append(d[m - 1], t[m].data)
          BY <1>4, <4>1
        <4> QED  BY <2>2, <2>3, <2>4, <3>1, <4>2
      <3>2. CASE ~Carries(t[m], s)
        BY <2>2, <2>3, <2>4, <3>2
      <3> QED  BY <3>1, <3>2
    <2> QED  BY <1>6, <2>5
  <1> QED  BY <1>7, <1>8

-----------------------------------------------------------------------------
(* The life of a call.                                                     *)

\* Before the process is spawned nothing is there for it to have left.
BeforeSpawn ==
    child = "none" =>
        /\ handler \in {"reading", "refusing", "spawning", "failing", "closed"}
        /\ \A s \in Stream : pump[s] = "idle" /\ written[s] = <<>> /\ pipe[s] = <<>>
        /\ \A s \in Stream : received[s] = <<>>
        /\ holders = {} /\ lines = <<>> /\ status = NoStatus /\ monitor = "absent"
        /\ events = <<>> /\ buffered = <<>> /\ closed = 0 /\ ~launched /\ ~failed

\* Once it is spawned the pumps run, the host side has its end of the pipes and,
\* until the process ends, no status.
AfterSpawn ==
    child # "none" =>
        /\ handler \notin {"reading", "refusing", "spawning"}
        /\ \A s \in Stream : pump[s] # "idle"
        /\ ~Profiled => launched
        /\ child # "exited" => status = NoStatus
        /\ child \in {"setup", "aborting", "relay"} => Profiled
        /\ Profiled /\ child # "exited" => "child" \in holders

\* Output is held back only while the launch is not decided.
HeldBack == failed \/ (launched /\ handler # "draining") => buffered = <<>>

\* A pump that has reported the end of its stream left nothing in the pipe, and
\* nobody can write to it any more.
Drained ==
    Listening => \A s \in Stream : pump[s] = "done" => pipe[s] = <<>> /\ holders = {}

\* The handler leaves the loop when it is over, and leaves a process whose pumps
\* still run only behind a client that vanished.
Abandoned ==
    /\ handler \in {"reaping", "joining"} => LoopDone
    /\ handler \in {"failing", "closed"} =>
            Gone \/ child = "none" \/ \A s \in Stream : pump[s] = "done"

\* A client that has not ended has no exit status, one that is gone reads no more.
ClientInv ==
    /\ client # "exited" => result = NoResult
    /\ Gone => wire = <<>>

LifeInv ==
    /\ BeforeSpawn /\ AfterSpawn
    /\ HeldBack /\ Drained /\ Abandoned
    /\ ClientInv

\* A connection just accepted: nothing has been spawned (src/daemon.rs).
LEMMA InitLife == Init => LifeInv
  BY DEF Init, LifeInv, BeforeSpawn, AfterSpawn, HeldBack, Drained, Abandoned,
         ClientInv, Listening, Gone

\* The steps of the client: it prints only once the command has been spawned.
LEMMA ClientLife ==
    ASSUME TypeInv, SilenceInv, LifeInv,
           ClientSend \/ ClientConnectFails \/ ClientKilled \/ Client
    PROVE  LifeInv'
  <1> USE DEF LifeInv, BeforeSpawn, AfterSpawn, HeldBack, Drained, Abandoned,
          ClientInv, Listening, Gone,
          guest, daemon, tasks, host, Leave, Profiled, LoopDone
  <1>1. CASE ClientSend
    BY <1>1 DEF ClientSend
  <1>2. CASE ClientConnectFails
    BY <1>2 DEF ClientConnectFails
  <1>3. CASE ClientKilled
    BY <1>3 DEF ClientKilled
  <1>4. CASE ClientPrints
    <2>1. launched
      BY <1>4, QueueMembers DEF ClientPrints, SilenceInv, SilentUntilStarted, TypeInv, TypeOK
    <2> QED  BY <1>4, <2>1 DEF ClientPrints
  <1>5. CASE ClientPrintFails
    BY <1>5 DEF ClientPrintFails
  <1>6. CASE ClientExits
    BY <1>6 DEF ClientExits
  <1>7. CASE ClientSeesEOF
    BY <1>7 DEF ClientSeesEOF
  <1> QED  BY <1>1, <1>2, <1>3, <1>4, <1>5, <1>6, <1>7 DEF Client

\* The steps of the handler.
LEMMA HandlerLife ==
    ASSUME TypeInv, SilenceInv, LifeInv, Handler
    PROVE  LifeInv'
  <1> USE DEF LifeInv, BeforeSpawn, AfterSpawn, HeldBack, Drained, Abandoned,
          ClientInv, Listening, Gone,
          guest, daemon, tasks, host, Leave, Profiled, LoopDone, Send, TypeInv, TypeOK
  <1>1. CASE RequestUnreadable
    BY <1>1 DEF RequestUnreadable
  <1>2. CASE ReadRequest
    BY <1>2 DEF ReadRequest
  <1>3. CASE Refuse
    BY <1>3 DEF Refuse
  <1>4. CASE SpawnFails
    BY <1>4 DEF SpawnFails
  <1>5. CASE Spawn
    BY <1>5 DEF Spawn
  <1>6. CASE HandleOutput
    BY <1>6 DEF HandleOutput
  <1>7. CASE HandleClosed
    BY <1>7 DEF HandleClosed
  <1>8. CASE HandleStarted
    BY <1>8 DEF HandleStarted
  <1>9. CASE HandleFailed
    BY <1>9 DEF HandleFailed
  <1>10. CASE DrainBuffered
    BY <1>10 DEF DrainBuffered
  <1>11. CASE WriteFails
    BY <1>11 DEF WriteFails, KillChild
  <1>12. CASE LeaveLoop
    BY <1>12 DEF LeaveLoop
  <1>13. CASE Reap
    BY <1>13 DEF Reap
  <1>14. CASE JoinTasks
    BY <1>14 DEF JoinTasks
  <1>15. CASE ReportFailure
    BY <1>15 DEF ReportFailure
  <1> QED
    BY <1>1, <1>2, <1>3, <1>4, <1>5, <1>6, <1>7, <1>8, <1>9, <1>10, <1>11, <1>12,
       <1>13, <1>14, <1>15
    DEF Handler

\* The steps of the tasks: a pump ends at the end of its stream, or unheard.
LEMMA TaskLife ==
    ASSUME TypeInv, SilenceInv, LifeInv, (\E s \in Stream : Pump(s)) \/ Monitor
    PROVE  LifeInv'
  <1> USE DEF LifeInv, BeforeSpawn, AfterSpawn, HeldBack, Drained, Abandoned,
          ClientInv, Listening, Gone,
          guest, daemon, tasks, host, Profiled, LoopDone, TypeInv, TypeOK
  <1>1. ASSUME NEW s \in Stream, PumpReads(s)
        PROVE  LifeInv'
    BY <1>1 DEF PumpReads
  <1>2. ASSUME NEW s \in Stream, PumpSeesEOF(s)
        PROVE  LifeInv'
    BY <1>2 DEF PumpSeesEOF
  <1>3. CASE MonitorReads
    BY <1>3 DEF MonitorReads
  <1>4. CASE MonitorSeesEOF
    BY <1>4 DEF MonitorSeesEOF
  <1> QED  BY <1>1, <1>2, <1>3, <1>4 DEF Pump, Monitor

\* The steps of the host process: it writes only while a pump reads.
LEMMA ProcessLife ==
    ASSUME TypeInv, LifeInv, Process
    PROVE  LifeInv'
  <1> USE DEF LifeInv, BeforeSpawn, AfterSpawn, HeldBack, Drained, Abandoned,
          ClientInv, Listening, Gone,
          guest, daemon, tasks, host, Profiled, LoopDone, TypeInv, TypeOK, Put
  <1>1. CASE LauncherGivesUp
    BY <1>1 DEF LauncherGivesUp
  <1>2. CASE LauncherExits
    BY <1>2 DEF LauncherExits
  <1>3. CASE LauncherStarts
    BY <1>3 DEF LauncherStarts
  <1>4. CASE RelayStarts
    BY <1>4 DEF RelayStarts
  <1>5. CASE RelayFails
    BY <1>5 DEF RelayFails
  <1>6. CASE CommandForks
    BY <1>6 DEF CommandForks
  <1>7. CASE CommandCloses
    BY <1>7 DEF CommandCloses
  <1>8. CASE CommandExits
    BY <1>8 DEF CommandExits
  <1>9. CASE BackgroundExits
    BY <1>9 DEF BackgroundExits
  <1>10. ASSUME NEW s \in Stream, LauncherWrites(s) PROVE LifeInv'
    BY <1>10 DEF LauncherWrites
  <1>11. ASSUME NEW s \in Stream, CommandWrites(s) PROVE LifeInv'
    BY <1>11 DEF CommandWrites
  <1> QED
    BY <1>1, <1>2, <1>3, <1>4, <1>5, <1>6, <1>7, <1>8, <1>9, <1>10, <1>11
    DEF Process

\* The phases of a call hang together: what is spawned, what still runs, what is
\* held back and what is over agree in every reachable state.
THEOREM LifeHolds == Spec => []LifeInv
  <1>1. ASSUME TypeInv, SilenceInv, LifeInv, [Next]_vars
        PROVE  LifeInv'
    <2>1. CASE Next
      BY <1>1, <2>1, ClientLife, HandlerLife, TaskLife, ProcessLife DEF Next
    <2>2. CASE UNCHANGED vars
      BY <1>1, <2>2
      DEF vars, guest, daemon, tasks, host, LifeInv, BeforeSpawn, AfterSpawn,
          HeldBack, Drained, Abandoned, ClientInv, Listening, Gone, LoopDone, Profiled
    <2> QED  BY <1>1, <2>1, <2>2
  <1> QED  BY InitLife, <1>1, TypesHold, SilenceHolds, PTL DEF Spec

-----------------------------------------------------------------------------
(* What is left in the channel when the loop ends: nothing.                *)

\* The length of the channel after an event was put in or taken out, and where
\* its entries are then.
LEMMA ChannelSteps ==
    ASSUME TypeInv
    PROVE  /\ Len(events) \in Nat /\ DOMAIN events = 1..Len(events)
           /\ \A i \in 1..Len(events) : events[i] \in ChildEvent
           /\ \A e \in ChildEvent : events' = Append(events, e) =>
                /\ Len(events') = Len(events) + 1
                /\ DOMAIN events' = 1..(Len(events) + 1)
                /\ \A i \in 1..Len(events) : events'[i] = events[i]
                /\ events'[Len(events) + 1] = e
           /\ events # <<>> /\ events' = Tail(events) =>
                /\ Len(events) >= 1 /\ Head(events) = events[1]
                /\ Len(events') = Len(events) - 1
                /\ DOMAIN events' = 1..(Len(events) - 1)
                /\ \A i \in 1..(Len(events) - 1) : events'[i] = events[i + 1]
  <1>1. events \in Seq(ChildEvent)
    BY DEF TypeInv, TypeOK
  <1>2. /\ Len(events) \in Nat /\ DOMAIN events = 1..Len(events)
        /\ \A i \in 1..Len(events) : events[i] \in ChildEvent
    BY <1>1, LenProperties, ElementOfSeq
  <1>3. ASSUME NEW e \in ChildEvent, events' = Append(events, e)
        PROVE  /\ Len(events') = Len(events) + 1
               /\ DOMAIN events' = 1..(Len(events) + 1)
               /\ \A i \in 1..Len(events) : events'[i] = events[i]
               /\ events'[Len(events) + 1] = e
    <2>1. events' \in Seq(ChildEvent) /\ Len(events') = Len(events) + 1
      BY <1>1, <1>3, AppendProperties
    <2> QED  BY <1>1, <1>3, <2>1, AppendProperties, LenProperties
  <1>4. ASSUME events # <<>>, events' = Tail(events)
        PROVE  /\ Len(events) >= 1 /\ Head(events) = events[1]
               /\ Len(events') = Len(events) - 1
               /\ DOMAIN events' = 1..(Len(events) - 1)
               /\ \A i \in 1..(Len(events) - 1) : events'[i] = events[i + 1]
    <2>1. events' \in Seq(ChildEvent) /\ Len(events') = Len(events) - 1
      BY <1>1, <1>4, HeadTailProperties
    <2>2. Len(events) # 0
      BY <1>1, <1>4, EmptySeq
    <2> QED  BY <1>1, <1>2, <1>4, <2>1, <2>2, HeadTailProperties, LenProperties
  <1> QED  BY <1>2, <1>3, <1>4

Verdict == {"started", "failed"}

\* At most one verdict waits in the channel, and none once it is taken in.
SingleVerdict ==
    /\ \A i, j \in DOMAIN events :
            events[i].kind \in Verdict /\ events[j].kind \in Verdict => i = j
    /\ launched \/ failed => \A i \in DOMAIN events : events[i].kind \notin Verdict

\* tag[s] is the place in the channel of the end of stream s, 0 while there is none
\* or when it has been taken in.  Output of s is before it.
Tagged(tag) ==
    /\ \A s \in Stream : tag[s] # 0 =>
            /\ tag[s] \in DOMAIN events
            /\ events[tag[s]].kind = "closed"
            /\ pump[s] = "done"
    /\ \A i \in DOMAIN events : events[i].kind = "closed" => \E s \in Stream : tag[s] = i
    /\ tag["stdout"] = tag["stderr"] => tag["stdout"] = 0
    /\ \A s \in Stream : \A i \in DOMAIN events :
            pump[s] = "done" /\ Carries(events[i], s) => i < tag[s]
    /\ closed = (IF pump["stdout"] = "done" /\ tag["stdout"] = 0 THEN 1 ELSE 0) +
                (IF pump["stderr"] = "done" /\ tag["stderr"] = 0 THEN 1 ELSE 0)

\* The ends of the streams and the ends the handler has counted match.
EndsMatch == Listening => \E tag \in [Stream -> Nat] : Tagged(tag)

ChannelInv == SingleVerdict /\ EndsMatch

\* Nothing has been said before there is somebody to say it.
LEMMA InitChannel == Init => ChannelInv
  <1> SUFFICES ASSUME Init PROVE ChannelInv
    OBVIOUS
  <1>1. DOMAIN events = {} /\ ~Listening
    BY DEF Init, Listening
  <1> QED  BY <1>1 DEF ChannelInv, SingleVerdict, EndsMatch

\* A step that leaves channel and pumps alone, but for dropping the channel.
LEMMA ChannelIdle ==
    ASSUME ChannelInv, events' = events \/ events' = <<>>,
           UNCHANGED <<launched, failed>>,
           ~Listening' \/ (Listening /\ UNCHANGED <<events, pump, closed>>)
    PROVE  ChannelInv'
  <1>1. DOMAIN <<>> = {}
    OBVIOUS
  <1>2. SingleVerdict'
    BY <1>1 DEF ChannelInv, SingleVerdict
  <1>3. CASE ~Listening'
    BY <1>2, <1>3 DEF ChannelInv, EndsMatch
  <1>4. CASE Listening /\ UNCHANGED <<events, pump, closed>>
    <2>1. PICK tag \in [Stream -> Nat] : Tagged(tag)
      BY <1>4 DEF ChannelInv, EndsMatch
    <2>2. Tagged(tag)'
      BY <1>4, <2>1 DEF Tagged
    <2> QED  BY <1>2, <2>2 DEF ChannelInv, EndsMatch
  <1> QED  BY <1>3, <1>4

\* A step that takes the head of the channel in, and counts it if it is the end of
\* a stream.
LEMMA TakeTagged ==
    ASSUME TypeInv, Listening, EndsMatch, events # <<>>, events' = Tail(events),
           pump' = pump,
           closed' = closed + (IF Head(events).kind = "closed" THEN 1 ELSE 0)
    PROVE  EndsMatch'
  <1>1. PICK tag \in [Stream -> Nat] : Tagged(tag)
    BY DEF EndsMatch
  <1> DEFINE t == [s \in Stream |-> IF tag[s] = 0 THEN 0 ELSE tag[s] - 1]
  <1>2. t \in [Stream -> Nat]
    OBVIOUS
  <1>3. /\ Len(events) \in Nat /\ DOMAIN events = 1..Len(events)
        /\ Len(events) >= 1 /\ Head(events) = events[1]
        /\ DOMAIN events' = 1..(Len(events) - 1)
        /\ \A i \in 1..(Len(events) - 1) : events'[i] = events[i + 1]
    BY ChannelSteps
  <1>4. \A s \in Stream : tag[s] # 0 =>
            tag[s] \in 1..Len(events) /\ events[tag[s]].kind = "closed" /\ pump[s] = "done"
    BY <1>1, <1>3 DEF Tagged
  <1>5. \A s \in Stream : tag[s] = 1 <=> tag[s] # 0 /\ t[s] = 0
    BY <1>4
  <1>6. \A s \in Stream : t[s] # 0 =>
            t[s] \in DOMAIN events' /\ events'[t[s]].kind = "closed" /\ pump'[s] = "done"
    BY <1>3, <1>4
  <1>7. \A i \in DOMAIN events' : events'[i].kind = "closed" => \E s \in Stream : t[s] = i
    <2> TAKE i \in DOMAIN events'
    <2> HAVE events'[i].kind = "closed"
    <2>1. i + 1 \in DOMAIN events /\ events[i + 1].kind = "closed"
      BY <1>3
    <2>2. PICK s \in Stream : tag[s] = i + 1
      BY <1>1, <2>1 DEF Tagged
    <2>3. t[s] = i
      BY <1>3, <2>2
    <2> QED  BY <2>3
  <1>8. t["stdout"] = t["stderr"] => t["stdout"] = 0
    BY <1>1, <1>4 DEF Tagged, Stream
  <1>9. \A s \in Stream : \A i \in DOMAIN events' :
            pump'[s] = "done" /\ Carries(events'[i], s) => i < t[s]
    BY <1>1, <1>3, <1>4 DEF Tagged
  <1>10. closed' = (IF pump'["stdout"] = "done" /\ t["stdout"] = 0 THEN 1 ELSE 0) +
                   (IF pump'["stderr"] = "done" /\ t["stderr"] = 0 THEN 1 ELSE 0)
    <2>1. "stdout" \in Stream /\ "stderr" \in Stream
      BY DEF Stream
    <2>2. CASE Head(events).kind = "closed"
      <3>1. tag["stdout"] = 1 \/ tag["stderr"] = 1
        BY <1>1, <1>3, <2>2 DEF Tagged, Stream
      <3> QED  BY <1>1, <1>4, <1>5, <2>1, <2>2, <3>1 DEF Tagged
    <2>3. CASE Head(events).kind # "closed"
      <3>1. tag["stdout"] # 1 /\ tag["stderr"] # 1
        BY <1>3, <1>4, <2>1, <2>3
      <3> QED  BY <1>1, <1>5, <2>1, <2>3, <3>1 DEF Tagged
    <2> QED  BY <2>2, <2>3
  <1>11. Tagged(t)'
    <2> HIDE DEF t
    <2> QED  BY <1>6, <1>7, <1>8, <1>9, <1>10 DEF Tagged
  <1> QED  BY <1>2, <1>11 DEF EndsMatch

\* An event that is not the end of a stream is put in the channel: output of a
\* stream that is read, or a verdict.
LEMMA TellTagged ==
    ASSUME TypeInv, EndsMatch, NEW e \in ChildEvent, e.kind # "closed",
           \A s \in Stream : Carries(e, s) => pump[s] # "done",
           events' = Append(events, e), UNCHANGED <<pump, closed, handler>>
    PROVE  EndsMatch'
  <1> SUFFICES ASSUME Listening PROVE EndsMatch'
    BY DEF EndsMatch, Listening
  <1>1. PICK tag \in [Stream -> Nat] : Tagged(tag)
    BY DEF EndsMatch
  <1>2. /\ Len(events) \in Nat /\ DOMAIN events = 1..Len(events)
        /\ DOMAIN events' = 1..(Len(events) + 1)
        /\ \A i \in 1..Len(events) : events'[i] = events[i]
        /\ events'[Len(events) + 1] = e
    BY ChannelSteps
  <1>3. \A i \in DOMAIN events' : i \in DOMAIN events \/ i = Len(events) + 1
    BY <1>2
  <1>4. Tagged(tag)'
    BY <1>1, <1>2, <1>3 DEF Tagged
  <1> QED  BY <1>4 DEF EndsMatch

\* The end of stream s is put in the channel by the pump that saw it.
LEMMA EndTagged ==
    ASSUME TypeInv, Listening, EndsMatch, NEW s \in Stream, pump[s] = "reading",
           events' = Append(events, Event("closed")),
           pump' = [pump EXCEPT ![s] = "done"], UNCHANGED <<closed, handler>>
    PROVE  EndsMatch'
  <1>1. PICK tag \in [Stream -> Nat] : Tagged(tag)
    BY DEF EndsMatch
  <1>2. Event("closed") \in ChildEvent /\ Event("closed").kind = "closed"
    BY DEF Event, ChildEvent
  <1>l. Len(events) \in Nat /\ Len(events) + 1 \in Nat
    BY LenProperties DEF TypeInv, TypeOK
  <1>n. PICK n \in Nat : n = Len(events) + 1
    BY <1>l
  <1> DEFINE t == [tag EXCEPT ![s] = n]
  <1>3. /\ Len(events) \in Nat /\ DOMAIN events = 1..Len(events)
        /\ DOMAIN events' = 1..n
        /\ \A i \in 1..Len(events) : events'[i] = events[i]
        /\ events'[n] = Event("closed")
    BY <1>2, <1>n, ChannelSteps
  <1>4. \A i \in DOMAIN events' : (i \in DOMAIN events /\ i < n) \/ i = n
    BY <1>3, <1>n
  <1>5. tag[s] = 0 /\ t[s] = n /\ n # 0 /\ pump'[s] = "done"
    <2>1. tag[s] = 0
      BY <1>1 DEF Tagged
    <2>2. pump'[s] = "done"
      BY DEF TypeInv, TypeOK
    <2> QED  BY <1>1, <1>l, <1>n, <2>1, <2>2
  <1>6. \A r \in Stream : r # s => t[r] = tag[r] /\ pump'[r] = pump[r]
    BY <1>1 DEF TypeInv, TypeOK
  <1>7. \A r \in Stream : tag[r] # 0 => tag[r] \in DOMAIN events /\ tag[r] # n
    BY <1>1, <1>3, <1>n DEF Tagged
  <1>8. t \in [Stream -> Nat]
    BY <1>3
  <1> HIDE DEF t
  <1>9. \A r \in Stream : t[r] # 0 =>
            t[r] \in DOMAIN events' /\ events'[t[r]].kind = "closed" /\ pump'[r] = "done"
    BY <1>1, <1>2, <1>3, <1>5, <1>6, <1>7, <1>n DEF Tagged
  <1>10. \A i \in DOMAIN events' : events'[i].kind = "closed" => \E r \in Stream : t[r] = i
    <2> TAKE i \in DOMAIN events'
    <2> HAVE events'[i].kind = "closed"
    <2>1. CASE i = n
      BY <1>5, <2>1
    <2>2. CASE i \in DOMAIN events /\ i < n
      <3>1. events[i].kind = "closed" /\ i # 0
        BY <1>3, <2>2
      <3>2. PICK r \in Stream : tag[r] = i
        BY <1>1, <2>2, <3>1 DEF Tagged
      <3>3. t[r] = i
        BY <1>5, <1>6, <3>1, <3>2
      <3> QED  BY <3>3
    <2> QED  BY <1>4, <2>1, <2>2
  <1>11. t["stdout"] = t["stderr"] => t["stdout"] = 0
    BY <1>1, <1>5, <1>6, <1>7 DEF Tagged, Stream
  <1>12. \A r \in Stream : \A i \in DOMAIN events' :
            pump'[r] = "done" /\ Carries(events'[i], r) => i < t[r]
    <2> TAKE r \in Stream
    <2> TAKE i \in DOMAIN events'
    <2> HAVE pump'[r] = "done" /\ Carries(events'[i], r)
    <2>1. i \in DOMAIN events /\ i < n /\ Carries(events[i], r)
      <3>1. i # n
        BY <1>2, <1>3 DEF Carries
      <3> QED  BY <1>3, <1>4, <3>1
    <2> QED  BY <1>1, <1>5, <1>6, <2>1 DEF Tagged
  <1>13. closed' = (IF pump'["stdout"] = "done" /\ t["stdout"] = 0 THEN 1 ELSE 0) +
                   (IF pump'["stderr"] = "done" /\ t["stderr"] = 0 THEN 1 ELSE 0)
    BY <1>1, <1>5, <1>6 DEF Tagged, Stream
  <1>14. Tagged(t)'
    BY <1>9, <1>10, <1>11, <1>12, <1>13 DEF Tagged
  <1> QED  BY <1>8, <1>14 DEF EndsMatch

\* Taking the head of the channel in leaves at most one verdict, and none if it is
\* one itself.
LEMMA TakeVerdict ==
    ASSUME TypeInv, SingleVerdict, events # <<>>, events' = Tail(events),
           launched' \/ failed' => launched \/ failed \/ Head(events).kind \in Verdict
    PROVE  SingleVerdict'
  <1>1. /\ Len(events) \in Nat /\ DOMAIN events = 1..Len(events)
        /\ Len(events) >= 1 /\ Head(events) = events[1]
        /\ DOMAIN events' = 1..(Len(events) - 1)
        /\ \A i \in 1..(Len(events) - 1) : events'[i] = events[i + 1]
    BY ChannelSteps
  <1>2. \A i \in DOMAIN events' :
            /\ i + 1 \in DOMAIN events /\ i + 1 # 1 /\ events'[i] = events[i + 1]
            /\ \A j \in DOMAIN events' : i + 1 = j + 1 => i = j
    BY <1>1
  <1>3. 1 \in DOMAIN events
    BY <1>1
  <1>4. \A i, j \in DOMAIN events' :
            events'[i].kind \in Verdict /\ events'[j].kind \in Verdict => i = j
    BY <1>2 DEF SingleVerdict
  <1>5. launched' \/ failed' => \A i \in DOMAIN events' : events'[i].kind \notin Verdict
    BY <1>1, <1>2, <1>3 DEF SingleVerdict
  <1> QED  BY <1>4, <1>5 DEF SingleVerdict

\* An event is put in the channel; if it is a verdict it is the first one.
LEMMA TellVerdict ==
    ASSUME TypeInv, SingleVerdict, NEW e \in ChildEvent, events' = Append(events, e),
           UNCHANGED <<launched, failed>>,
           e.kind \in Verdict =>
                /\ ~launched /\ ~failed
                /\ \A i \in DOMAIN events : events[i].kind \notin Verdict
    PROVE  SingleVerdict'
  <1>1. /\ Len(events) \in Nat /\ DOMAIN events = 1..Len(events)
        /\ DOMAIN events' = 1..(Len(events) + 1)
        /\ \A i \in 1..Len(events) : events'[i] = events[i]
        /\ events'[Len(events) + 1] = e
    BY ChannelSteps
  <1>2. \A i \in DOMAIN events' :
            IF i \in DOMAIN events THEN events'[i] = events[i]
            ELSE events'[i] = e /\ i = Len(events) + 1
    BY <1>1
  <1> QED  BY <1>2 DEF SingleVerdict

\* The steps of the handler that take an event in.
LEMMA HandlerChannel ==
    ASSUME TypeInv, SilenceInv, LifeInv, ChannelInv, Handler
    PROVE  ChannelInv'
  <1> USE DEF guest, daemon, tasks, host
  <1>1. CASE \/ RequestUnreadable \/ ReadRequest \/ Refuse \/ SpawnFails
             \/ JoinTasks \/ ReportFailure \/ WriteFails
    <2>1. /\ UNCHANGED <<launched, failed, pump>> /\ ~Listening'
          /\ events' = events \/ events' = <<>>
      BY <1>1 DEF RequestUnreadable, ReadRequest, Refuse, SpawnFails, JoinTasks,
                  ReportFailure, WriteFails, Listening
    <2> QED  BY <2>1, ChannelIdle
  <1>2. CASE DrainBuffered \/ LeaveLoop \/ Reap
    <2>1. /\ UNCHANGED <<launched, failed, events, pump, closed>>
          /\ Listening
      BY <1>2 DEF DrainBuffered, LeaveLoop, Reap, Listening
    <2> QED  BY <2>1, ChannelIdle
  <1>3. CASE Spawn
    <2>1. /\ child = "none" /\ UNCHANGED <<failed, events, closed>>
          /\ pump' = [s \in Stream |-> "reading"]
      BY <1>3 DEF Spawn, LifeInv, AfterSpawn
    <2>2. events = <<>> /\ closed = 0
      BY <2>1 DEF LifeInv, BeforeSpawn
    <2>3. DOMAIN events' = {}
      BY <2>1, <2>2
    <2> DEFINE t == [s \in Stream |-> 0]
    <2>4. Tagged(t)'
      BY <2>1, <2>2, <2>3 DEF Tagged, Stream
    <2> QED  BY <2>3, <2>4 DEF ChannelInv, SingleVerdict, EndsMatch
  <1>4. CASE HandleOutput \/ HandleClosed \/ HandleStarted \/ HandleFailed
    <2>1. /\ Listening /\ pump' = pump
          /\ events # <<>> /\ events' = Tail(events)
          /\ closed' = closed + (IF Head(events).kind = "closed" THEN 1 ELSE 0)
          /\ launched' \/ failed' =>
                launched \/ failed \/ Head(events).kind \in Verdict
      BY <1>4 DEF HandleOutput, HandleClosed, HandleStarted, HandleFailed, Listening,
                  Verdict, TypeInv, TypeOK
    <2>2. EndsMatch'
      BY <2>1, TakeTagged DEF ChannelInv
    <2>3. SingleVerdict'
      BY <2>1, TakeVerdict DEF ChannelInv
    <2> QED  BY <2>2, <2>3 DEF ChannelInv
  <1> QED  BY <1>1, <1>2, <1>3, <1>4 DEF Handler

\* The steps of the tasks, which put events in.
LEMMA TaskChannel ==
    ASSUME TypeInv, SilenceInv, ChannelInv, (\E s \in Stream : Pump(s)) \/ Monitor
    PROVE  ChannelInv'
  <1> USE DEF daemon
  <1>1. UNCHANGED <<launched, failed, closed, handler>>
    BY DEF Pump, PumpReads, PumpSeesEOF, Monitor, MonitorReads, MonitorSeesEOF
  <1>2. CASE ~Listening
    <2>1. events' = events /\ ~Listening'
      BY <1>1, <1>2 DEF Pump, PumpReads, PumpSeesEOF, Monitor, MonitorReads,
                        MonitorSeesEOF, Tell, Listening
    <2> QED  BY <1>1, <2>1, ChannelIdle
  <1>3. ASSUME Listening, NEW s \in Stream, PumpReads(s)
        PROVE  ChannelInv'
    <2> DEFINE e == Output(s, Head(pipe[s]))
    <2>1. /\ pump[s] = "reading" /\ UNCHANGED pump
          /\ events' = Append(events, e)
      BY <1>3 DEF PumpReads, Tell
    <2>2. Head(pipe[s]) \in Chunk
      BY <1>3, QueueSteps DEF PumpReads, TypeInv, TypeOK
    <2>3. e \in ChildEvent /\ e.kind = "output" /\ \A r \in Stream : Carries(e, r) => r = s
      BY <2>2 DEF Output, OutputFrame, ChildEvent, Carries
    <2> HIDE DEF e
    <2>4. EndsMatch'
      BY <1>1, <2>1, <2>3, TellTagged DEF ChannelInv
    <2>5. SingleVerdict'
      BY <1>1, <2>1, <2>3, TellVerdict DEF ChannelInv, Verdict
    <2> QED  BY <2>4, <2>5 DEF ChannelInv
  <1>4. ASSUME Listening, NEW s \in Stream, PumpSeesEOF(s)
        PROVE  ChannelInv'
    <2>1. /\ pump[s] = "reading" /\ pump' = [pump EXCEPT ![s] = "done"]
          /\ events' = Append(events, Event("closed"))
      BY <1>4 DEF PumpSeesEOF, Tell
    <2>2. Event("closed") \in ChildEvent /\ Event("closed").kind = "closed"
      BY DEF Event, ChildEvent
    <2>3. EndsMatch'
      BY <1>1, <1>4, <2>1, EndTagged DEF ChannelInv
    <2>4. SingleVerdict'
      BY <1>1, <2>1, <2>2, TellVerdict DEF ChannelInv, Verdict
    <2> QED  BY <2>3, <2>4 DEF ChannelInv
  <1>5. ASSUME Listening, Monitor
        PROVE  ChannelInv'
    <2>0. pump' = pump
      BY <1>5 DEF Monitor, MonitorReads, MonitorSeesEOF
    <2>1. CASE events' = events
      <3>1. Listening'
        BY <1>1, <1>5 DEF Listening
      <3> QED  BY <1>1, <1>5, <2>0, <2>1, ChannelIdle
    <2>2. CASE events' # events
      <3>1. /\ monitor = "watching"
            /\ \E k \in Verdict : events' = Append(events, Event(k))
        BY <1>5, <2>2 DEF Monitor, MonitorReads, MonitorSeesEOF, Tell, Verdict
      <3>2. PICK k \in Verdict : events' = Append(events, Event(k))
        BY <3>1
      <3>3. /\ Event(k) \in ChildEvent /\ Event(k).kind = k
            /\ k # "closed" /\ \A s : ~Carries(Event(k), s)
        BY DEF Event, ChildEvent, Verdict, Carries
      <3>4. /\ ~launched /\ ~failed
            /\ \A i \in DOMAIN events : events[i].kind \notin Verdict
        BY <3>1 DEF SilenceInv, OneVerdict, Waiting, Verdict
      <3>5. EndsMatch'
        BY <1>1, <2>0, <3>2, <3>3, TellTagged DEF ChannelInv
      <3>6. SingleVerdict'
        BY <1>1, <3>2, <3>3, <3>4, TellVerdict DEF ChannelInv
      <3> QED  BY <3>5, <3>6 DEF ChannelInv
    <2> QED  BY <2>1, <2>2
  <1> QED  BY <1>2, <1>3, <1>4, <1>5 DEF Pump

\* Client and host process have no part in the channel.
LEMMA OthersChannel ==
    ASSUME ChannelInv,
           ClientSend \/ ClientConnectFails \/ ClientKilled \/ Client \/ Process
    PROVE  ChannelInv'
  <1>1. UNCHANGED <<launched, failed, closed, handler, pump, events>>
    BY DEF Client, ClientSend, ClientConnectFails, ClientKilled, ClientPrints,
           ClientPrintFails, ClientExits, ClientSeesEOF, Process, LauncherGivesUp,
           LauncherExits, LauncherStarts, RelayStarts, RelayFails, CommandForks,
           CommandCloses, CommandExits, BackgroundExits, LauncherWrites,
           CommandWrites, daemon, tasks
  <1>2. Listening' <=> Listening
    BY <1>1 DEF Listening
  <1> QED  BY <1>1, <1>2, ChannelIdle

\* The verdict is given once, and the ends of the streams the handler has counted
\* and those still under way are those the pumps have seen.
THEOREM ChannelHolds == Spec => []ChannelInv
  <1>1. ASSUME TypeInv, SilenceInv, LifeInv, ChannelInv, [Next]_vars
        PROVE  ChannelInv'
    <2>1. CASE Next
      BY <1>1, <2>1, HandlerChannel, TaskChannel, OthersChannel DEF Next
    <2>2. CASE UNCHANGED vars
      <3>1. UNCHANGED <<launched, failed, closed, handler, pump, events>>
        BY <2>2 DEF vars, daemon, tasks
      <3>2. Listening' <=> Listening
        BY <3>1 DEF Listening
      <3> QED  BY <1>1, <3>1, <3>2, ChannelIdle
    <2> QED  BY <1>1, <2>1, <2>2
  <1> QED  BY InitChannel, <1>1, TypesHold, SilenceHolds, LifeHolds, PTL DEF Spec

\* When the condition that ends the loop holds, both pumps are done and the channel
\* is empty: no output can be behind the second end of stream, no end of stream
\* beyond the second, and no verdict behind the one that was taken in.
LEMMA NothingLeft ==
    ASSUME TypeInv, SilenceInv, ChannelInv, Listening, LoopDone
    PROVE  events = <<>> /\ \A s \in Stream : pump[s] = "done"
  <1>1. PICK tag \in [Stream -> Nat] : Tagged(tag)
    BY DEF ChannelInv, EndsMatch
  <1>2. \A s \in Stream : pump[s] = "done" /\ tag[s] = 0
    BY <1>1 DEF Tagged, Stream, LoopDone, TypeInv, TypeOK
  <1>3. events \in Seq(ChildEvent)
    BY DEF TypeInv, TypeOK
  <1>4. Len(events) \in Nat /\ DOMAIN events = 1..Len(events)
    BY <1>3, LenProperties
  <1>5. ASSUME NEW i \in DOMAIN events
        PROVE  FALSE
    <2>1. events[i] \in ChildEvent /\ i # 0
      BY <1>3, <1>4, <1>5, ElementOfSeq
    <2>2. CASE events[i].kind = "output"
      <3>1. events[i].stream \in Stream
        BY <2>1, <2>2 DEF ChildEvent, OutputFrame
      <3>2. i < 0
        BY <1>1, <1>2, <2>2, <3>1 DEF Tagged, Carries
      <3> QED  BY <1>4, <3>2
    <2>3. CASE events[i].kind = "closed"
      BY <1>1, <1>2, <2>1, <2>3 DEF Tagged
    <2>4. CASE events[i].kind \in Verdict
      <3>1. CASE Profiled
        BY <2>4, <3>1 DEF LoopDone, ChannelInv, SingleVerdict
      <3>2. CASE ~Profiled
        BY <2>4, <3>2 DEF SilenceInv, OneVerdict, Waiting, Verdict
      <3> QED  BY <3>1, <3>2
    <2>5. events[i].kind \in {"output", "closed"} \cup Verdict
      BY <2>1 DEF ChildEvent, OutputFrame, Verdict
    <2> QED  BY <2>2, <2>3, <2>4, <2>5
  <1>6. Len(events) = 0
    BY <1>4, <1>5
  <1> QED  BY <1>2, <1>3, <1>6, EmptySeq

-----------------------------------------------------------------------------
(* The exit frame comes last.                                              *)

\* The length of the connection after a frame was sent or read, and where its
\* frames are then.
LEMMA WireSteps ==
    ASSUME TypeInv
    PROVE  /\ Len(wire) \in Nat /\ DOMAIN wire = 1..Len(wire)
           /\ \A f \in OutputFrame \cup ExitFrame : wire' = Append(wire, f) =>
                /\ Len(wire') = Len(wire) + 1
                /\ DOMAIN wire' = 1..(Len(wire) + 1)
                /\ \A i \in 1..Len(wire) : wire'[i] = wire[i]
                /\ wire'[Len(wire) + 1] = f
           /\ wire # <<>> /\ wire' = Tail(wire) =>
                /\ Len(wire) >= 1 /\ Head(wire) = wire[1]
                /\ Len(wire') = Len(wire) - 1
                /\ DOMAIN wire' = 1..(Len(wire) - 1)
                /\ \A i \in 1..(Len(wire) - 1) : wire'[i] = wire[i + 1]
  <1> DEFINE S == OutputFrame \cup ExitFrame
  <1>1. wire \in Seq(S)
    BY DEF TypeInv, TypeOK
  <1> HIDE DEF S
  <1>2. Len(wire) \in Nat /\ DOMAIN wire = 1..Len(wire)
    BY <1>1, LenProperties
  <1>3. ASSUME NEW f \in S, wire' = Append(wire, f)
        PROVE  /\ Len(wire') = Len(wire) + 1
               /\ DOMAIN wire' = 1..(Len(wire) + 1)
               /\ \A i \in 1..Len(wire) : wire'[i] = wire[i]
               /\ wire'[Len(wire) + 1] = f
    <2>1. wire' \in Seq(S) /\ Len(wire') = Len(wire) + 1
      BY <1>1, <1>3, AppendProperties
    <2> QED  BY <1>1, <1>3, <2>1, AppendProperties, LenProperties
  <1>4. ASSUME wire # <<>>, wire' = Tail(wire)
        PROVE  /\ Len(wire) >= 1 /\ Head(wire) = wire[1]
               /\ Len(wire') = Len(wire) - 1
               /\ DOMAIN wire' = 1..(Len(wire) - 1)
               /\ \A i \in 1..(Len(wire) - 1) : wire'[i] = wire[i + 1]
    <2>1. wire' \in Seq(S) /\ Len(wire') = Len(wire) - 1
      BY <1>1, <1>4, HeadTailProperties
    <2>2. Len(wire) # 0
      BY <1>1, <1>4, EmptySeq
    <2> QED  BY <1>1, <1>2, <1>4, <2>1, <2>2, HeadTailProperties, LenProperties
  <1> QED  BY <1>2, <1>3, <1>4 DEF S

\* An exit frame is the last one, and its sender has nothing left to send.
ExitIsLast ==
    \A i \in DOMAIN wire : wire[i].kind = "exit" =>
        i = Len(wire) /\ handler \in {"joining", "closed"}

\* A step that sends nothing and, if the handler was done with its connection,
\* leaves it so.
LEMMA ExitIdle ==
    ASSUME ExitIsLast, wire' = wire \/ wire' = <<>>,
           handler \in {"joining", "closed"} => handler' \in {"joining", "closed"}
    PROVE  ExitIsLast'
  BY DEF ExitIsLast

\* A step that sends a frame: an exit frame only when it is done after it.
LEMMA ExitSend ==
    ASSUME TypeInv, ExitIsLast, NEW f \in OutputFrame \cup ExitFrame, Send(f),
           handler \notin {"joining", "closed"},
           f.kind = "exit" => handler' \in {"joining", "closed"}
    PROVE  ExitIsLast'
  <1>1. \A i \in DOMAIN wire : wire[i].kind # "exit"
    BY DEF ExitIsLast
  <1>2. CASE wire' = wire
    BY <1>1, <1>2 DEF ExitIsLast
  <1>3. CASE wire' = Append(wire, f)
    <2>1. /\ DOMAIN wire = 1..Len(wire) /\ Len(wire) \in Nat
          /\ Len(wire') = Len(wire) + 1 /\ DOMAIN wire' = 1..(Len(wire) + 1)
          /\ \A i \in 1..Len(wire) : wire'[i] = wire[i]
          /\ wire'[Len(wire) + 1] = f
      BY <1>3, WireSteps
    <2>2. \A i \in DOMAIN wire' : i \in DOMAIN wire \/ i = Len(wire')
      BY <2>1
    <2> QED  BY <1>1, <2>1, <2>2 DEF ExitIsLast
  <1> QED  BY <1>2, <1>3 DEF Send

\* The steps of the client.
LEMMA ClientExit ==
    ASSUME TypeInv, ExitIsLast,
           ClientSend \/ ClientConnectFails \/ ClientKilled \/ Client
    PROVE  ExitIsLast'
  <1>1. CASE ClientPrints
    <2>1. wire # <<>> /\ wire' = Tail(wire) /\ handler' = handler
      BY <1>1 DEF ClientPrints, daemon
    <2>2. /\ DOMAIN wire = 1..Len(wire) /\ Len(wire) \in Nat
          /\ Len(wire') = Len(wire) - 1 /\ DOMAIN wire' = 1..(Len(wire) - 1)
          /\ \A i \in 1..(Len(wire) - 1) : wire'[i] = wire[i + 1]
      BY <2>1, WireSteps
    <2>3. \A i \in DOMAIN wire' : i + 1 \in DOMAIN wire /\ wire'[i] = wire[i + 1]
      BY <2>2
    <2>4. \A i \in DOMAIN wire' : i + 1 = Len(wire) => i = Len(wire')
      BY <2>2
    <2> QED  BY <2>1, <2>3, <2>4 DEF ExitIsLast
  <1>2. CASE ~ClientPrints
    <2>1. handler' = handler /\ (wire' = wire \/ wire' = <<>>)
      BY <1>2 DEF Client, ClientSend, ClientConnectFails, ClientKilled,
                  ClientPrintFails, ClientExits, ClientSeesEOF, Leave, daemon
    <2> QED  BY <2>1, ExitIdle
  <1> QED  BY <1>1, <1>2

\* The steps of the handler.
LEMMA HandlerExit ==
    ASSUME TypeInv, ExitIsLast, Handler
    PROVE  ExitIsLast'
  <1>1. CASE \/ RequestUnreadable \/ ReadRequest \/ SpawnFails \/ Spawn
             \/ HandleClosed \/ HandleStarted \/ HandleFailed \/ WriteFails
             \/ LeaveLoop \/ JoinTasks
    <2>1. /\ wire' = wire
          /\ handler \in {"joining", "closed"} => handler' \in {"joining", "closed"}
      BY <1>1 DEF RequestUnreadable, ReadRequest, SpawnFails, Spawn, HandleClosed,
                  HandleStarted, HandleFailed, WriteFails, LeaveLoop, JoinTasks
    <2> QED  BY <2>1, ExitIdle
  <1>2. CASE Refuse \/ ReportFailure \/ Reap
    <2>1. /\ handler \notin {"joining", "closed"} /\ handler' \in {"joining", "closed"}
          /\ \E code \in Int : Send(Exit(code))
      BY <1>2, ConstantsOK DEF Refuse, ReportFailure, Reap, ExitCode, TypeInv, TypeOK
    <2>2. \A code \in Int : Exit(code) \in OutputFrame \cup ExitFrame
      BY DEF Exit, ExitFrame
    <2> QED  BY <2>1, <2>2, ExitSend
  <1>3. CASE HandleOutput
    <2>1. /\ handler = "relaying" /\ handler' = "relaying"
          /\ wire' = wire \/ Send(Head(events))
          /\ events # <<>> /\ Head(events).kind = "output"
      BY <1>3 DEF HandleOutput
    <2>2. Head(events) \in OutputFrame
      BY <2>1, HeadOfEvents
    <2> QED  BY <2>1, <2>2, ExitIdle, ExitSend
  <1>4. CASE DrainBuffered
    <2>1. /\ handler = "draining" /\ Send(Head(buffered)) /\ buffered # <<>>
      BY <1>4 DEF DrainBuffered, TypeInv
    <2>2. Head(buffered) \in OutputFrame
      BY <2>1, QueueSteps DEF TypeInv, TypeOK
    <2>3. Head(buffered).kind # "exit"
      BY <2>2 DEF OutputFrame
    <2> QED  BY <2>1, <2>2, <2>3, ExitSend
  <1> QED  BY <1>1, <1>2, <1>3, <1>4 DEF Handler

\* The tasks and the host process do not write to the connection.
LEMMA OthersExit ==
    ASSUME ExitIsLast, (\E s \in Stream : Pump(s)) \/ Monitor \/ Process
    PROVE  ExitIsLast'
  <1>1. UNCHANGED <<handler, wire>>
    BY DEF Pump, PumpReads, PumpSeesEOF, Monitor, MonitorReads, MonitorSeesEOF,
           Process, LauncherGivesUp, LauncherExits, LauncherStarts, RelayStarts,
           RelayFails, CommandForks, CommandCloses, CommandExits, BackgroundExits,
           LauncherWrites, CommandWrites, daemon
  <1> QED  BY <1>1, ExitIdle

\* Nothing follows an exit frame on the connection.
THEOREM ExitIsLastHolds == Spec => []ExitIsLast
  <1>1. Init => ExitIsLast
    BY DEF Init, ExitIsLast
  <1>2. ASSUME TypeInv, ExitIsLast, [Next]_vars
        PROVE  ExitIsLast'
    <2>1. CASE Next
      BY <1>2, <2>1, ClientExit, HandlerExit, OthersExit DEF Next
    <2>2. CASE UNCHANGED vars
      BY <1>2, <2>2, ExitIdle DEF vars, daemon
    <2> QED  BY <1>2, <2>1, <2>2
  <1> QED  BY <1>1, <1>2, TypesHold, PTL DEF Spec

\* The exit frame is sent once, after all output, and when it is sent nobody is
\* left who could write, and nothing waits in pipe, channel or buffer.
THEOREM ExitLast == Spec => []ExitComesLast
  <1>1. ASSUME TypeInv, SilenceInv, LifeInv, ChannelInv, ExitIsLast
        PROVE  ExitComesLast
    <2>1. ASSUME handler \in {"reaping", "joining"}
          PROVE  /\ holders = {} /\ buffered = <<>> /\ events = <<>>
                 /\ \A s \in Stream : pipe[s] = <<>>
      <3>1. Listening /\ LoopDone
        BY <1>1, <2>1 DEF Listening, LifeInv, Abandoned
      <3>2. events = <<>> /\ \A s \in Stream : pump[s] = "done"
        BY <1>1, <3>1, NothingLeft
      <3>3. holders = {} /\ \A s \in Stream : pipe[s] = <<>>
        BY <1>1, <3>1, <3>2 DEF LifeInv, Drained, Stream
      <3>4. child # "none"
        BY <1>1, <2>1 DEF LifeInv, BeforeSpawn
      <3>5. launched \/ failed
        BY <1>1, <3>1, <3>4 DEF LoopDone, LifeInv, AfterSpawn
      <3>6. buffered = <<>>
        BY <1>1, <2>1, <3>5 DEF LifeInv, HeldBack
      <3> QED  BY <3>2, <3>3, <3>6
    <2> QED  BY <1>1, <2>1 DEF ExitComesLast, ExitIsLast
  <1> QED
    BY <1>1, TypesHold, SilenceHolds, LifeHolds, ChannelHolds, ExitIsLastHolds, PTL

-----------------------------------------------------------------------------
(* Why a launch fails.                                                     *)

\* A launch that is given up, or about to be, is that of a launcher that ended with
\* a code of its own, not with 0.
Refused ==
    failed \/ Waiting("failed") => child = "exited" /\ status # 0

\* While the reader of the status pipe waits for its first line, that line says
\* child-pid, or the launcher still works, or it has ended without success.
Watching ==
    monitor = "watching" =>
        \/ lines # <<>> /\ Head(lines) = "child-pid"
        \/ child \in {"setup", "aborting"} /\ lines = <<>>
        \/ child = "exited" /\ status # 0

LaunchInv == Refused /\ Watching

\* A line more does not change which is the first.
LEMMA MoreLines ==
    ASSUME TypeInv, NEW l \in {"child-pid", "exit-code", "junk"},
           lines' = Append(lines, l)
    PROVE  /\ lines' # <<>>
           /\ lines # <<>> => Head(lines') = Head(lines)
           /\ lines = <<>> => Head(lines') = l
  <1> DEFINE S == {"child-pid", "exit-code", "junk"}
  <1>1. lines \in Seq(S)
    BY DEF TypeInv, TypeOK
  <1> HIDE DEF S
  <1>2. /\ lines' \in Seq(S) /\ Len(lines') = Len(lines) + 1
        /\ \A i \in 1..Len(lines) : lines'[i] = lines[i]
        /\ lines'[Len(lines) + 1] = l
    BY <1>1, AppendProperties DEF S
  <1>3. Len(lines) \in Nat /\ (lines = <<>> <=> Len(lines) = 0)
    BY <1>1, LenProperties, EmptySeq
  <1>4. Head(lines') = lines'[1] /\ (lines # <<>> => Head(lines) = lines[1])
    OBVIOUS
  <1>5. lines' # <<>>
    BY <1>2, <1>3, EmptySeq
  <1> QED  BY <1>2, <1>3, <1>4, <1>5

\* A step by which nobody hears of a failure, the status reader does not begin, and
\* lines and process stay what they are.
LEMMA LaunchIdle ==
    ASSUME LaunchInv, failed' \/ Waiting("failed")' => failed \/ Waiting("failed"),
           monitor' = "watching" => monitor = "watching",
           UNCHANGED <<lines, child, status>>
    PROVE  LaunchInv'
  BY DEF LaunchInv, Refused, Watching

\* The steps of the handler.
LEMMA HandlerLaunch ==
    ASSUME TypeInv, SilenceInv, LifeInv, LaunchInv, Handler
    PROVE  LaunchInv'
  <1> USE DEF guest, daemon, tasks, host
  <1>1. CASE Spawn
    <2>1. /\ child = "none" /\ handler = "spawning" /\ lines' = lines
          /\ UNCHANGED <<failed, events>> /\ handler' = "relaying"
          /\ monitor' = "watching" => child' = "setup"
      BY <1>1 DEF Spawn, LifeInv, AfterSpawn
    <2>2. lines = <<>> /\ ~failed /\ ~Waiting("failed")
      BY <2>1 DEF LifeInv, BeforeSpawn, SilenceInv, OneVerdict
    <2> QED  BY <2>1, <2>2 DEF LaunchInv, Refused, Watching, Waiting
  <1>2. CASE WriteFails
    <2>1. events' = <<>> /\ UNCHANGED <<failed, monitor>> /\ KillChild
      BY <1>2 DEF WriteFails
    <2>2. ~Waiting("failed")'
      <3>1. DOMAIN events' = {}
        BY <2>1
      <3> QED  BY <3>1 DEF Waiting
    <2>3. CASE child \in {"none", "exited"}
      <3>1. UNCHANGED <<lines, child, status>>
        BY <2>1, <2>3 DEF KillChild
      <3> QED  BY <2>1, <2>2, <3>1, LaunchIdle
    <2>4. CASE child \notin {"none", "exited"}
      <3>1. child' = "exited" /\ status' = Signalled /\ Signalled # 0
        BY <2>1, <2>4, ConstantsOK DEF KillChild
      <3> QED  BY <2>1, <2>2, <3>1 DEF LaunchInv, Refused, Watching
    <2> QED  BY <2>3, <2>4
  <1>3. CASE HandleOutput \/ HandleClosed \/ HandleStarted \/ HandleFailed
    <2>1. /\ UNCHANGED <<monitor, lines, child, status>>
          /\ events # <<>> /\ events' = Tail(events)
          /\ failed' => failed \/ Head(events).kind = "failed"
      BY <1>3 DEF HandleOutput, HandleClosed, HandleStarted, HandleFailed
    <2>2. /\ Waiting("failed")' => Waiting("failed")
          /\ Head(events).kind = "failed" => Waiting("failed")
      BY <2>1, TakeWaiting
    <2> QED  BY <2>1, <2>2, LaunchIdle
  <1>4. CASE \/ RequestUnreadable \/ ReadRequest \/ Refuse \/ SpawnFails
             \/ DrainBuffered \/ LeaveLoop \/ Reap \/ JoinTasks \/ ReportFailure
    <2>1. UNCHANGED <<monitor, lines, child, status, failed, events>>
      BY <1>4 DEF RequestUnreadable, ReadRequest, Refuse, SpawnFails, DrainBuffered,
                  LeaveLoop, Reap, JoinTasks, ReportFailure
    <2> QED  BY <2>1, LaunchIdle DEF Waiting
  <1> QED  BY <1>1, <1>2, <1>3, <1>4 DEF Handler

\* The steps of the tasks: a launch fails on a first line that is not child-pid or
\* on the end of a pipe without a line.
LEMMA TaskLaunch ==
    ASSUME TypeInv, LaunchInv, (\E s \in Stream : Pump(s)) \/ Monitor
    PROVE  LaunchInv'
  <1>1. UNCHANGED <<failed, child, status>>
    BY DEF Pump, PumpReads, PumpSeesEOF, Monitor, MonitorReads, MonitorSeesEOF,
           daemon, host
  <1>2. CASE \E s \in Stream : Pump(s)
    <2>1. PICK s \in Stream : PumpReads(s) \/ PumpSeesEOF(s)
      BY <1>2 DEF Pump
    <2>2. UNCHANGED <<monitor, lines>>
      BY <2>1 DEF PumpReads, PumpSeesEOF, host
    <2>3. PICK e \in ChildEvent : Tell(e) /\ e.kind # "failed"
      <3>1. CASE PumpReads(s)
        <4>1. Head(pipe[s]) \in Chunk
          BY <3>1, QueueSteps DEF PumpReads, TypeInv, TypeOK
        <4>2. /\ Output(s, Head(pipe[s])) \in ChildEvent
              /\ Output(s, Head(pipe[s])).kind # "failed"
          BY <4>1 DEF Output, OutputFrame, ChildEvent
        <4> QED  BY <3>1, <4>2 DEF PumpReads
      <3>2. CASE PumpSeesEOF(s)
        <4>1. Event("closed") \in ChildEvent /\ Event("closed").kind # "failed"
          BY DEF Event, ChildEvent
        <4> QED  BY <3>2, <4>1 DEF PumpSeesEOF
      <3> QED  BY <2>1, <3>1, <3>2
    <2>4. Waiting("failed")' => Waiting("failed")
      BY <2>3, TellWaiting
    <2> QED  BY <1>1, <2>2, <2>4, LaunchIdle
  <1>3. CASE Monitor
    <2>1. monitor' \in {"started", "done"}
      BY <1>3 DEF Monitor, MonitorReads, MonitorSeesEOF
    <2>2. CASE events' = events
      BY <1>1, <2>1, <2>2 DEF LaunchInv, Refused, Watching, Waiting
    <2>3. CASE Tell(Event("started"))
      <3>1. Event("started") \in ChildEvent /\ Event("started").kind # "failed"
        BY DEF Event, ChildEvent
      <3>2. Waiting("failed")' => Waiting("failed")
        BY <2>3, <3>1, TellWaiting
      <3> QED  BY <1>1, <2>1, <3>2 DEF LaunchInv, Refused, Watching
    <2>4. CASE /\ monitor = "watching" /\ Tell(Event("failed"))
               /\ \/ lines = <<>> /\ child = "exited"
                  \/ lines # <<>> /\ Head(lines) # "child-pid"
      <3>1. child = "exited" /\ status # 0
        BY <2>4 DEF LaunchInv, Watching
      <3> QED  BY <1>1, <2>1, <3>1 DEF LaunchInv, Refused, Watching
    <2>5. CASE MonitorReads
      <3>1. \/ events' = events \/ Tell(Event("started"))
            \/ /\ monitor = "watching" /\ Tell(Event("failed"))
               /\ lines # <<>> /\ Head(lines) # "child-pid"
        BY <2>5 DEF MonitorReads
      <3> QED  BY <2>2, <2>3, <2>4, <3>1
    <2>6. CASE MonitorSeesEOF
      BY <2>2, <2>4, <2>6 DEF MonitorSeesEOF
    <2> QED  BY <1>3, <2>5, <2>6 DEF Monitor
  <1> QED  BY <1>2, <1>3

\* The steps of the host process: bwrap reports child-pid before anything that can
\* end with 0 runs.
LEMMA ProcessLaunch ==
    ASSUME TypeInv, LaunchInv, Process
    PROVE  LaunchInv'
  <1>1. UNCHANGED <<failed, monitor, events>>
    BY DEF Process, LauncherGivesUp, LauncherExits, LauncherStarts, RelayStarts,
           RelayFails, CommandForks, CommandCloses, CommandExits, BackgroundExits,
           LauncherWrites, CommandWrites, daemon, tasks
  <1>2. CASE LauncherGivesUp \/ RelayStarts
    BY <1>1, <1>2 DEF LauncherGivesUp, RelayStarts, LaunchInv, Refused, Watching, Waiting
  <1>3. CASE LauncherExits
    <2>1. child' = "exited" /\ status' # 0
      BY <1>3 DEF LauncherExits
    <2> QED  BY <1>1, <2>1 DEF LaunchInv, Refused, Watching
  <1>4. CASE LauncherStarts
    <2>1. child = "setup" /\ lines' = Append(lines, "child-pid")
      BY <1>4 DEF LauncherStarts
    <2>2. /\ lines' # <<>>
          /\ lines # <<>> => Head(lines') = Head(lines)
          /\ lines = <<>> => Head(lines') = "child-pid"
      BY <2>1, MoreLines
    <2> QED  BY <1>1, <2>1, <2>2 DEF LaunchInv, Refused, Watching, Waiting
  <1>5. CASE RelayFails \/ CommandExits
    <2>1. /\ child \in {"relay", "running"}
          /\ lines' = lines \/ lines' = Append(lines, "exit-code")
      BY <1>5 DEF RelayFails, CommandExits
    <2>2. lines # <<>> => lines' # <<>> /\ Head(lines') = Head(lines)
      BY <2>1, MoreLines
    <2> QED  BY <1>1, <2>1, <2>2 DEF LaunchInv, Refused, Watching, Waiting
  <1>6. CASE \/ CommandForks \/ CommandCloses \/ BackgroundExits
             \/ \E s \in Stream : LauncherWrites(s) \/ CommandWrites(s)
    <2>1. UNCHANGED <<lines, child, status>>
      BY <1>6 DEF CommandForks, CommandCloses, BackgroundExits, LauncherWrites,
                  CommandWrites
    <2> QED  BY <1>1, <2>1, LaunchIdle DEF Waiting
  <1> QED  BY <1>2, <1>3, <1>4, <1>5, <1>6 DEF Process

\* A launch is taken for failed only when the launcher ended without success, in
\* whatever order it writes, ends and is heard.
THEOREM LaunchHolds == Spec => []LaunchInv
  <1>1. Init => LaunchInv
    <2> SUFFICES ASSUME Init PROVE LaunchInv
      OBVIOUS
    <2>1. DOMAIN events = {}
      BY DEF Init
    <2> QED  BY <2>1 DEF Init, LaunchInv, Refused, Watching, Waiting
  <1>2. ASSUME TypeInv, SilenceInv, LifeInv, LaunchInv, [Next]_vars
        PROVE  LaunchInv'
    <2>1. CASE ClientSend \/ ClientConnectFails \/ ClientKilled \/ Client
      <3>1. UNCHANGED <<failed, monitor, events, lines, child, status>>
        BY <2>1 DEF Client, ClientSend, ClientConnectFails, ClientKilled, ClientPrints,
           ClientPrintFails, ClientExits, ClientSeesEOF, daemon, tasks, host
      <3> QED  BY <1>2, <3>1, LaunchIdle DEF Waiting
    <2>2. CASE UNCHANGED vars
      BY <1>2, <2>2, LaunchIdle DEF vars, daemon, tasks, host, Waiting
    <2> QED  BY <1>2, <2>1, <2>2, HandlerLaunch, TaskLaunch, ProcessLaunch DEF Next
  <1> QED  BY <1>1, <1>2, TypesHold, SilenceHolds, LifeHolds, PTL DEF Spec

-----------------------------------------------------------------------------
(* Output is conserved.                                                    *)

\* h leaves the head of h \o c and joins the end of a, or of a \o b: the whole is
\* what it was.
Moves(a, h, c) == a \o (h \o c) = (a \o h) \o c
MovesOn(a, b, h, c) == (a \o b) \o (h \o c) = (a \o (b \o h)) \o c

\* Concatenation as an operator the provers do not look into.
Cat(s, t) == s \o t

LEMMA CatAssociative ==
    ASSUME NEW s \in Seq(Chunk), NEW t \in Seq(Chunk), NEW u \in Seq(Chunk)
    PROVE  Cat(s, t) \in Seq(Chunk) /\ Cat(Cat(s, t), u) = Cat(s, Cat(t, u))
  <1>1. s \o t \in Seq(Chunk)
    BY ConcatProperties
  <1>2. (s \o t) \o u = s \o (t \o u)
    BY ConcatAssociative
  <1> QED  BY <1>1, <1>2, Zenon DEF Cat

\* What leaves the head of a queue and joins the end of the one before it stays in
\* its place in the whole.
LEMMA Handover ==
    ASSUME NEW a \in Seq(Chunk), NEW b \in Seq(Chunk), NEW h \in Seq(Chunk),
           NEW c \in Seq(Chunk)
    PROVE  Moves(a, h, c) /\ MovesOn(a, b, h, c)
  <1>1. Cat(a, Cat(h, c)) = Cat(Cat(a, h), c)
    BY CatAssociative
  <1>2. Cat(Cat(a, b), Cat(h, c)) = Cat(Cat(Cat(a, b), h), c)
    BY CatAssociative
  <1>3. Cat(Cat(a, b), h) = Cat(a, Cat(b, h))
    BY CatAssociative
  <1>4. Moves(a, h, c)
    BY <1>1, Zenon DEF Moves, Cat
  <1>5. MovesOn(a, b, h, c)
    BY <1>2, <1>3, Zenon DEF MovesOn, Cat
  <1> QED  BY <1>4, <1>5

\* What is between the process and the terminal of the caller, and its types.
LEMMA PassageTypes ==
    ASSUME TypeInv, NEW s \in Stream
    PROVE  /\ wire \in Seq(Frame) /\ buffered \in Seq(Frame) /\ events \in Seq(Frame)
           /\ Data(wire, s) \in Seq(Chunk) /\ Data(buffered, s) \in Seq(Chunk)
           /\ Data(events, s) \in Seq(Chunk)
           /\ received[s] \in Seq(Chunk) /\ pipe[s] \in Seq(Chunk)
           /\ written[s] \in Seq(Chunk)
           /\ received[s] \o Data(wire, s) \in Seq(Chunk)
           /\ received[s] \o Data(wire, s) \o Data(buffered, s) \in Seq(Chunk)
           /\ received[s] \o Data(wire, s) \o Data(buffered, s) \o Data(events, s)
                \in Seq(Chunk)
  <1>1. wire \in Seq(Frame) /\ buffered \in Seq(Frame) /\ events \in Seq(Frame)
    <2>1. /\ OutputFrame \subseteq Frame /\ ChildEvent \subseteq Frame
          /\ OutputFrame \cup ExitFrame \subseteq Frame
      BY DEF Frame
    <2> QED  BY <2>1, SeqMonotonic DEF TypeInv, TypeOK
  <1>2. \A q \in Seq(Frame) : Data(q, s) \in Seq(Chunk)
    <2>1. [kind |-> "closed"] \in Frame
      BY DEF Frame, ChildEvent
    <2> QED  BY <2>1, DataAppend
  <1>3. /\ received[s] \in Seq(Chunk) /\ pipe[s] \in Seq(Chunk)
        /\ written[s] \in Seq(Chunk)
    BY DEF TypeInv, TypeOK
  <1>4. /\ Data(wire, s) \in Seq(Chunk) /\ Data(buffered, s) \in Seq(Chunk)
        /\ Data(events, s) \in Seq(Chunk)
    BY <1>1, <1>2
  <1>5. received[s] \o Data(wire, s) \in Seq(Chunk)
    BY <1>3, <1>4, ConcatProperties
  <1>6. received[s] \o Data(wire, s) \o Data(buffered, s) \in Seq(Chunk)
    BY <1>4, <1>5, ConcatProperties
  <1>7. received[s] \o Data(wire, s) \o Data(buffered, s) \o Data(events, s) \in Seq(Chunk)
    BY <1>4, <1>6, ConcatProperties
  <1> QED  BY <1>1, <1>3, <1>4, <1>5, <1>6, <1>7

\* Sending e to a client that is there, or telling the handler of it, adds to the
\* passage what e holds.
LEMMA DataSteps ==
    ASSUME NEW q \in Seq(Frame), NEW s
    PROVE  /\ \A e \in Frame : Data(Append(q, e), s) = Data(q, s) \o Own(e, s)
           /\ q # <<>> => Data(q, s) = Own(Head(q), s) \o Data(Tail(q), s)
           /\ q # <<>> => Tail(q) \in Seq(Frame) /\ Head(q) \in Frame
           /\ q # <<>> => Own(Head(q), s) \in Seq(Chunk)
  <1>1. q # <<>> => Tail(q) \in Seq(Frame) /\ Head(q) \in Frame
    BY HeadTailProperties
  <1> QED  BY <1>1, DataAppend, DataTail

\* Without output there are no data.
LEMMA OwnNothing ==
    ASSUME NEW e, e.kind # "output", NEW s
    PROVE  Own(e, s) = <<>>
  BY DEF Own, Carries

\* A step that leaves the queues and the history alone.
LEMMA FlowIdle ==
    ASSUME OutputConserved, UNCHANGED <<received, wire, buffered, events, pipe, written>>,
           Gone => Gone', failed => failed'
    PROVE  OutputConserved'
  BY DEF OutputConserved

\* The client prints what is at the head of the connection: what it printed and what
\* is still to be read make up the same.
LEMMA PrintMoves ==
    ASSUME TypeInv, ClientPrints, NEW s \in Stream
    PROVE  received[s] \o Data(wire, s) = received'[s] \o Data(wire', s)
  <1> DEFINE h == Own(Head(wire), s)
  <1>1. /\ wire # <<>> /\ Head(wire).kind = "output" /\ wire' = Tail(wire)
        /\ received' = [received EXCEPT ![Head(wire).stream] = Append(@, Head(wire).data)]
    BY DEF ClientPrints
  <1>2. received[s] \in Seq(Chunk) /\ wire \in Seq(Frame)
    BY PassageTypes
  <1>3. /\ h \in Seq(Chunk) /\ Data(wire, s) = h \o Data(wire', s)
        /\ Head(wire) \in Frame /\ wire' \in Seq(Frame)
    BY <1>1, <1>2, DataSteps
  <1>4. Data(wire', s) \in Seq(Chunk)
    BY <1>3, DataAppend
  <1>5. received'[s] = received[s] \o h
    <2>1. CASE Head(wire).stream = s
      <3>1. Carries(Head(wire), s) /\ Head(wire).data \in Chunk
        BY <1>1, <1>3, <2>1, FrameData DEF Carries
      <3>2. received'[s] = Append(received[s], Head(wire).data)
        BY <1>1, <2>1 DEF TypeInv, TypeOK
      <3>3. h = <<Head(wire).data>>
        BY <3>1 DEF Own
      <3> QED  BY <1>2, <3>1, <3>2, <3>3, AppendIsConcat
    <2>2. CASE Head(wire).stream # s
      <3>1. received'[s] = received[s]
        BY <1>1, <2>2 DEF TypeInv, TypeOK
      <3>2. h = <<>>
        BY <2>2 DEF Own, Carries
      <3> QED  BY <1>2, <3>1, <3>2, ConcatEmptySeq
    <2> QED  BY <2>1, <2>2
  <1> HIDE DEF h
  <1>6. Moves(received[s], h, Data(wire', s))
    BY <1>2, <1>3, <1>4, Handover
  <1> QED  BY <1>3, <1>5, <1>6 DEF Moves

\* ... and nothing between the process and the terminal is lost or added.
LEMMA PrintFlow ==
    ASSUME TypeInv, OutputConserved, ClientPrints
    PROVE  OutputConserved'
  <1>1. UNCHANGED <<client, failed, buffered, events, pipe, written>>
    BY DEF ClientPrints, daemon, host
  <1>2. \A s \in Stream : received[s] \o Data(wire, s) = received'[s] \o Data(wire', s)
    BY PrintMoves
  <1> QED  BY <1>1, <1>2 DEF OutputConserved, Gone

\* The handler takes output from its channel.
LEMMA OutputFlow ==
    ASSUME TypeInv, LifeInv, OutputConserved, HandleOutput
    PROVE  OutputConserved'
  <1>1. /\ UNCHANGED <<client, received, failed, pipe, written, launched>>
        /\ handler = "relaying" /\ events # <<>> /\ events' = Tail(events)
    BY DEF HandleOutput, guest, host
  <1> SUFFICES ASSUME ~Gone, ~failed, NEW s \in Stream
               PROVE  written[s] = received[s] \o Data(wire', s) \o Data(buffered', s)
                                        \o Data(events', s) \o pipe[s]
    BY <1>1 DEF OutputConserved, Gone
  <1> DEFINE h == Own(Head(events), s)
             x == received[s] \o Data(wire, s)
             D == Data(events', s)
  <1>2. /\ wire \in Seq(Frame) /\ buffered \in Seq(Frame) /\ events \in Seq(Frame)
        /\ received[s] \in Seq(Chunk) /\ Data(wire, s) \in Seq(Chunk)
        /\ Data(buffered, s) \in Seq(Chunk) /\ x \in Seq(Chunk)
    BY PassageTypes
  <1>3. /\ h \in Seq(Chunk) /\ Data(events, s) = h \o D
        /\ Head(events) \in Frame /\ events' \in Seq(Frame)
    BY <1>1, <1>2, DataSteps
  <1>4. D \in Seq(Chunk)
    BY <1>3, DataAppend
  <1>5. written[s] = x \o Data(buffered, s) \o (h \o D) \o pipe[s]
    BY <1>3 DEF OutputConserved
  <1>6. CASE launched
    <2>1. wire' = Append(wire, Head(events)) /\ buffered' = buffered /\ buffered = <<>>
      BY <1>1, <1>6 DEF HandleOutput, Send, LifeInv, HeldBack
    <2>2. Data(wire', s) = Data(wire, s) \o h
      BY <1>2, <1>3, <2>1, DataSteps
    <2>3. Data(buffered, s) = <<>> /\ Data(buffered', s) = <<>>
      BY <1>2, <1>3, <2>1, DataAppend
    <2>4. x \o <<>> = x
      BY <1>2, ConcatEmptySeq
    <2>5. received[s] \o Data(wire', s) \in Seq(Chunk)
      BY <1>2, <1>3, <2>2, ConcatProperties
    <2>6. (received[s] \o Data(wire', s)) \o <<>> = received[s] \o Data(wire', s)
      BY <2>5, ConcatEmptySeq
    <2> HIDE DEF h, D
    <2>7. MovesOn(received[s], Data(wire, s), h, D)
      BY <1>2, <1>3, <1>4, Handover
    <2> QED  BY <1>5, <2>2, <2>3, <2>4, <2>6, <2>7 DEF D, MovesOn
  <1>7. CASE ~launched
    <2>1. wire' = wire /\ buffered' = Append(buffered, Head(events))
      BY <1>1, <1>7 DEF HandleOutput
    <2>2. Data(buffered', s) = Data(buffered, s) \o h
      BY <1>2, <1>3, <2>1, DataSteps
    <2> HIDE DEF h, D, x
    <2>3. MovesOn(x, Data(buffered, s), h, D)
      BY <1>2, <1>3, <1>4, Handover
    <2> QED  BY <1>5, <2>1, <2>2, <2>3 DEF D, x, MovesOn
  <1> QED  BY <1>6, <1>7

\* The handler sends the first frame of what it held back.
LEMMA DrainFlow ==
    ASSUME TypeInv, OutputConserved, DrainBuffered
    PROVE  OutputConserved'
  <1>1. /\ UNCHANGED <<client, received, failed, events, pipe, written>>
        /\ buffered # <<>> /\ buffered' = Tail(buffered) /\ Send(Head(buffered))
    BY DEF DrainBuffered, guest, host, TypeInv
  <1> SUFFICES ASSUME ~Gone, ~failed, NEW s \in Stream
               PROVE  written[s] = received[s] \o Data(wire', s) \o Data(buffered', s)
                                        \o Data(events, s) \o pipe[s]
    BY <1>1 DEF OutputConserved, Gone
  <1> DEFINE h == Own(Head(buffered), s)
             B == Data(buffered', s)
  <1>2. /\ wire \in Seq(Frame) /\ buffered \in Seq(Frame)
        /\ received[s] \in Seq(Chunk) /\ Data(wire, s) \in Seq(Chunk)
    BY PassageTypes
  <1>3. /\ h \in Seq(Chunk) /\ Data(buffered, s) = h \o B
        /\ Head(buffered) \in Frame /\ buffered' \in Seq(Frame)
    BY <1>1, <1>2, DataSteps
  <1>4. B \in Seq(Chunk)
    BY <1>3, DataAppend
  <1>5. wire' = Append(wire, Head(buffered))
    BY <1>1 DEF Send
  <1>6. Data(wire', s) = Data(wire, s) \o h
    BY <1>2, <1>3, <1>5, DataSteps
  <1>7. written[s] = received[s] \o Data(wire, s) \o (h \o B) \o Data(events, s) \o pipe[s]
    BY <1>3 DEF OutputConserved
  <1> HIDE DEF h, B
  <1>8. MovesOn(received[s], Data(wire, s), h, B)
    BY <1>2, <1>3, <1>4, Handover
  <1> QED  BY <1>6, <1>7, <1>8 DEF B, MovesOn

\* The handler sends a frame without output, or takes in an event without any.
LEMMA DatalessFlow ==
    ASSUME TypeInv, OutputConserved,
           UNCHANGED <<client, received, failed, buffered, pipe, written>>,
           \/ events' = events
           \/ events # <<>> /\ events' = Tail(events) /\ Head(events).kind # "output"
           \/ \E e \in ChildEvent : events' = Append(events, e) /\ e.kind # "output",
           wire' = wire \/ \E f \in ExitFrame : wire' = Append(wire, f)
    PROVE  OutputConserved'
  <1> SUFFICES ASSUME ~Gone, ~failed, NEW s \in Stream
               PROVE  written[s] = received[s] \o Data(wire', s) \o Data(buffered, s)
                                        \o Data(events', s) \o pipe[s]
    BY DEF OutputConserved, Gone
  <1>1. /\ wire \in Seq(Frame) /\ events \in Seq(Frame)
        /\ Data(wire, s) \in Seq(Chunk) /\ Data(events, s) \in Seq(Chunk)
    BY PassageTypes
  <1>2. Data(wire', s) = Data(wire, s)
    <2>1. ASSUME NEW f \in ExitFrame, wire' = Append(wire, f)
          PROVE  Data(wire', s) = Data(wire, s)
      <3>1. f \in Frame /\ f.kind # "output"
        BY DEF Frame, ExitFrame
      <3>2. Data(wire', s) = Data(wire, s) \o Own(f, s)
        BY <1>1, <2>1, <3>1, DataSteps
      <3>3. Own(f, s) = <<>>
        BY <3>1, OwnNothing
      <3> QED  BY <1>1, <3>2, <3>3, ConcatEmptySeq
    <2> QED  BY <2>1
  <1>3. Data(events', s) = Data(events, s)
    <2>1. ASSUME NEW e \in ChildEvent, events' = Append(events, e), e.kind # "output"
          PROVE  Data(events', s) = Data(events, s)
      <3>1. e \in Frame
        BY DEF Frame
      <3>2. Data(events', s) = Data(events, s) \o Own(e, s)
        BY <1>1, <2>1, <3>1, DataSteps
      <3>3. Own(e, s) = <<>>
        BY <2>1, OwnNothing
      <3> QED  BY <1>1, <3>2, <3>3, ConcatEmptySeq
    <2>2. ASSUME events # <<>>, events' = Tail(events), Head(events).kind # "output"
          PROVE  Data(events', s) = Data(events, s)
      <3>1. Own(Head(events), s) = <<>>
        BY <2>2, OwnNothing
      <3>2. events' \in Seq(Frame) /\ Data(events, s) = <<>> \o Data(events', s)
        BY <1>1, <2>2, <3>1, DataSteps
      <3>3. Data(events', s) \in Seq(Chunk)
        BY <3>2, DataSteps, PassageTypes, DataListed, LenProperties DEF Data
      <3> QED  BY <3>2, <3>3, ConcatEmptySeq
    <2> QED  BY <2>1, <2>2
  <1> QED  BY <1>2, <1>3 DEF OutputConserved

\* A pump hands a piece on from its pipe to the channel.
LEMMA PumpFlow ==
    ASSUME TypeInv, OutputConserved, NEW r \in Stream, PumpReads(r), Listening
    PROVE  OutputConserved'
  <1> DEFINE e == Output(r, Head(pipe[r]))
  <1>1. /\ UNCHANGED <<client, received, failed, wire, buffered, written>>
        /\ pipe[r] # <<>> /\ pipe' = [pipe EXCEPT ![r] = Tail(@)]
        /\ events' = Append(events, e)
    BY DEF PumpReads, Tell, guest, daemon, host
  <1> SUFFICES ASSUME ~Gone, ~failed, NEW s \in Stream
               PROVE  written[s] = received[s] \o Data(wire, s) \o Data(buffered, s)
                                        \o Data(events', s) \o pipe'[s]
    BY <1>1 DEF OutputConserved, Gone
  <1> DEFINE h == Own(e, s)
             x == received[s] \o Data(wire, s) \o Data(buffered, s)
  <1>2. /\ events \in Seq(Frame) /\ Data(events, s) \in Seq(Chunk)
        /\ pipe[s] \in Seq(Chunk) /\ x \in Seq(Chunk)
    BY PassageTypes
  <1>3. /\ Head(pipe[r]) \in Chunk /\ Tail(pipe[r]) \in Seq(Chunk)
    BY <1>1, HeadTailProperties DEF TypeInv, TypeOK
  <1>4. e \in Frame /\ (Carries(e, s) <=> r = s) /\ e.data = Head(pipe[r])
    BY <1>3 DEF Output, OutputFrame, Frame, Carries
  <1>5. /\ h \in Seq(Chunk) /\ Data(events', s) = Data(events, s) \o h
    BY <1>1, <1>2, <1>4, DataAppend
  <1>6. pipe'[s] \in Seq(Chunk) /\ pipe[s] = h \o pipe'[s]
    <2>1. CASE r = s
      <3>1. pipe'[s] = Tail(pipe[s]) /\ h = <<Head(pipe[s])>>
        BY <1>1, <1>4, <2>1 DEF Own, TypeInv, TypeOK
      <3>2. pipe[s] = <<Head(pipe[s])>> \o Tail(pipe[s])
        <4>1. pipe[s] # <<>>
          BY <1>1, <2>1
        <4> DEFINE m == Len(pipe[s])
        <4>2. /\ m \in Nat \ {0} /\ Tail(pipe[s]) = SubSeq(pipe[s], 2, m)
              /\ Head(pipe[s]) = pipe[s][1] /\ SubSeq(pipe[s], 1, m) = pipe[s]
          BY <1>2, <4>1, EmptySeq, TailIsSubSeq, SubSeqFull
        <4>3. 1 \in 1..m /\ m \in 1..m
          BY <4>2
        <4>4. SubSeq(pipe[s], 1, m) = <<pipe[s][1]>> \o SubSeq(pipe[s], 1 + 1, m)
          BY <1>2, <4>3, SubSeqRecursiveFirst
        <4> QED  BY <4>2, <4>4
      <3> QED  BY <1>3, <2>1, <3>1, <3>2
    <2>2. CASE r # s
      <3>1. pipe'[s] = pipe[s] /\ h = <<>>
        BY <1>1, <1>4, <2>2 DEF Own, TypeInv, TypeOK
      <3> QED  BY <1>2, <3>1, ConcatEmptySeq
    <2> QED  BY <2>1, <2>2
  <1> HIDE DEF h, x
  <1>7. MovesOn(x, Data(events, s), h, pipe'[s])
    BY <1>2, <1>5, <1>6, Handover
  <1>8. written[s] = (x \o Data(events, s)) \o pipe[s]
    BY DEF OutputConserved, x
  <1> QED  BY <1>5, <1>6, <1>7, <1>8 DEF x, MovesOn

\* A process of the host puts a piece in a pipe.
LEMMA PutFlow ==
    ASSUME TypeInv, OutputConserved, NEW r \in Stream,
           NEW who \in {"launcher", "relay", "command"}, Put(r, who),
           UNCHANGED <<client, received, failed, wire, buffered, events>>
    PROVE  OutputConserved'
  <1> DEFINE c == [from |-> who, n |-> Len(written[r]) + 1]
  <1>1. /\ written' = [written EXCEPT ![r] = Append(@, c)]
        /\ pipe' = [pipe EXCEPT ![r] = Append(@, c)]
    BY DEF Put
  <1> SUFFICES ASSUME ~Gone, ~failed, NEW s \in Stream
               PROVE  written'[s] = received[s] \o Data(wire, s) \o Data(buffered, s)
                                        \o Data(events, s) \o pipe'[s]
    BY DEF OutputConserved, Gone
  <1> DEFINE x == received[s] \o Data(wire, s) \o Data(buffered, s) \o Data(events, s)
  <1>2. /\ x \in Seq(Chunk) /\ pipe[s] \in Seq(Chunk) /\ written[s] \in Seq(Chunk)
        /\ written[s] = x \o pipe[s]
    BY PassageTypes DEF OutputConserved
  <1>3. CASE r = s
    <2>1. /\ written'[s] = Append(written[s], c) /\ pipe'[s] = Append(pipe[s], c)
          /\ written'[s] \in Seq(Chunk)
      BY <1>1, <1>3, PutTypes DEF TypeInv, TypeOK
    <2>2. c \in Chunk
      BY PutChunk
    <2> HIDE DEF c, x
    <2>3. Append(x \o pipe[s], c) = x \o Append(pipe[s], c)
      BY <1>2, <2>2, ConcatAppend
    <2> QED  BY <1>2, <2>1, <2>3 DEF x
  <1>4. CASE r # s
    BY <1>1, <1>2, <1>4 DEF TypeInv, TypeOK
  <1> QED  BY <1>3, <1>4

\* The steps of the handler.
LEMMA HandlerFlow ==
    ASSUME TypeInv, SilenceInv, LifeInv, OutputConserved, Handler
    PROVE  OutputConserved'
  <1> USE DEF guest, daemon, tasks, host
  <1>1. CASE RequestUnreadable \/ ReadRequest \/ SpawnFails \/ Spawn \/ LeaveLoop \/ JoinTasks
    <2>1. UNCHANGED <<client, failed, received, wire, buffered, events, pipe, written>>
      BY <1>1 DEF RequestUnreadable, ReadRequest, SpawnFails, Spawn, LeaveLoop, JoinTasks
    <2> QED  BY <2>1, FlowIdle DEF Gone
  <1>2. CASE Refuse \/ ReportFailure \/ Reap
    <2>1. /\ UNCHANGED <<client, received, failed, buffered, events, pipe, written>>
          /\ \E code \in Int : Send(Exit(code))
      BY <1>2, ConstantsOK DEF Refuse, ReportFailure, Reap, ExitCode, TypeInv, TypeOK
    <2>2. \A code \in Int : Exit(code) \in ExitFrame
      BY DEF Exit, ExitFrame
    <2>3. wire' = wire \/ \E f \in ExitFrame : wire' = Append(wire, f)
      BY <2>1, <2>2 DEF Send
    <2> QED  BY <2>1, <2>3, DatalessFlow
  <1>3. CASE HandleClosed \/ HandleStarted
    <2>1. /\ UNCHANGED <<client, received, failed, buffered, pipe, written, wire>>
          /\ events # <<>> /\ events' = Tail(events) /\ Head(events).kind # "output"
      BY <1>3 DEF HandleClosed, HandleStarted
    <2> QED  BY <2>1, DatalessFlow
  <1>4. CASE HandleFailed
    BY <1>4 DEF HandleFailed, OutputConserved
  <1>5. CASE WriteFails
    BY <1>5 DEF WriteFails, OutputConserved, Gone
  <1>6. CASE HandleOutput
    BY <1>6, OutputFlow
  <1>7. CASE DrainBuffered
    BY <1>7, DrainFlow
  <1> QED  BY <1>1, <1>2, <1>3, <1>4, <1>5, <1>6, <1>7 DEF Handler

\* A pump that still reads has a handler that listens, unless the client is gone.
LEMMA PumpIsHeard ==
    ASSUME TypeInv, LifeInv, ~Gone, NEW s \in Stream, pump[s] = "reading"
    PROVE  Listening
  <1>1. child # "none"
    BY DEF LifeInv, BeforeSpawn
  <1>2. handler \notin {"reading", "refusing", "spawning"}
    BY <1>1 DEF LifeInv, AfterSpawn
  <1>3. handler \notin {"failing", "closed"}
    BY <1>1 DEF LifeInv, Abandoned
  <1> QED  BY <1>2, <1>3 DEF Listening, TypeInv, TypeOK

\* The steps of the tasks.
LEMMA TaskFlow ==
    ASSUME TypeInv, LifeInv, OutputConserved, (\E s \in Stream : Pump(s)) \/ Monitor
    PROVE  OutputConserved'
  <1> USE DEF guest, daemon, tasks, host
  <1>1. UNCHANGED <<client, received, failed, wire, buffered, written>>
    BY DEF Pump, PumpReads, PumpSeesEOF, Monitor, MonitorReads, MonitorSeesEOF
  <1>2. CASE Gone
    BY <1>1, <1>2 DEF OutputConserved, Gone
  <1>3. ASSUME ~Gone, NEW s \in Stream, PumpReads(s)
        PROVE  OutputConserved'
    <2>1. Listening
      BY <1>3, PumpIsHeard DEF PumpReads
    <2> QED  BY <1>3, <2>1, PumpFlow
  <1>4. ASSUME (\E s \in Stream : PumpSeesEOF(s)) \/ Monitor
        PROVE  OutputConserved'
    <2>1. /\ pipe' = pipe
          /\ \/ events' = events
             \/ \E k \in {"closed", "started", "failed"} : Tell(Event(k))
      BY <1>4 DEF PumpSeesEOF, Monitor, MonitorReads, MonitorSeesEOF
    <2>2. \A k \in {"closed", "started", "failed"} :
                Event(k) \in ChildEvent /\ Event(k).kind # "output"
      BY DEF Event, ChildEvent
    <2>3. \/ events' = events
          \/ \E e \in ChildEvent : events' = Append(events, e) /\ e.kind # "output"
      BY <2>1, <2>2 DEF Tell
    <2> QED  BY <1>1, <2>1, <2>3, DatalessFlow
  <1> QED  BY <1>2, <1>3, <1>4 DEF Pump

\* The steps of the host process.
LEMMA ProcessFlow ==
    ASSUME TypeInv, OutputConserved, Process
    PROVE  OutputConserved'
  <1>1. UNCHANGED <<client, received, failed, wire, buffered, events>>
    BY DEF Process, LauncherGivesUp, LauncherExits, LauncherStarts, RelayStarts,
           RelayFails, CommandForks, CommandCloses, CommandExits, BackgroundExits,
           LauncherWrites, CommandWrites, guest, daemon
  <1>2. ASSUME NEW s \in Stream, NEW who \in {"launcher", "relay", "command"}, Put(s, who)
        PROVE  OutputConserved'
    BY <1>1, <1>2, PutFlow
  <1>3. CASE RelayFails \/ \E s \in Stream : LauncherWrites(s) \/ CommandWrites(s)
    BY <1>2, <1>3 DEF RelayFails, LauncherWrites, CommandWrites, Stream
  <1>4. CASE \/ LauncherGivesUp \/ LauncherExits \/ LauncherStarts \/ RelayStarts
             \/ CommandForks \/ CommandCloses \/ CommandExits \/ BackgroundExits
    <2>1. UNCHANGED <<pipe, written>>
      BY <1>4 DEF LauncherGivesUp, LauncherExits, LauncherStarts, RelayStarts,
                  CommandForks, CommandCloses, CommandExits, BackgroundExits
    <2> QED  BY <1>1, <2>1, FlowIdle DEF Gone
  <1> QED  BY <1>3, <1>4 DEF Process

\* The steps of the client.
LEMMA ClientFlow ==
    ASSUME TypeInv, OutputConserved,
           ClientSend \/ ClientConnectFails \/ ClientKilled \/ Client
    PROVE  OutputConserved'
  <1>1. CASE ClientPrints
    BY <1>1, PrintFlow
  <1>2. CASE ClientSend
    <2>1. UNCHANGED <<failed, received, wire, buffered, events, pipe, written>>
          /\ ~Gone
      BY <1>2 DEF ClientSend, Gone, daemon, host
    <2> QED  BY <2>1, FlowIdle
  <1>3. CASE \/ ClientConnectFails \/ ClientKilled \/ ClientPrintFails
             \/ ClientExits \/ ClientSeesEOF
    <2>1. Gone'
      BY <1>3 DEF ClientConnectFails, ClientKilled, ClientPrintFails, ClientExits,
                  ClientSeesEOF, Leave, Gone
    <2> QED  BY <2>1 DEF OutputConserved
  <1> QED  BY <1>1, <1>2, <1>3 DEF Client

\* Between the host process and the terminal of the caller nothing is lost,
\* duplicated or reordered: for every amount of output and every interleaving of
\* process, pumps, verdict, handler and client.
THEOREM OutputIsConserved == Spec => []OutputConserved
  <1>1. Init => OutputConserved
    <2> SUFFICES ASSUME Init, NEW s \in Stream
                 PROVE  written[s] = received[s] \o Data(wire, s) \o Data(buffered, s)
                                        \o Data(events, s) \o pipe[s]
      BY DEF OutputConserved
    <2>1. /\ written[s] = <<>> /\ received[s] = <<>> /\ pipe[s] = <<>>
          /\ wire = <<>> /\ buffered = <<>> /\ events = <<>>
      BY DEF Init
    <2>2. Data(<<>>, s) = <<>>
      <3>1. [kind |-> "closed"] \in Frame /\ <<>> \in Seq(Frame)
        BY EmptySeq DEF Frame, ChildEvent
      <3> QED  BY <3>1, DataAppend
    <2>3. <<>> \in Seq(Chunk) /\ <<>> \o <<>> = <<>>
      BY EmptySeq, ConcatEmptySeq
    <2> QED  BY <2>1, <2>2, <2>3
  <1>2. ASSUME TypeInv, SilenceInv, LifeInv, OutputConserved, [Next]_vars
        PROVE  OutputConserved'
    <2>1. CASE Next
      BY <1>2, <2>1, ClientFlow, HandlerFlow, TaskFlow, ProcessFlow DEF Next
    <2>2. CASE UNCHANGED vars
      BY <1>2, <2>2, FlowIdle DEF vars, guest, daemon, host, Gone
    <2> QED  BY <1>2, <2>1, <2>2
  <1> QED  BY <1>1, <1>2, TypesHold, SilenceHolds, LifeHolds, PTL DEF Spec

-----------------------------------------------------------------------------
(* The exit code is the process's own.                                     *)

\* The eight bits of an exit code that reach the caller.
LEMMA StatusByte ==
    ASSUME NEW st \in Codes \cup {Signalled}
    PROVE  /\ ExitCode(st) \in Int
           /\ ExitCode(st) % 256 = (IF st = Signalled THEN 255 ELSE st)
           /\ ExitCode(st) % 256 \in 0..255
  <1>1. Codes \subseteq 0..255
    BY ConstantsOK
  <1>2. \A n \in 0..255 : n % 256 = n
    OBVIOUS
  <1>3. (-1) % 256 = 255
    <2>1. PICK n \in Int : n = -1
      OBVIOUS
    <2>2. n = 256 * n + 255
      BY <2>1
    <2>3. \A i, q \in Int : \A r \in 0..255 : i = 256 * q + r => i % 256 = r
      OBVIOUS
    <2>4. n % 256 = 255
      BY <2>2, <2>3
    <2> QED  BY <2>1, <2>4
  <1>4. CASE st = Signalled
    BY <1>3, <1>4 DEF ExitCode
  <1>5. CASE st # Signalled
    BY <1>1, <1>2, <1>5 DEF ExitCode
  <1> QED  BY <1>4, <1>5

\* An ended process has a status, and so a code.
LEMMA CodeByte ==
    ASSUME TypeInv, child = "exited"
    PROVE  /\ ExitCode(status) \in Int
           /\ ExitCode(status) % 256 = (IF status = Signalled THEN 255 ELSE status)
           /\ ExitCode(status) % 256 \in 0..255
  <1>1. status \in Codes \cup {Signalled}
    BY DEF TypeInv, TypeOK
  <1> QED  BY <1>1, StatusByte

\* The call is over on the side of the host, and code is how its process ended.
Ended(code) ==
    /\ handler \in {"joining", "closed"}
    /\ child = "exited" /\ holders = {}
    /\ \A s \in Stream : pump[s] = "done"
    /\ launched \/ failed
    /\ code = ExitCode(status) % 256
    /\ code = 0 => launched

\* An exit frame with another code than that of a failure, or a result that is one,
\* is the process's own, and what the process wrote is on its way or printed.
Reported ==
    /\ \A i \in DOMAIN wire : wire[i].kind = "exit" /\ wire[i].code # 1 =>
            /\ Ended(wire[i].code % 256)
            /\ launched => \A s \in Stream : written[s] = received[s] \o Data(wire, s)
    /\ client = "exited" /\ result # 1 =>
            /\ Ended(result)
            /\ launched => received = written

\* Once a call is over on the side of the host it stays so.
LEMMA EndedStays ==
    ASSUME TypeInv, NEW code, Ended(code), Next
    PROVE  Ended(code)' /\ UNCHANGED <<written, launched>>
  <1> USE DEF Ended, guest, daemon, tasks, host
  <1>1. CASE ClientSend \/ ClientConnectFails \/ ClientKilled \/ Client
    BY <1>1 DEF Client, ClientSend, ClientConnectFails, ClientKilled, ClientPrints,
           ClientPrintFails, ClientExits, ClientSeesEOF, ExitCode
  <1>2. CASE Handler
    <2>1. JoinTasks
      BY <1>2 DEF Handler, RequestUnreadable, ReadRequest, Refuse, SpawnFails, Spawn,
                  HandleOutput, HandleClosed, HandleStarted, HandleFailed, DrainBuffered,
                  WriteFails, LeaveLoop, Reap, ReportFailure
    <2> QED  BY <2>1 DEF JoinTasks, ExitCode
  <1>3. CASE \E s \in Stream : Pump(s)
    BY <1>3 DEF Pump, PumpReads, PumpSeesEOF
  <1>4. CASE Monitor
    BY <1>4 DEF Monitor, MonitorReads, MonitorSeesEOF, ExitCode
  <1>5. CASE Process
    BY <1>5 DEF Process, LauncherGivesUp, LauncherExits, LauncherStarts, RelayStarts,
           RelayFails, CommandForks, CommandCloses, CommandExits, BackgroundExits,
           LauncherWrites, CommandWrites, Put
  <1> QED  BY <1>1, <1>2, <1>3, <1>4, <1>5 DEF Next

\* A step that neither writes to the connection nor is the client's.
LEMMA ReportIdle ==
    ASSUME TypeInv, Reported, Next, UNCHANGED <<client, result, received, wire>>
    PROVE  Reported'
  <1>1. ASSUME NEW i \in DOMAIN wire, wire[i].kind = "exit" /\ wire[i].code # 1
        PROVE  /\ Ended(wire[i].code % 256)'
               /\ launched' => \A s \in Stream : written'[s] = received'[s] \o Data(wire', s)
    <2>1. PICK code : code = wire[i].code % 256
      OBVIOUS
    <2>2. Ended(code) /\ (launched => \A s \in Stream : written[s] = received[s] \o Data(wire, s))
      BY <1>1, <2>1 DEF Reported
    <2>3. Ended(code)' /\ UNCHANGED <<written, launched>>
      BY <2>2, EndedStays
    <2> QED  BY <2>1, <2>2, <2>3
  <1>2. ASSUME client = "exited" /\ result # 1
        PROVE  Ended(result)' /\ (launched' => received' = written')
    <2>1. PICK code : code = result
      OBVIOUS
    <2>2. Ended(code) /\ (launched => received = written)
      BY <1>2, <2>1 DEF Reported
    <2>3. Ended(code)' /\ UNCHANGED <<written, launched>>
      BY <2>2, EndedStays
    <2> QED  BY <2>1, <2>2, <2>3
  <1> QED  BY <1>1, <1>2 DEF Reported

\* A frame goes out that is no exit frame or one with the code of a failure.
LEMMA ReportSend ==
    ASSUME TypeInv, ExitIsLast, Reported, Next, NEW f \in OutputFrame \cup ExitFrame,
           Send(f), f.kind = "exit" => f.code = 1,
           handler \notin {"joining", "closed"}, UNCHANGED <<client, result, received>>
    PROVE  Reported'
  <1>1. \A i \in DOMAIN wire : wire[i].kind # "exit"
    BY DEF ExitIsLast
  <1>2. \A i \in DOMAIN wire' : ~ (wire'[i].kind = "exit" /\ wire'[i].code # 1)
    BY <1>1, SendMembers
  <1>3. ~ (client = "exited" /\ result # 1)
    BY DEF Reported, Ended
  <1> QED  BY <1>2, <1>3 DEF Reported

\* The handler reports how the process ended.
LEMMA ReapReport ==
    ASSUME TypeInv, SilenceInv, LifeInv, ChannelInv, LaunchInv, ExitIsLast,
           OutputConserved, ExitComesLast, Reported, Next, Reap
    PROVE  Reported'
  <1>1. /\ handler = "reaping" /\ child = "exited" /\ handler' = "joining"
        /\ Send(Exit(ExitCode(status)))
        /\ UNCHANGED <<client, result, received, launched, failed, child, status,
                       holders, pump, written>>
    BY DEF Reap, guest, tasks, host
  <1>2. Listening /\ LoopDone
    BY <1>1 DEF Listening, LifeInv, Abandoned
  <1>3. /\ \A s \in Stream : pump[s] = "done"
        /\ holders = {} /\ buffered = <<>> /\ events = <<>>
        /\ \A s \in Stream : pipe[s] = <<>>
    BY <1>1, <1>2, NothingLeft DEF ExitComesLast
  <1>4. launched \/ failed
    BY <1>1, <1>2 DEF LoopDone, LifeInv, AfterSpawn
  <1>5. ExitCode(status) % 256 = 0 => launched
    <2>1. ExitCode(status) % 256 = 0 => status = 0
      BY <1>1, CodeByte
    <2> QED  BY <1>4, <2>1 DEF LaunchInv, Refused
  <1>6. Ended(ExitCode(status) % 256)'
    BY <1>1, <1>3, <1>4, <1>5 DEF Ended, ExitCode
  <1>7. ASSUME ~Gone, launched, NEW s \in Stream
        PROVE  written'[s] = received'[s] \o Data(wire', s)
    <2>1. ~failed
      BY <1>7 DEF SilenceInv, OneVerdict
    <2>2. written[s] = received[s] \o Data(wire, s) \o Data(<<>>, s) \o Data(<<>>, s) \o <<>>
      BY <1>3, <1>7, <2>1 DEF OutputConserved
    <2>3. /\ wire \in Seq(Frame) /\ Data(wire, s) \in Seq(Chunk)
          /\ received[s] \o Data(wire, s) \in Seq(Chunk)
      BY PassageTypes
    <2>4. Exit(ExitCode(status)) \in Frame /\ Exit(ExitCode(status)).kind # "output"
      BY <1>1, CodeByte DEF Exit, ExitFrame, Frame
    <2>5. Data(<<>>, s) = <<>>
      BY <2>3, <2>4, DataAppend
    <2>6. (received[s] \o Data(wire, s)) \o <<>> = received[s] \o Data(wire, s)
      BY <2>3, ConcatEmptySeq
    <2>7. wire' = Append(wire, Exit(ExitCode(status)))
      BY <1>1, <1>7 DEF Send
    <2>8. Data(wire', s) = Data(wire, s) \o Own(Exit(ExitCode(status)), s)
      BY <2>3, <2>4, <2>7, DataSteps
    <2>9. Own(Exit(ExitCode(status)), s) = <<>>
      BY <2>4, OwnNothing
    <2>10. Data(wire', s) = Data(wire, s)
      BY <2>3, <2>8, <2>9, ConcatEmptySeq
    <2> QED  BY <1>1, <2>2, <2>5, <2>6, <2>10
  <1>8. ASSUME NEW i \in DOMAIN wire', wire'[i].kind = "exit"
        PROVE  wire'[i] = Exit(ExitCode(status)) /\ ~Gone
    <2>1. \A j \in DOMAIN wire : wire[j].kind # "exit"
      BY <1>1 DEF ExitIsLast
    <2>2. Exit(ExitCode(status)) \in OutputFrame \cup ExitFrame
      BY <1>1, CodeByte DEF Exit, ExitFrame
    <2>3. wire' # wire
      BY <1>8, <2>1
    <2> QED  BY <1>1, <1>8, <2>1, <2>2, <2>3, SendMembers DEF Send
  <1>9. ~ (client = "exited" /\ result # 1)
    BY <1>1 DEF Reported, Ended
  <1>10. Exit(ExitCode(status)).code = ExitCode(status)
    BY DEF Exit
  <1> QED  BY <1>1, <1>6, <1>7, <1>8, <1>9, <1>10 DEF Reported

\* The client prints a frame: what is before the exit frame is printed or under way.
LEMMA PrintReport ==
    ASSUME TypeInv, OutputConserved, Reported, Next, ClientPrints
    PROVE  Reported'
  <1>1. /\ UNCHANGED <<client, written, launched>> /\ client = "waiting"
        /\ wire # <<>> /\ Head(wire).kind = "output" /\ wire' = Tail(wire)
        /\ received' = [received EXCEPT ![Head(wire).stream] = Append(@, Head(wire).data)]
    BY DEF ClientPrints, daemon, host
  <1>2. \A i \in DOMAIN wire' : i + 1 \in DOMAIN wire /\ wire'[i] = wire[i + 1]
    BY <1>1, QueueMembers DEF TypeInv, TypeOK
  <1>3. ASSUME NEW i \in DOMAIN wire', wire'[i].kind = "exit" /\ wire'[i].code # 1
        PROVE  /\ Ended(wire[i].code % 256)'
               /\ launched' => \A s \in Stream : written'[s] = received'[s] \o Data(wire', s)
    <2>1. PICK code : code = wire[i + 1].code % 256
      OBVIOUS
    <2>2. Ended(code) /\ (launched => \A s \in Stream : written[s] = received[s] \o Data(wire, s))
      BY <1>2, <1>3, <2>1 DEF Reported
    <2>3. Ended(code)'
      BY <2>2, EndedStays
    <2>4. \A s \in Stream : received[s] \o Data(wire, s) = received'[s] \o Data(wire', s)
      BY <1>1, PrintMoves
    <2> QED  BY <1>1, <1>2, <2>1, <2>2, <2>3, <2>4
  <1> QED  BY <1>1, <1>3 DEF Reported

\* The client takes the exit frame in and ends.
LEMMA ExitReport ==
    ASSUME TypeInv, ExitIsLast, Reported, Next, ClientExits
    PROVE  Reported'
  <1>1. /\ wire # <<>> /\ Head(wire).kind = "exit" /\ wire' = <<>>
        /\ result' = Head(wire).code % 256
        /\ UNCHANGED <<received, written, launched>>
    BY DEF ClientExits, Leave, daemon, host
  <1>2. /\ Len(wire) \in Nat /\ DOMAIN wire = 1..Len(wire)
        /\ Head(wire) = wire[1] /\ 1 \in DOMAIN wire
    BY <1>1, QueueMembers, WireSteps, LenProperties DEF TypeInv, TypeOK
  <1>3. Len(wire) = 1
    BY <1>1, <1>2 DEF ExitIsLast
  <1>4. ASSUME result' # 1
        PROVE  Ended(result)' /\ (launched' => received' = written')
    <2>1. wire[1].code # 1
      BY <1>1, <1>2, <1>4
    <2>2. PICK code : code = Head(wire).code % 256
      OBVIOUS
    <2>3. /\ Ended(code)
          /\ launched => \A s \in Stream : written[s] = received[s] \o Data(wire, s)
      BY <1>1, <1>2, <2>1, <2>2 DEF Reported
    <2>4. Ended(code)'
      BY <2>3, EndedStays
    <2>5. ASSUME NEW s \in Stream
          PROVE  received[s] \o Data(wire, s) = received[s]
      <3>1. wire \in Seq(Frame) /\ received[s] \in Seq(Chunk)
        BY PassageTypes
      <3>2. Tail(wire) = <<>>
        <4>1. Tail(wire) \in Seq(Frame) /\ Len(Tail(wire)) = 0
          BY <1>1, <1>3, <3>1, HeadTailProperties
        <4> QED  BY <4>1, EmptySeq
      <3>3. Data(wire, s) = Own(Head(wire), s) \o Data(<<>>, s) /\ Head(wire) \in Frame
        BY <1>1, <3>1, <3>2, DataSteps
      <3>4. Own(Head(wire), s) = <<>>
        BY <1>1, OwnNothing
      <3>5. Data(<<>>, s) = <<>>
        BY <3>1, <3>3, DataAppend
      <3>6. <<>> \o <<>> = <<>>
        BY <3>1, ConcatEmptySeq
      <3>7. Data(wire, s) = <<>>
        BY <3>3, <3>4, <3>5, <3>6
      <3> QED  BY <3>1, <3>7, ConcatEmptySeq
    <2>6. launched => \A s \in Stream : written[s] = received[s]
      BY <2>3, <2>5
    <2>7. launched => received = written
      BY <2>6 DEF TypeInv, TypeOK
    <2> QED  BY <1>1, <2>2, <2>4, <2>7
  <1> QED  BY <1>1, <1>4 DEF Reported

\* Exit frames and results tell how the process ended.
THEOREM ReportedHolds == Spec => []Reported
  <1>1. Init => Reported
    BY DEF Init, Reported
  <1>2. ASSUME TypeInv, SilenceInv, LifeInv, ChannelInv, LaunchInv, ExitIsLast,
               OutputConserved, ExitComesLast, Reported, [Next]_vars
        PROVE  Reported'
    <2>1. CASE UNCHANGED vars
      <3>1. \A code : Ended(code)' <=> Ended(code)
        BY <2>1 DEF vars, daemon, tasks, host, Ended, ExitCode
      <3> QED  BY <1>2, <2>1, <3>1 DEF vars, guest, daemon, host, Reported
    <2> SUFFICES ASSUME Next PROVE Reported'
      BY <1>2, <2>1
    <2>2. CASE ClientPrints
      BY <1>2, <2>2, PrintReport
    <2>3. CASE ClientExits
      BY <1>2, <2>3, ExitReport
    <2>4. CASE \/ ClientSend \/ ClientConnectFails \/ ClientKilled
               \/ ClientPrintFails \/ ClientSeesEOF
      <3>1. CASE ClientSend
        <4>1. client = "sending" /\ client' = "waiting" /\ wire' = wire
          BY <3>1 DEF ClientSend
        <4>2. \A code : Ended(code)' <=> Ended(code)
          BY <3>1 DEF ClientSend, daemon, tasks, host, Ended, ExitCode
        <4> QED  BY <1>2, <3>1, <4>1, <4>2 DEF ClientSend, daemon, host, Reported
      <3>2. CASE ~ClientSend
        <4>1. wire' = <<>> /\ (client' = "killed" \/ result' = 1 % 256)
          BY <2>4, <3>2 DEF ClientConnectFails, ClientKilled, ClientPrintFails,
                            ClientSeesEOF, Leave
        <4>2. 1 % 256 = 1 /\ DOMAIN wire' = {}
          BY <4>1
        <4> QED  BY <4>1, <4>2 DEF Reported
      <3> QED  BY <3>1, <3>2
    <2>5. CASE Reap
      BY <1>2, <2>5, ReapReport
    <2>6. CASE Refuse \/ ReportFailure
      <3>1. /\ handler \notin {"joining", "closed"} /\ Send(Exit(1))
            /\ UNCHANGED <<client, result, received>>
        BY <2>6 DEF Refuse, ReportFailure, guest
      <3>2. Exit(1) \in OutputFrame \cup ExitFrame /\ Exit(1).code = 1
        BY DEF Exit, ExitFrame
      <3> QED  BY <1>2, <3>1, <3>2, ReportSend
    <2>7. CASE HandleOutput \/ DrainBuffered
      <3>1. /\ handler \notin {"joining", "closed"}
            /\ UNCHANGED <<client, result, received>>
            /\ \/ wire' = wire
               \/ events # <<>> /\ Head(events).kind = "output" /\ Send(Head(events))
               \/ buffered # <<>> /\ Send(Head(buffered))
        BY <1>2, <2>7 DEF HandleOutput, DrainBuffered, guest, TypeInv
      <3>2. events # <<>> /\ Head(events).kind = "output" => Head(events) \in OutputFrame
        BY <1>2, HeadOfEvents
      <3>3. buffered # <<>> => Head(buffered) \in OutputFrame
        BY <1>2, QueueSteps DEF TypeInv, TypeOK
      <3>4. CASE wire' = wire
        BY <1>2, <3>1, <3>4, ReportIdle
      <3>5. CASE \E f \in OutputFrame : Send(f)
        <4>1. PICK f \in OutputFrame : Send(f)
          BY <3>5
        <4>2. f \in OutputFrame \cup ExitFrame /\ f.kind # "exit"
          BY DEF OutputFrame
        <4> QED  BY <1>2, <3>1, <4>1, <4>2, ReportSend
      <3> QED  BY <3>1, <3>2, <3>3, <3>4, <3>5
    <2>8. CASE \/ RequestUnreadable \/ ReadRequest \/ SpawnFails \/ Spawn
               \/ HandleClosed \/ HandleStarted \/ HandleFailed
               \/ WriteFails \/ LeaveLoop \/ JoinTasks
               \/ (\E s \in Stream : Pump(s)) \/ Monitor \/ Process
      <3>1. UNCHANGED <<client, result, received, wire>>
        BY <2>8 DEF RequestUnreadable, ReadRequest, SpawnFails, Spawn,
               HandleClosed, HandleStarted, HandleFailed, WriteFails, LeaveLoop,
               JoinTasks, Pump, PumpReads, PumpSeesEOF, Monitor, MonitorReads,
               MonitorSeesEOF, Process, LauncherGivesUp, LauncherExits,
               LauncherStarts, RelayStarts, RelayFails, CommandForks, CommandCloses,
               CommandExits, BackgroundExits, LauncherWrites, CommandWrites, guest
      <3> QED  BY <1>2, <3>1, ReportIdle
    <2> QED  BY <2>2, <2>3, <2>4, <2>5, <2>6, <2>7, <2>8 DEF Next, Client, Handler
  <1> QED
    BY <1>1, <1>2, TypesHold, SilenceHolds, LifeHolds, ChannelHolds, LaunchHolds,
       ExitIsLastHolds, OutputIsConserved, ExitLast, PTL DEF Spec

\* The caller sees success only for a command that ran, ended with 0 and whose output
\* it has in full; any other code but 1 is the process's own as well.
THEOREM ExitIsTruthful == Spec => []TruthfulExit
  <1>1. TypeInv /\ Reported => TruthfulExit
    BY CodeByte DEF Reported, Ended, TruthfulExit
  <1> QED  BY <1>1, TypesHold, ReportedHolds, PTL

-----------------------------------------------------------------------------
(* The call meets its contract.                                            *)

\* Everything shown so far.
CallInv ==
    /\ TypeInv /\ SilenceInv /\ LifeInv /\ ChannelInv /\ LaunchInv
    /\ ExitIsLast /\ OutputConserved /\ ExitComesLast /\ Reported

\* It holds in every reachable state.
THEOREM CallHolds == Spec => []CallInv
  BY TypesHold, SilenceHolds, LifeHolds, ChannelHolds, LaunchHolds, ExitIsLastHolds,
     OutputIsConserved, ExitLast, ReportedHolds, PTL DEF CallInv

\* A call just accepted is one of which nothing has been decided.
LEMMA InitContract == Init => Contract!Init
  BY DEF Init, Contract!Init

\* A step on the host: at most one piece is written, by somebody who may, writers
\* only disappear, and a process ends once.
LEMMA HostStep ==
    ASSUME UNCHANGED <<launched, failed, received, result>>,
           \/ written' = written
           \/ /\ child = "none" \/ holders # {}
              /\ \E s \in Stream, c \in Chunk :
                    written' = [written EXCEPT ![s] = Append(@, c)],
           child' = "none" \/ holders' # {} => child = "none" \/ holders # {},
           \/ status' = status
           \/ status = NoStatus /\ status' \in Codes \cup {Signalled}
    PROVE  Contract!Host
  <1> DEFINE o == child = "none" \/ holders # {}
             x == IF status = NoStatus THEN NoResult ELSE ExitCode(status) % 256
  <1>1. o' \in {o, FALSE}
    OBVIOUS
  <1>2. UNCHANGED x \/ (x = NoResult /\ x' \in 0..255)
    <2>1. CASE status' = status
      BY <2>1 DEF ExitCode
    <2>2. CASE status = NoStatus /\ status' \in Codes \cup {Signalled}
      <3>1. status' # NoStatus
        BY <2>2, ConstantsOK
      <3>2. ExitCode(status') % 256 \in 0..255
        BY <2>2, StatusByte
      <3> QED  BY <2>2, <3>1, <3>2 DEF ExitCode
    <2> QED  BY <2>1, <2>2
  <1> QED  BY <1>1, <1>2 DEF Contract!Host

\* A step the contract does not see.
LEMMA UnseenStep ==
    ASSUME UNCHANGED <<written, received, result, status, launched, failed, child, holders>>
    PROVE  UNCHANGED Contract!vars
  BY DEF Contract!vars, ExitCode

\* A process puts a piece in a pipe while it, or one it left behind, may write.
LEMMA PutSeen ==
    ASSUME TypeInv, NEW s \in Stream,
           NEW who \in {"launcher", "relay", "command"}, Put(s, who)
    PROVE  \E r \in Stream, c \in Chunk : written' = [written EXCEPT ![r] = Append(@, c)]
  <1> DEFINE c == [from |-> who, n |-> Len(written[s]) + 1]
  <1>1. c \in Chunk
    BY PutChunk
  <1>2. written' = [written EXCEPT ![s] = Append(@, c)]
    BY DEF Put
  <1> HIDE DEF c
  <1> QED  BY <1>1, <1>2

\* Every step of the host process is one on the host side of the contract.
LEMMA ProcessContract ==
    ASSUME CallInv, Process
    PROVE  Contract!Host
  <1> USE DEF guest, daemon, tasks
  <1>1. UNCHANGED <<launched, failed, received, result>>
    BY DEF Process, LauncherGivesUp, LauncherExits, LauncherStarts, RelayStarts,
           RelayFails, CommandForks, CommandCloses, CommandExits, BackgroundExits,
           LauncherWrites, CommandWrites
  <1>2. /\ TypeInv
        /\ child # "none" /\ child # "exited" => status = NoStatus
        /\ child \in {"setup", "aborting", "relay"} => "child" \in holders
        /\ holders # {} => child # "none"
    BY DEF CallInv, LifeInv, BeforeSpawn, AfterSpawn
  <1>3. CASE \/ LauncherGivesUp \/ LauncherStarts \/ RelayStarts \/ CommandForks
             \/ CommandCloses \/ BackgroundExits
    <2>1. /\ UNCHANGED <<written, status>>
          /\ child' = "none" \/ holders' # {} => child = "none" \/ holders # {}
      BY <1>2, <1>3 DEF LauncherGivesUp, LauncherStarts, RelayStarts, CommandForks,
                        CommandCloses, BackgroundExits
    <2> QED  BY <1>1, <2>1, HostStep
  <1>4. CASE LauncherExits \/ CommandExits
    <2>1. /\ written' = written
          /\ status = NoStatus /\ status' \in Codes \cup {Signalled}
          /\ child' = "none" \/ holders' # {} => child = "none" \/ holders # {}
      BY <1>2, <1>4 DEF LauncherExits, CommandExits
    <2> QED  BY <1>1, <2>1, HostStep
  <1>5. CASE RelayFails
    <2>1. /\ Put("stderr", "relay") /\ holders # {}
          /\ status = NoStatus /\ status' \in Codes \cup {Signalled}
          /\ child' = "none" \/ holders' # {} => child = "none" \/ holders # {}
      BY <1>2, <1>5, ConstantsOK DEF RelayFails
    <2>2. \E r \in Stream, c \in Chunk : written' = [written EXCEPT ![r] = Append(@, c)]
      BY <1>2, <2>1, PutSeen DEF Stream
    <2> QED  BY <1>1, <2>1, <2>2, HostStep
  <1>6. ASSUME NEW s \in Stream, LauncherWrites(s) \/ CommandWrites(s)
        PROVE  Contract!Host
    <2>1. /\ \E who \in {"launcher", "relay", "command"} : Put(s, who)
          /\ holders # {} /\ UNCHANGED <<status, holders, child>>
      BY <1>2, <1>6 DEF LauncherWrites, CommandWrites
    <2>2. \E r \in Stream, c \in Chunk : written' = [written EXCEPT ![r] = Append(@, c)]
      BY <1>2, <2>1, PutSeen
    <2> QED  BY <1>1, <2>1, <2>2, HostStep
  <1> QED  BY <1>3, <1>4, <1>5, <1>6 DEF Process

\* The steps of the tasks are none of the contract's.
LEMMA TaskContract ==
    ASSUME (\E s \in Stream : Pump(s)) \/ Monitor
    PROVE  UNCHANGED Contract!vars
  <1>1. UNCHANGED <<written, received, result, status, launched, failed, child, holders>>
    BY DEF Pump, PumpReads, PumpSeesEOF, Monitor, MonitorReads, MonitorSeesEOF,
           guest, daemon, host
  <1> QED  BY <1>1, UnseenStep

\* A verdict is decided once.
LEMMA DecideStep ==
    ASSUME UNCHANGED <<written, received, result, status>>, ~launched, ~failed,
           launched' \/ failed',
           child' = "none" \/ holders' # {} <=> child = "none" \/ holders # {}
    PROVE  Contract!Decide
  BY DEF Contract!Decide, ExitCode

\* The steps of the handler: it decides the launch, and kills the process when the
\* client vanished.
LEMMA HandlerContract ==
    ASSUME CallInv, Handler
    PROVE  [Contract!Next]_(Contract!vars)
  <1> USE DEF guest, daemon, tasks, host
  <1>1. CASE \/ RequestUnreadable \/ ReadRequest \/ Refuse \/ SpawnFails
             \/ HandleOutput \/ HandleClosed \/ DrainBuffered \/ LeaveLoop \/ Reap
             \/ JoinTasks \/ ReportFailure
    <2>1. UNCHANGED <<written, received, result, status, launched, failed, child, holders>>
      BY <1>1 DEF RequestUnreadable, ReadRequest, Refuse, SpawnFails, HandleOutput,
                  HandleClosed, DrainBuffered, LeaveLoop, Reap, JoinTasks, ReportFailure
    <2> QED  BY <2>1, UnseenStep
  <1>2. CASE Spawn
    <2>1. /\ child = "none" /\ ~launched /\ ~failed
      BY <1>2 DEF Spawn, CallInv, LifeInv, AfterSpawn, BeforeSpawn
    <2>2. /\ UNCHANGED <<written, received, result, status, failed>>
          /\ launched' \in BOOLEAN /\ holders' # {}
      BY <1>2 DEF Spawn, Profiled
    <2>3. CASE launched'
      <3>1. Contract!Decide
        BY <2>1, <2>2, <2>3, DecideStep
      <3> QED  BY <3>1 DEF Contract!Next
    <2>4. CASE ~launched'
      BY <2>1, <2>2, <2>4 DEF Contract!vars, ExitCode
    <2> QED  BY <2>3, <2>4
  <1>3. CASE HandleStarted \/ HandleFailed
    <2>1. /\ events # <<>> /\ Head(events).kind \in Verdict
          /\ UNCHANGED <<written, received, result, status, child, holders>>
          /\ launched' \/ failed'
      BY <1>3 DEF HandleStarted, HandleFailed, Verdict
    <2>2. 1 \in DOMAIN events /\ Head(events) = events[1]
      BY <2>1, QueueMembers DEF CallInv, TypeInv, TypeOK
    <2>3. ~launched /\ ~failed
      BY <2>1, <2>2 DEF CallInv, ChannelInv, SingleVerdict
    <2>4. Contract!Decide
      BY <2>1, <2>3, DecideStep
    <2> QED  BY <2>4 DEF Contract!Next
  <1>4. CASE WriteFails
    <2>1. KillChild /\ UNCHANGED <<launched, failed, received, result>>
      BY <1>4 DEF WriteFails
    <2>2. CASE child \in {"none", "exited"}
      <3>1. UNCHANGED <<written, status, child, holders>>
        BY <2>1, <2>2 DEF KillChild
      <3> QED  BY <2>1, <3>1, UnseenStep
    <2>3. CASE child \notin {"none", "exited"}
      <3>1. /\ status = NoStatus
            /\ Profiled => "child" \in holders
        BY <2>3 DEF CallInv, LifeInv, AfterSpawn
      <3>2. /\ written' = written /\ child' = "exited" /\ status' = Signalled
            /\ holders' # {} => holders # {}
        BY <2>1, <2>3, <3>1 DEF KillChild
      <3>3. Contract!Host
        BY <2>1, <3>1, <3>2, HostStep
      <3> QED  BY <3>3 DEF Contract!Next
    <2> QED  BY <2>2, <2>3
  <1> QED  BY <1>1, <1>2, <1>3, <1>4 DEF Handler

\* What comes right behind a is the first of what follows it.
LEMMA FirstBehind ==
    ASSUME NEW a \in Seq(Chunk), NEW t \in Seq(Chunk), t # <<>>
    PROVE  Len(a \o t) = Len(a) + Len(t) /\ (a \o t)[Len(a) + 1] = t[1]
  OBVIOUS

\* w continues a with h.
Continues(w, a, h) == \E b \in Seq(Chunk) : w = a \o (h \o b)

\* A piece is the next of what was written: it follows what was printed.
LEMMA NextPiece ==
    ASSUME NEW a \in Seq(Chunk), NEW x \in Chunk, NEW w, Continues(w, a, <<x>>)
    PROVE  Len(a) < Len(w) /\ w[Len(a) + 1] = x
  <1>0. PICK b \in Seq(Chunk) : w = a \o (<<x>> \o b)
    BY DEF Continues
  <1>1. <<x>> \in Seq(Chunk) /\ Len(<<x>>) = 1 /\ <<x>>[1] = x
    OBVIOUS
  <1>2. Len(a) \in Nat /\ Len(b) \in Nat
    BY LenProperties
  <1> DEFINE t == <<x>> \o b
  <1>3. t \in Seq(Chunk) /\ Len(t) = 1 + Len(b) /\ t[1] = x
    <2>1. 1 \in 1..(1 + Len(b)) /\ 1 <= 1
      BY <1>2
    <2> QED  BY <1>1, <2>1, ConcatProperties
  <1> HIDE DEF t
  <1>4. Len(a \o t) = Len(a) + Len(t) /\ (a \o t)[Len(a) + 1] = t[1]
    <2>1. t # <<>>
      BY <1>2, <1>3
    <2> QED  BY <1>3, <2>1, FirstBehind
  <1>5. w = a \o t
    BY <1>0 DEF t
  <1> QED  BY <1>2, <1>3, <1>4, <1>5

\* What follows a and h, in however many parts, changes nothing about them.
LEMMA Behind ==
    ASSUME NEW a \in Seq(Chunk), NEW h \in Seq(Chunk), NEW r \in Seq(Chunk),
           NEW y \in Seq(Chunk), NEW z \in Seq(Chunk), NEW p \in Seq(Chunk)
    PROVE  Continues(a \o (h \o r) \o y \o z \o p, a, h)
  <1>1. ASSUME NEW b \in Seq(Chunk), NEW q \in Seq(Chunk)
        PROVE  /\ b \o q \in Seq(Chunk)
               /\ (a \o (h \o b)) \o q = a \o (h \o (b \o q))
    <2>1. h \o b \in Seq(Chunk) /\ b \o q \in Seq(Chunk)
      BY <1>1, ConcatProperties
    <2>2. Moves(a, h \o b, q) /\ Moves(h, b, q)
      BY <1>1, <2>1, Handover
    <2> QED  BY <2>1, <2>2 DEF Moves
  <1>2. r \o y \in Seq(Chunk) /\ (a \o (h \o r)) \o y = a \o (h \o (r \o y))
    BY <1>1
  <1>3. /\ (r \o y) \o z \in Seq(Chunk)
        /\ (a \o (h \o (r \o y))) \o z = a \o (h \o ((r \o y) \o z))
    BY <1>1, <1>2
  <1>4. /\ ((r \o y) \o z) \o p \in Seq(Chunk)
        /\ (a \o (h \o ((r \o y) \o z))) \o p = a \o (h \o (((r \o y) \o z) \o p))
    BY <1>1, <1>3
  <1> QED  BY <1>2, <1>3, <1>4 DEF Continues

\* The client prints the next piece of what the process wrote.
LEMMA PrintContract ==
    ASSUME CallInv, ClientPrints
    PROVE  \E s \in Stream : Contract!Deliver(s)
  <1> DEFINE f == Head(wire)
             s == f.stream
             x == f.data
  <1>1. /\ client = "waiting" /\ wire # <<>> /\ f.kind = "output" /\ wire' = Tail(wire)
        /\ received' = [received EXCEPT ![s] = Append(@, x)]
        /\ UNCHANGED <<written, status, launched, failed, child, holders, result>>
    BY DEF ClientPrints, daemon, host
  <1>2. /\ TypeInv /\ SilenceInv /\ OutputConserved
        /\ wire \in Seq(OutputFrame \cup ExitFrame)
    BY DEF CallInv, TypeInv, TypeOK
  <1>3. f \in OutputFrame \cup ExitFrame /\ f = wire[1] /\ 1 \in DOMAIN wire
    BY <1>1, <1>2, QueueSteps, QueueMembers
  <1>4. s \in Stream /\ x \in Chunk /\ Carries(f, s)
    BY <1>1, <1>3 DEF OutputFrame, ExitFrame, Carries
  <1>5. launched /\ ~failed
    BY <1>1, <1>2, <1>3 DEF SilenceInv, SilentUntilStarted, OneVerdict
  <1>6. result = NoResult /\ ~Gone
    BY <1>1 DEF CallInv, LifeInv, ClientInv, Gone
  <1> DEFINE r == Data(Tail(wire), s)
             y == Data(buffered, s)
             z == Data(events, s)
  <1>7. /\ received[s] \in Seq(Chunk) /\ wire \in Seq(Frame)
        /\ y \in Seq(Chunk) /\ z \in Seq(Chunk) /\ pipe[s] \in Seq(Chunk)
    BY <1>2, <1>4, PassageTypes
  <1>8. r \in Seq(Chunk) /\ Data(wire, s) = <<x>> \o r
    <2>1. Data(wire, s) = Own(f, s) \o r /\ Tail(wire) \in Seq(Frame) /\ f \in Frame
      BY <1>1, <1>7, DataSteps
    <2>2. Own(f, s) = <<x>>
      BY <1>4 DEF Own
    <2> QED  BY <2>1, <2>2, DataAppend
  <1>9. written[s] = received[s] \o (<<x>> \o r) \o y \o z \o pipe[s]
    BY <1>2, <1>4, <1>5, <1>6, <1>8 DEF OutputConserved
  <1> HIDE DEF f, s, x, r, y, z
  <1>10. Continues(written[s], received[s], <<x>>)
    <2>1. <<x>> \in Seq(Chunk)
      BY <1>4
    <2>2. Continues(received[s] \o (<<x>> \o r) \o y \o z \o pipe[s], received[s], <<x>>)
      BY <1>7, <1>8, <2>1, Behind
    <2> QED  BY <1>9, <2>2
  <1>11. Len(received[s]) < Len(written[s]) /\ written[s][Len(received[s]) + 1] = x
    BY <1>4, <1>7, <1>10, NextPiece
  <1>12. Contract!Deliver(s)
    BY <1>1, <1>5, <1>6, <1>11 DEF Contract!Deliver, ExitCode
  <1> QED  BY <1>4, <1>12

\* The client ends: with the code of the process once all is printed, or with that
\* of a failure.
LEMMA ExitContract ==
    ASSUME CallInv, CallInv',
           ClientConnectFails \/ ClientPrintFails \/ ClientExits \/ ClientSeesEOF
    PROVE  Contract!Complete \/ Contract!Fail
  <1> USE DEF daemon, host
  <1>0. TypeInv
    BY DEF CallInv
  <1>1. /\ client \in {"sending", "waiting"} /\ client' = "exited"
        /\ UNCHANGED <<written, received, status, launched, failed, child, holders>>
    BY DEF ClientConnectFails, ClientPrintFails, ClientExits, ClientSeesEOF, Leave
  <1>2. result = NoResult
    BY <1>1 DEF CallInv, LifeInv, ClientInv
  <1>3. CASE result' = 1
    BY <1>1, <1>2, <1>3 DEF Contract!Fail, Contract!Failure, ExitCode
  <1>4. CASE result' # 1
    <2>1. /\ child = "exited" /\ holders = {} /\ (launched \/ failed)
          /\ result' = ExitCode(status) % 256
          /\ launched => received = written
      BY <1>1, <1>4 DEF CallInv, Reported, Ended, ExitCode
    <2>2. status # NoStatus
      BY <1>0, <2>1 DEF TypeInv
    <2>3. ExitCode(status) % 256 \in 0..255
      BY <1>0, <2>1, CodeByte
    <2>4. ExitCode(status) % 256 # NoResult
      BY <2>3, ConstantsOK
    <2>5. launched /\ ~failed => received = written
      BY <2>1
    <2> QED  BY <1>1, <1>2, <2>1, <2>2, <2>4, <2>5 DEF Contract!Complete, ExitCode
  <1> QED  BY <1>3, <1>4

\* Every step of the call is one the contract allows, or one it does not see.
LEMMA StepContract ==
    ASSUME CallInv, CallInv', [Next]_vars
    PROVE  [Contract!Next]_(Contract!vars)
  <1>1. CASE UNCHANGED vars
    BY <1>1, UnseenStep DEF vars, guest, daemon, host
  <1>2. CASE ClientSend \/ ClientKilled
    BY <1>2, UnseenStep DEF ClientSend, ClientKilled, daemon, host
  <1>3. CASE ClientPrints
    BY <1>3, PrintContract DEF Contract!Next
  <1>4. CASE ClientConnectFails \/ ClientPrintFails \/ ClientExits \/ ClientSeesEOF
    BY <1>4, ExitContract DEF Contract!Next
  <1>5. CASE Handler
    BY <1>5, HandlerContract
  <1>6. CASE (\E s \in Stream : Pump(s)) \/ Monitor
    BY <1>6, TaskContract
  <1>7. CASE Process
    BY <1>7, ProcessContract DEF Contract!Next
  <1> QED  BY <1>1, <1>2, <1>3, <1>4, <1>5, <1>6, <1>7 DEF Next, Client

\* One passthrough call, with all its tasks, implements the contract of CommandRelay:
\* output in order and only of a launched command, and a code other than that of a
\* failure only when the process ended with it and all its output was printed.
THEOREM CallMeetsContract == Spec => MeetsContract
  <1>1. Init => Contract!Init
    BY InitContract
  <1>2. CallInv /\ CallInv' /\ [Next]_vars => [Contract!Next]_(Contract!vars)
    BY StepContract
  <1> QED  BY <1>1, <1>2, CallHolds, PTL DEF Spec, MeetsContract, Contract!Spec

=============================================================================
