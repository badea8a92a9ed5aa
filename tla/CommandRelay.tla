---------------------------- MODULE CommandRelay ----------------------------
(***************************************************************************)
(* What the passthrough channel promises to the program in the guest that *)
(* invoked a host command: its two output streams arrive as the host      *)
(* process wrote them, a refused launch shows nothing, and an exit code   *)
(* that is not the generic failure code is the process's own and comes    *)
(* after the last byte of output.                                         *)
(*                                                                         *)
(* This is the contract; ExecSession is the code that implements it.       *)
(***************************************************************************)
EXTENDS Integers, Sequences

CONSTANTS
    Stream,     \* the output streams of a command
    Chunk,      \* pieces of output, as the pipe hands them over
    Code,       \* exit codes a host process can end with
    NoResult    \* the invoker has no exit code yet

VARIABLES
    written,    \* written[s]: what the host process put on stream s
    open,       \* may the host process, or what it left behind, still write?
    exit,       \* the host process's exit code, NoResult while it runs
    launch,     \* "pending", "started" or "refused"
    received,   \* received[s]: what the invoker printed on stream s
    result      \* exit code the invoker ended with

vars == <<written, open, exit, launch, received, result>>

Failure == 1    \* the code every error path of daemon and client ends with

Init ==
    /\ written = [s \in Stream |-> <<>>]
    /\ open = TRUE
    /\ exit = NoResult
    /\ launch = "pending"
    /\ received = [s \in Stream |-> <<>>]
    /\ result = NoResult

\* The host side: a write, the end of the process, the end of its streams.
Host ==
    /\ \/ UNCHANGED written
       \/ /\ open
          /\ \E s \in Stream, c \in Chunk :
                written' = [written EXCEPT ![s] = Append(@, c)]
    /\ open' \in {open, FALSE}
    /\ \/ UNCHANGED exit
       \/ exit = NoResult /\ exit' \in Code
    /\ UNCHANGED <<launch, received, result>>

Decide ==
    /\ launch = "pending"
    /\ launch' \in {"started", "refused"}
    /\ UNCHANGED <<written, open, exit, received, result>>

\* Output arrives in order, and only once the command is known to run.
Deliver(s) ==
    /\ launch = "started"
    /\ result = NoResult
    /\ Len(received[s]) < Len(written[s])
    /\ received' = [received EXCEPT ![s] = Append(@, written[s][Len(@) + 1])]
    /\ UNCHANGED <<written, open, exit, launch, result>>

\* A result is the process's own once nothing more can come.
Complete ==
    /\ ~open
    /\ launch # "pending"
    /\ launch = "started" => received = written
    /\ result = NoResult
    /\ exit # NoResult
    /\ result' = exit
    /\ UNCHANGED <<written, open, exit, launch, received>>

\* Anything that goes wrong on the way ends the invoker with Failure.
Fail ==
    /\ result = NoResult
    /\ result' = Failure
    /\ UNCHANGED <<written, open, exit, launch, received>>

Next ==
    \/ Host
    \/ Decide
    \/ \E s \in Stream : Deliver(s)
    \/ Complete
    \/ Fail

Spec == Init /\ [][Next]_vars
=============================================================================
