---------------------------- MODULE BridgeFirewall ----------------------------
(***************************************************************************)
(* The egress firewall of bridged runs: one iptables chain of the host and *)
(* the jumps to it, which every run with an allow list installs before its *)
(* container starts and removes after it has ended (src/kata.rs), command  *)
(* by command.                                                             *)
(*                                                                         *)
(* iptables and the kernel are modelled from how they are called: a chain  *)
(* that a jump refers to, or that holds a rule, is not deleted, and one    *)
(* that does not exist is neither filled, flushed nor jumped to.           *)
(***************************************************************************)
EXTENDS Integers, Sequences, SequencesExt

CONSTANTS
    Runs,       \* runs of the host, each of which may be started again
    Dest,       \* destinations: address, protocol and port
    Listed,     \* Listed[r]: resolvers and allow list of run r, in rule order
    MaxStarts,  \* bound: how often a run is started
    None

ASSUME ConstantsOK ==
    /\ Listed \in [Runs -> Seq(Dest)]
    /\ Dest \cap {"established", "reject"} = {}
    /\ MaxStarts \in Nat
    /\ None \notin Seq(Dest \cup {"established", "reject"})

Rule == Dest \cup {"established", "reject"}

VARIABLES
    jumps,      \* how many rules of FORWARD jump to the chain
    chain,      \* its rules, or None
    pc,         \* pc[r]: the command run r is at
    stage,      \* stage[r]: it removes "before" its container or "after" it
    todo,       \* todo[r]: the rules it still has to add
    opened,     \* opened[r]: where its container has opened connections to
    starts,
    alone,      \* history: no other run was at work since r started
    soiled      \* history: a run broke off, or its final removal did not work,
                \* and no run that was alone has started since

kernel == <<jumps, chain>>
history == <<starts, alone, soiled>>
vars == <<kernel, pc, stage, todo, opened, history>>

Init ==
    /\ jumps = 0
    /\ chain = None
    /\ pc = [r \in Runs |-> "idle"]
    /\ stage = [r \in Runs |-> "before"]
    /\ todo = [r \in Runs |-> <<>>]
    /\ opened = [r \in Runs |-> {}]
    /\ starts = [r \in Runs |-> 0]
    /\ alone = [r \in Runs |-> FALSE]
    /\ soiled = FALSE

Idle(r) == pc[r] \in {"idle", "done"}

Goes(r, from, to) == pc[r] = from /\ pc' = [pc EXCEPT ![r] = to]

\* Slip: the rule that rejects comes first, as the default it stands for.
RejectFirst(r) == <<"established", "reject">> \o Listed[r]

Rules(r) == <<"established">> \o Listed[r] \o <<"reject">>

Starts(r) ==
    /\ Idle(r) /\ starts[r] < MaxStarts
    /\ starts' = [starts EXCEPT ![r] = @ + 1]
    /\ pc' = [pc EXCEPT ![r] = "unhook"]
    /\ stage' = [stage EXCEPT ![r] = "before"]
    /\ todo' = [todo EXCEPT ![r] = Rules(r)]
    /\ opened' = [opened EXCEPT ![r] = {}]
    /\ LET single == \A other \in Runs \ {r} : Idle(other) IN
        /\ alone' = [q \in Runs |-> q = r /\ single]
        /\ soiled' = (soiled /\ ~single)
    /\ UNCHANGED kernel

-----------------------------------------------------------------------------
(* remove_bridge_egress_firewall: what fails is passed over.               *)

\* Slip: one jump is taken away, not all.
UnhookOnce(r) ==
    /\ Goes(r, "unhook", "flush")
    /\ jumps' = IF jumps > 0 THEN jumps - 1 ELSE jumps
    /\ UNCHANGED <<chain, stage, todo, opened, history>>

\* iptables -D, until it fails.
Unhook(r) ==
    /\ IF jumps > 0
       THEN Goes(r, "unhook", "unhook") /\ jumps' = jumps - 1
       ELSE Goes(r, "unhook", "flush") /\ UNCHANGED jumps
    /\ UNCHANGED <<chain, stage, todo, opened, history>>

\* iptables -F
Flush(r) ==
    /\ Goes(r, "flush", "drop")
    /\ chain' = IF chain = None THEN None ELSE <<>>
    /\ UNCHANGED <<jumps, stage, todo, opened, history>>

AfterDrop(r) == IF stage[r] = "before" THEN "create" ELSE "done"

\* iptables -X
Drop(r) ==
    /\ Goes(r, "drop", AfterDrop(r))
    /\ chain' = IF jumps = 0 /\ chain = <<>> THEN None ELSE chain
    /\ UNCHANGED <<jumps, stage, todo, opened, history>>

\* One of these commands fails for another reason, the lock of xtables for one.
RemovalFails(r) ==
    /\ \/ Goes(r, "unhook", "flush") \/ Goes(r, "flush", "drop")
       \/ Goes(r, "drop", AfterDrop(r))
    /\ soiled' = (soiled \/ stage[r] = "after")
    /\ UNCHANGED <<kernel, stage, todo, opened, starts, alone>>

-----------------------------------------------------------------------------
(* ensure_bridge_egress_firewall                                           *)

\* iptables -N, which may fail
Create(r) ==
    /\ Goes(r, "create", "reset")
    /\ chain' \in {chain, IF chain = None THEN <<>> ELSE chain}
    /\ UNCHANGED <<jumps, stage, todo, opened, history>>

\* Slip: the chain was flushed by the removal already.
ResetTrusts(r) ==
    /\ Goes(r, "reset", "hook") /\ chain # None
    /\ UNCHANGED <<kernel, stage, todo, opened, history>>

\* iptables -F, which may not fail
Reset(r) ==
    /\ Goes(r, "reset", "hook") /\ chain # None
    /\ chain' = <<>>
    /\ UNCHANGED <<jumps, stage, todo, opened, history>>

\* iptables -I FORWARD
Hook(r) ==
    /\ Goes(r, "hook", "fill") /\ chain # None
    /\ jumps' = jumps + 1
    /\ UNCHANGED <<chain, stage, todo, opened, history>>

\* iptables -A; after the last one the container is started.
Fill(r) ==
    /\ Goes(r, "fill", IF Len(todo[r]) = 1 THEN "running" ELSE "fill")
    /\ chain # None
    /\ chain' = Append(chain, Head(todo[r]))
    /\ todo' = [todo EXCEPT ![r] = Tail(@)]
    /\ UNCHANGED <<jumps, stage, opened, history>>

\* A command fails that may not, the start of the container does, or the run is
\* killed: nothing is removed.
Breaks(r) ==
    /\ ~Idle(r)
    /\ pc' = [pc EXCEPT ![r] = "idle"]
    /\ soiled' = TRUE
    /\ UNCHANGED <<kernel, stage, todo, opened, starts, alone>>

-----------------------------------------------------------------------------
(* The container.                                                          *)

\* What FORWARD does with a new connection: the first rule that fits decides,
\* and without one the packet goes on.
Passes(d) ==
    jumps > 0 =>
        \A i \in DOMAIN chain : chain[i] = "reject" => \E j \in 1..i : chain[j] = d

Connects(r, d) ==
    /\ pc[r] = "running" /\ Passes(d)
    /\ opened' = [opened EXCEPT ![r] = @ \cup {d}]
    /\ UNCHANGED <<kernel, pc, stage, todo, history>>

\* Then remove_bridge_egress_firewall again.
ContainerEnds(r) ==
    /\ Goes(r, "running", "unhook")
    /\ stage' = [stage EXCEPT ![r] = "after"]
    /\ UNCHANGED <<kernel, todo, opened, history>>

Step(r) ==
    \/ Starts(r)
    \/ Unhook(r) \/ Flush(r) \/ Drop(r) \/ RemovalFails(r)
    \/ Create(r) \/ Reset(r) \/ Hook(r) \/ Fill(r) \/ Breaks(r)
    \/ \E d \in Dest : Connects(r, d)
    \/ ContainerEnds(r)

Next == \E r \in Runs : Step(r)

Spec == Init /\ [][Next]_vars

-----------------------------------------------------------------------------
(* Properties.                                                             *)

\* The kernel never has a jump to a chain that does not exist.
TypeOK ==
    /\ jumps \in Nat
    /\ chain \in Seq(Rule) \cup {None}
    /\ jumps > 0 => chain # None
    /\ pc \in [Runs -> {"idle", "unhook", "flush", "drop", "create", "reset", "hook",
                        "fill", "running", "done"}]
    /\ stage \in [Runs -> {"before", "after"}]
    /\ todo \in [Runs -> Seq(Rule)]
    /\ opened \in [Runs -> SUBSET Dest]
    /\ starts \in [Runs -> 0..MaxStarts]
    /\ alone \in [Runs -> BOOLEAN]
    /\ soiled \in BOOLEAN

\* A container that has the host for itself opens connections to what its run
\* lists and to nothing else, whatever earlier runs have left in the kernel and
\* whatever the removal before it could not remove.
OnlyListed == \A r \in Runs : alone[r] => opened[r] \subseteq Range(Listed[r])

\* And it reaches all of that.
ListedReachable ==
    \A r \in Runs : alone[r] /\ pc[r] = "running" =>
        \A d \in Range(Listed[r]) : Passes(d)

\* When all runs have ended, and ended well, neither jump nor chain is left,
\* however their commands fell between each other; and a later run that is alone
\* takes away what a broken one has left.
LeavesNothing ==
    ~soiled /\ (\A r \in Runs : Idle(r)) => jumps = 0 /\ chain = None

\* docs/guides/networking.md:33: the firewall "rejects all other egress".
RejectsAllOther == \A r \in Runs : opened[r] \subseteq Range(Listed[r])
=============================================================================
