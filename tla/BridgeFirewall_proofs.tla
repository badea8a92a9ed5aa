------------------------- MODULE BridgeFirewall_proofs -------------------------
(***************************************************************************)
(* Theorems about BridgeFirewall, for every number of runs and starts and  *)
(* all lists.                                                              *)
(***************************************************************************)
EXTENDS BridgeFirewall, SequenceTheorems, TLAPS

-----------------------------------------------------------------------------
(* Types.                                                                  *)

LEMMA RulesType == \A r \in Runs : Rules(r) \in Seq(Rule) /\ Rules(r) # <<>>
  <1> SUFFICES ASSUME NEW r \in Runs PROVE Rules(r) \in Seq(Rule) /\ Rules(r) # <<>>
    OBVIOUS
  <1>1. Listed[r] \in Seq(Dest)
    BY ConstantsOK
  <1>2. Listed[r] \in Seq(Rule)
    BY <1>1 DEF Rule
  <1>3. <<"established">> \in Seq(Rule) /\ <<"reject">> \in Seq(Rule)
    BY DEF Rule
  <1>4. Rules(r) \in Seq(Rule) /\ Len(Rules(r)) = Len(Listed[r]) + 2
    BY <1>2, <1>3 DEF Rules
  <1> QED  BY <1>2, <1>4

\* A run that still installs has rules to add.
Installing(r) ==
    pc[r] \in {"unhook", "flush", "drop", "create", "reset", "hook", "fill"} /\ stage[r] = "before"

HasRules ==
    \A r \in Runs :
        /\ pc[r] \in {"create", "reset", "hook", "fill"} => Installing(r)
        /\ Installing(r) => todo[r] # <<>>

TypeInv == TypeOK /\ HasRules

\* The last rule is the one nothing follows.
LEMMA LastRule ==
    ASSUME NEW t \in Seq(Rule), t # <<>>
    PROVE  /\ Head(t) \in Rule /\ Tail(t) \in Seq(Rule)
           /\ Tail(t) = <<>> <=> Len(t) = 1
  <1>1. Head(t) \in Rule /\ Tail(t) \in Seq(Rule) /\ Len(Tail(t)) = Len(t) - 1
    BY HeadTailProperties
  <1>2. Tail(t) = <<>> <=> Len(Tail(t)) = 0
    BY <1>1, EmptySeq
  <1>3. Len(t) \in Nat
    OBVIOUS
  <1> QED  BY <1>1, <1>2, <1>3

LEMMA EmptyChain == <<>> \in Seq(Rule) /\ None \notin Seq(Rule)
  <1>1. None \notin Seq(Rule)
    BY ConstantsOK DEF Rule
  <1> QED  BY <1>1

LEMMA InitTypes == Init => TypeInv
  <1> SUFFICES ASSUME Init PROVE TypeInv
    OBVIOUS
  <1>1. /\ todo \in [Runs -> Seq(Rule)]
        /\ starts \in [Runs -> 0..MaxStarts]
        /\ \A r \in Runs : pc[r] = "idle"
    BY EmptyChain, ConstantsOK DEF Init
  <1>2. TypeOK
    <2>1. /\ jumps \in Nat /\ chain \in Seq(Rule) \cup {None}
          /\ ~(jumps > 0)
      BY DEF Init
    <2>2. soiled \in BOOLEAN
      BY DEF Init
    <2>3. /\ pc \in [Runs -> {"idle", "unhook", "flush", "drop", "create", "reset", "hook",
                             "fill", "running", "done"}]
          /\ stage \in [Runs -> {"before", "after"}]
          /\ opened \in [Runs -> SUBSET Dest] /\ alone \in [Runs -> BOOLEAN]
      BY DEF Init
    <2> QED  BY <1>1, <2>1, <2>2, <2>3 DEF TypeOK
  <1> QED  BY <1>1, <1>2 DEF TypeInv, HasRules, Installing

\* A command that moves a run on changes neither its stage nor its rules.
LEMMA GoesOn ==
    ASSUME TypeInv, NEW r \in Runs, NEW from, NEW to, Goes(r, from, to),
           \/ <<from, to>> \in
                {<<"unhook", "unhook">>, <<"unhook", "flush">>, <<"flush", "drop">>,
                 <<"create", "reset">>, <<"reset", "hook">>, <<"hook", "fill">>}
           \/ from = "drop" /\ to = AfterDrop(r),
           UNCHANGED <<stage, todo>>
    PROVE  /\ pc' \in [Runs -> {"idle", "unhook", "flush", "drop", "create", "reset",
                                "hook", "fill", "running", "done"}]
           /\ HasRules'
  BY DEF TypeInv, TypeOK, HasRules, Installing, Goes, AfterDrop

LEMMA NextTypes == TypeInv /\ [Next]_vars => TypeInv'
  <1> SUFFICES ASSUME TypeInv, [Next]_vars PROVE TypeInv'
    OBVIOUS
  <1> USE DEF TypeInv
  <1>1. ASSUME NEW r \in Runs, Starts(r) PROVE TypeInv'
    <2>1. todo' \in [Runs -> Seq(Rule)] /\ todo'[r] # <<>>
      BY <1>1, RulesType DEF Starts, TypeOK
    <2>2. starts' \in [Runs -> 0..MaxStarts]
      BY <1>1, ConstantsOK DEF Starts, TypeOK
    <2>3. alone' \in [Runs -> BOOLEAN] /\ soiled' \in BOOLEAN
      BY <1>1 DEF Starts, TypeOK
    <2>4. TypeOK'
      BY <1>1, <2>1, <2>2, <2>3 DEF Starts, kernel, TypeOK
    <2>5. HasRules'
      BY <1>1, <2>1 DEF Starts, HasRules, Installing, TypeOK
    <2> QED  BY <2>4, <2>5
  <1>2. ASSUME NEW r \in Runs, Unhook(r) PROVE TypeInv'
    BY <1>2, GoesOn DEF Unhook, history, TypeOK
  <1>3. ASSUME NEW r \in Runs, Flush(r) \/ Drop(r) PROVE TypeInv'
    <2>1. chain' \in Seq(Rule) \cup {None} /\ (jumps' > 0 => chain' # None)
      <3>1. CASE Flush(r)
        BY <3>1, EmptyChain DEF Flush, TypeOK
      <3>2. CASE Drop(r)
        BY <3>2 DEF Drop, TypeOK
      <3> QED  BY <1>3, <3>1, <3>2
    <2> QED  BY <1>3, <2>1, GoesOn DEF Flush, Drop, history, TypeOK
  <1>4. ASSUME NEW r \in Runs, RemovalFails(r) PROVE TypeInv'
    BY <1>4, GoesOn DEF RemovalFails, kernel, TypeOK
  <1>5. ASSUME NEW r \in Runs, Create(r) \/ Reset(r) PROVE TypeInv'
    <2>1. chain' \in Seq(Rule) \cup {None} /\ (jumps' > 0 => chain' # None)
      <3>1. chain' \in {chain, <<>>} /\ jumps' = jumps
        BY <1>5 DEF Create, Reset
      <3> QED  BY <3>1, EmptyChain DEF TypeOK
    <2> QED  BY <1>5, <2>1, GoesOn DEF Create, Reset, history, TypeOK
  <1>6. ASSUME NEW r \in Runs, Hook(r) PROVE TypeInv'
    BY <1>6, GoesOn DEF Hook, history, TypeOK
  <1>7. ASSUME NEW r \in Runs, Fill(r) PROVE TypeInv'
    <2>1. todo[r] \in Seq(Rule) /\ todo[r] # <<>> /\ chain \in Seq(Rule)
      BY <1>7 DEF Fill, Goes, TypeOK, HasRules
    <2>2. Append(chain, Head(todo[r])) \in Seq(Rule) /\ Tail(todo[r]) \in Seq(Rule)
      BY <2>1, LastRule, AppendProperties
    <2>3. Len(todo[r]) # 1 => Tail(todo[r]) # <<>>
      BY <2>1, LastRule
    <2>4. /\ chain' \in Seq(Rule) /\ chain' # None
          /\ todo' = [todo EXCEPT ![r] = Tail(todo[r])]
      BY <1>7, <2>2, EmptyChain DEF Fill
    <2>5. TypeOK'
      BY <1>7, <2>2, <2>4 DEF Fill, Goes, history, TypeOK
    <2>6. HasRules'
      BY <1>7, <2>3, <2>4 DEF Fill, Goes, HasRules, Installing, TypeOK
    <2> QED  BY <2>5, <2>6
  <1>8. ASSUME NEW r \in Runs, Breaks(r) PROVE TypeInv'
    BY <1>8 DEF Breaks, kernel, TypeOK, HasRules, Installing
  <1>9. ASSUME NEW r \in Runs, NEW d \in Dest, Connects(r, d) PROVE TypeInv'
    BY <1>9 DEF Connects, kernel, history, TypeOK, HasRules, Installing
  <1>10. ASSUME NEW r \in Runs, ContainerEnds(r) PROVE TypeInv'
    BY <1>10 DEF ContainerEnds, Goes, kernel, history, TypeOK, HasRules, Installing
  <1>11. CASE UNCHANGED vars
    BY <1>11 DEF vars, kernel, history, TypeOK, HasRules, Installing
  <1> QED
    BY <1>1, <1>2, <1>3, <1>4, <1>5, <1>6, <1>7, <1>8, <1>9, <1>10, <1>11
    DEF Next, Step

\* No jump ever refers to a chain that is not there, and every variable keeps
\* its type.
THEOREM TypeCorrect == Spec => []TypeOK
  <1>1. TypeInv => TypeOK
    BY DEF TypeInv
  <1> QED  BY <1>1, InitTypes, NextTypes, PTL DEF Spec

-----------------------------------------------------------------------------
(* What is left behind.                                                    *)

Active(r) == r \in Runs /\ ~Idle(r)

\* r is at the flush or beyond for the last time.
Unhooked(r) == stage[r] = "after" /\ pc[r] \in {"flush", "drop"}
Flushed(r) == stage[r] = "after" /\ pc[r] = "drop"

\* For everything in the kernel there is a run that will take it away.
Owed ==
    ~soiled =>
        /\ jumps > 0 => \E r \in Runs : Active(r) /\ ~Unhooked(r)
        /\ chain \notin {None, <<>>} => \E r \in Runs : Active(r) /\ ~Flushed(r)
        /\ chain # None => \E r \in Runs : Active(r)

LEMMA NextOwed == TypeOK /\ Owed /\ [Next]_vars => Owed'
  <1> SUFFICES ASSUME TypeOK, Owed, [Next]_vars PROVE Owed'
    OBVIOUS
  <1> USE DEF TypeOK, Owed, Active, Idle, Unhooked, Flushed
  <1>1. ASSUME NEW r \in Runs, Starts(r) PROVE Owed'
    BY <1>1 DEF Starts, kernel
  <1>2. ASSUME NEW r \in Runs, Unhook(r) PROVE Owed'
    BY <1>2 DEF Unhook, Goes, history
  <1>3. ASSUME NEW r \in Runs, Flush(r) PROVE Owed'
    BY <1>3 DEF Flush, Goes, history
  <1>4. ASSUME NEW r \in Runs, Drop(r) PROVE Owed'
    BY <1>4 DEF Drop, AfterDrop, Goes, history
  <1>5. ASSUME NEW r \in Runs, RemovalFails(r) PROVE Owed'
    BY <1>5 DEF RemovalFails, AfterDrop, Goes, kernel
  <1>6. ASSUME NEW r \in Runs, Create(r) \/ Reset(r) PROVE Owed'
    BY <1>6 DEF Create, Reset, Goes, history
  <1>7. ASSUME NEW r \in Runs, Hook(r) \/ Fill(r) PROVE Owed'
    BY <1>7 DEF Hook, Fill, Goes, history
  <1>8. ASSUME NEW r \in Runs, Breaks(r) PROVE Owed'
    BY <1>8 DEF Breaks
  <1>9. ASSUME NEW r \in Runs, NEW d \in Dest, Connects(r, d) PROVE Owed'
    BY <1>9 DEF Connects, kernel, history
  <1>10. ASSUME NEW r \in Runs, ContainerEnds(r) PROVE Owed'
    BY <1>10 DEF ContainerEnds, Goes, kernel, history
  <1>11. CASE UNCHANGED vars
    BY <1>11 DEF vars, kernel, history
  <1> QED
    BY <1>1, <1>2, <1>3, <1>4, <1>5, <1>6, <1>7, <1>8, <1>9, <1>10, <1>11
    DEF Next, Step

\* When every run has ended, and ended well, the kernel is as it was, however
\* the commands of the runs fell between each other.
THEOREM NothingLeft == Spec => []LeavesNothing
  <1>1. Init => Owed
    BY DEF Init, Owed
  <1>2. TypeOK /\ Owed => LeavesNothing
    BY DEF TypeOK, Owed, LeavesNothing, Active
  <1> QED  BY <1>1, <1>2, NextOwed, TypeCorrect, PTL DEF Spec

-----------------------------------------------------------------------------
(* What a run that is alone lets through.                                  *)

\* The rules in the chain and those still to come.
LEMMA MoveHead ==
    ASSUME NEW S, NEW s \in Seq(S), NEW t \in Seq(S), t # <<>>
    PROVE  Append(s, Head(t)) \o Tail(t) = s \o t
  <1>1. Head(t) \in S /\ Tail(t) \in Seq(S) /\ Len(Tail(t)) = Len(t) - 1
    BY HeadTailProperties
  <1> DEFINE u == Append(s, Head(t)) \o Tail(t)
  <1>2. u \in Seq(S) /\ s \o t \in Seq(S) /\ Len(u) = Len(s \o t)
    BY <1>1
  <1>3. ASSUME NEW i \in 1..Len(u)
        PROVE  u[i] = (s \o t)[i]
    BY <1>1
  <1> QED  BY <1>2, <1>3, SeqEqual

\* What the steps of a run that is alone have made of the chain.
InOrder(r) ==
    /\ \A other \in Runs \ {r} : Idle(other)
    /\ opened[r] \subseteq Range(Listed[r])
    /\ stage[r] = "before" /\ pc[r] \in {"unhook", "flush", "drop"} => todo[r] = Rules(r)
    /\ pc[r] \in {"create", "reset"} => todo[r] = Rules(r)
    /\ pc[r] = "hook" => todo[r] = Rules(r) /\ chain = <<>>
    /\ pc[r] = "fill" => jumps > 0 /\ chain \o todo[r] = Rules(r)
    /\ pc[r] = "running" => jumps > 0 /\ chain = Rules(r)

Undisturbed == \A r \in Runs : alone[r] => InOrder(r)

\* Which new connections a finished chain lets pass.
LEMMA FinishedChain ==
    ASSUME NEW r \in Runs, chain = Rules(r), jumps > 0, NEW d \in Dest
    PROVE  Passes(d) <=> d \in Range(Listed[r])
  <1> DEFINE list == Listed[r]
             n == Len(list)
  <1>1. list \in Seq(Dest) /\ n \in Nat /\ d \notin {"established", "reject"}
    BY ConstantsOK
  <1>2. chain \in Seq(Dest \cup {"established", "reject"}) /\ Len(chain) = n + 2
    BY <1>1 DEF Rules
  <1>3. DOMAIN chain = 1..(n + 2)
    BY <1>2
  <1>4. /\ chain[1] = "established" /\ chain[n + 2] = "reject"
        /\ \A i \in 1..n : chain[i + 1] = list[i]
    <2> DEFINE front == <<"established">> \o list
    <2>1. /\ front \in Seq(Rule) /\ Len(front) = n + 1 /\ front[1] = "established"
          /\ \A i \in 1..n : front[i + 1] = list[i]
      BY <1>1 DEF Rule
    <2>2. chain = front \o <<"reject">>
      BY DEF Rules
    <2> HIDE DEF front
    <2>3. /\ chain[n + 2] = "reject"
          /\ \A i \in 1..(n + 1) : chain[i] = front[i]
      BY <1>1, <2>1, <2>2
    <2>4. \A i \in 1..n : i + 1 \in 1..(n + 1)
      BY <1>1
    <2> QED  BY <1>1, <2>1, <2>3, <2>4
  <1>5. \A i \in 1..n : list[i] \in Dest /\ list[i] # "reject"
    BY <1>1, ConstantsOK
  <1>6. \A i \in 2..(n + 1) : i - 1 \in 1..n /\ chain[i] = list[i - 1]
    <2> TAKE i \in 2..(n + 1)
    <2>1. i - 1 \in 1..n /\ (i - 1) + 1 = i
      BY <1>1
    <2> QED  BY <1>4, <2>1
  <1>7. ASSUME d \in Range(list) PROVE Passes(d)
    <2>1. PICK k \in 1..n : list[k] = d
      BY <1>1, <1>7 DEF Range
    <2>2. ASSUME NEW i \in 1..(n + 2), chain[i] = "reject"
          PROVE  \E j \in 1..i : chain[j] = d
      <3>1. i = n + 2
        <4>1. i # 1
          BY <1>4, <2>2
        <4>2. i \notin 2..(n + 1)
          BY <1>5, <1>6, <2>2
        <4> QED  BY <1>1, <2>2, <4>1, <4>2
      <3>2. k + 1 \in 1..i /\ chain[k + 1] = d
        BY <1>1, <1>4, <2>1, <3>1
      <3> QED  BY <3>2
    <2> QED  BY <1>3, <2>2 DEF Passes
  <1>8. ASSUME Passes(d) PROVE d \in Range(list)
    <2>1. PICK j \in 1..(n + 2) : chain[j] = d
      BY <1>1, <1>3, <1>4, <1>8 DEF Passes
    <2>2. j \in 2..(n + 1)
      BY <1>1, <1>4, <2>1
    <2>3. j - 1 \in 1..n /\ list[j - 1] = d
      BY <1>6, <2>1, <2>2
    <2> QED  BY <1>1, <2>3 DEF Range
  <1> QED  BY <1>7, <1>8

\* A run that is alone meets no other's step but a start, which ends that.
LEMMA OthersIdle ==
    ASSUME Undisturbed, NEW r \in Runs, NEW q \in Runs \ {r}, alone[r], Step(q)
    PROVE  ~alone'[r]
  <1>1. Idle(q)
    BY DEF Undisturbed, InOrder
  <1>2. Starts(q)
    BY <1>1 DEF Step, Idle, Unhook, Flush, Drop, RemovalFails, Create, Reset, Hook, Fill,
                Breaks, Connects, ContainerEnds, Goes
  <1> QED  BY <1>2 DEF Starts

LEMMA NextUndisturbed == TypeInv /\ Undisturbed /\ [Next]_vars => Undisturbed'
  <1> SUFFICES ASSUME TypeInv, Undisturbed, [Next]_vars, NEW r \in Runs, alone'[r]
               PROVE  InOrder(r)'
    BY DEF Undisturbed
  <1>1. CASE UNCHANGED vars
    BY <1>1 DEF vars, kernel, history, Undisturbed, InOrder, Idle, Rules
  <1>2. ASSUME NEW q \in Runs, Step(q), q # r
        PROVE  InOrder(r)'
    <2>1. ~alone[r]
      BY <1>2, OthersIdle
    <2>2. alone' = alone \/ Starts(q)
      BY <1>2 DEF Step, Unhook, Flush, Drop, RemovalFails, Create, Reset, Hook, Fill,
                  Breaks, Connects, ContainerEnds, history
    <2> QED  BY <1>2, <2>1, <2>2 DEF Starts
  <1>3. CASE Starts(r)
    BY <1>3 DEF TypeInv, TypeOK, Starts, InOrder, Idle, Rules
  <1>4. ASSUME Step(r), ~Starts(r)
        PROVE  InOrder(r)'
    <2>1. alone[r] /\ InOrder(r)
      BY <1>4 DEF Undisturbed, Step, Unhook, Flush, Drop, RemovalFails, Create, Reset,
                  Hook, Fill, Breaks, Connects, ContainerEnds, history
    <2> USE DEF TypeInv, TypeOK, HasRules, Installing, InOrder, Idle, Rules
    <2>2. CASE Unhook(r)
      BY <2>1, <2>2 DEF Unhook, Goes
    <2>3. CASE Flush(r) \/ Drop(r)
      BY <2>1, <2>3 DEF Flush, Drop, AfterDrop, Goes
    <2>4. CASE RemovalFails(r)
      BY <2>1, <2>4 DEF RemovalFails, AfterDrop, Goes
    <2>5. CASE Create(r) \/ Reset(r)
      BY <2>1, <2>5 DEF Create, Reset, Goes
    <2>6. CASE Hook(r)
      BY <2>1, <2>6 DEF Hook, Goes
    <2>7. CASE Fill(r)
      <3> HIDE DEF Rules
      <3>1. chain \in Seq(Rule) /\ todo[r] \in Seq(Rule) /\ todo[r] # <<>>
        BY <2>7 DEF Fill, Goes
      <3>2. chain' \o todo'[r] = Rules(r) /\ Rules(r)' = Rules(r)
        <4>1. chain' = Append(chain, Head(todo[r])) /\ todo'[r] = Tail(todo[r])
          BY <2>7 DEF Fill
        <4>2. chain \o todo[r] = Rules(r)
          BY <2>1, <2>7 DEF Fill, Goes
        <4>3. Append(chain, Head(todo[r])) \o Tail(todo[r]) = chain \o todo[r]
          BY <3>1, MoveHead
        <4> QED  BY <4>1, <4>2, <4>3 DEF Rules
      <3>3. Len(todo[r]) = 1 => chain' = Rules(r)
        <4>1. chain' \in Seq(Rule)
          BY <2>7, <3>1 DEF Fill
        <4>2. Len(todo[r]) = 1 => todo'[r] = <<>>
          <5>1. todo'[r] = Tail(todo[r])
            BY <2>7 DEF Fill
          <5> QED  BY <3>1, <5>1, LastRule
        <4>3. chain' \o <<>> = chain'
          BY <4>1, ConcatEmptySeq
        <4> QED  BY <3>2, <4>2, <4>3
      <3> QED  BY <2>1, <2>7, <3>2, <3>3 DEF Fill, Goes
    <2>8. CASE Breaks(r)
      BY <2>1, <2>8 DEF Breaks
    <2>9. ASSUME NEW d \in Dest, Connects(r, d) PROVE InOrder(r)'
      <3> HIDE DEF Rules
      <3>1. d \in Range(Listed[r])
        BY <2>1, <2>9, FinishedChain DEF Connects
      <3> QED  BY <2>1, <2>9, <3>1 DEF Connects, kernel, Rules
    <2>10. CASE ContainerEnds(r)
      BY <2>1, <2>10 DEF ContainerEnds, Goes
    <2> QED
      BY <1>4, <2>2, <2>3, <2>4, <2>5, <2>6, <2>7, <2>8, <2>9, <2>10 DEF Step
  <1> QED  BY <1>1, <1>2, <1>3, <1>4 DEF Next

LEMMA UndisturbedHolds == Spec => []Undisturbed
  <1>1. Init => Undisturbed
    BY DEF Init, Undisturbed
  <1> QED  BY <1>1, NextUndisturbed, InitTypes, NextTypes, PTL DEF Spec

\* What the steps of a run that is alone have made of the chain decides what
\* its container gets through.
LEMMA AloneMeansListed == Undisturbed => OnlyListed /\ ListedReachable
  <1> SUFFICES ASSUME Undisturbed, NEW r \in Runs, alone[r]
               PROVE  /\ opened[r] \subseteq Range(Listed[r])
                      /\ pc[r] = "running" => \A d \in Range(Listed[r]) : Passes(d)
    BY DEF OnlyListed, ListedReachable
  <1>1. Range(Listed[r]) \subseteq Dest
    BY ConstantsOK DEF Range
  <1> QED  BY <1>1, FinishedChain DEF Undisturbed, InOrder

\* A container that has the host for itself reaches nothing but what its run
\* lists, whatever was in the kernel before.
THEOREM ExactlyListed == Spec => []OnlyListed
  BY AloneMeansListed, UndisturbedHolds, PTL

\* And it reaches all of that: no rule of another run's chain, and no reject
\* that came too early, is in the way.
THEOREM AllListed == Spec => []ListedReachable
  BY AloneMeansListed, UndisturbedHolds, PTL
=============================================================================
