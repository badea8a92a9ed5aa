-------------------------- MODULE FilterProxy_proofs --------------------------
(***************************************************************************)
(* For all names, allow lists, answers of the name server and amounts of   *)
(* data: the proxy connects to checked addresses only, and what one end    *)
(* sends is at the other or on its way.                                    *)
(***************************************************************************)
EXTENDS FilterProxy, SequenceTheorems, WellFoundedInduction, TLAPS

\* A set of places in a sequence has a last one.
LEMMA LastPlace ==
    ASSUME NEW n \in Nat, NEW S, S \subseteq 1..n, S # {}
    PROVE  Max(S) \in S
  <1> DEFINE T == {k \in Nat : n - k \in S}
  <1>1. \A i \in S : i \in Nat /\ i <= n /\ n - i \in T
    <2> TAKE i \in S
    <2>1. i \in 1..n
      OBVIOUS
    <2>2. n - i \in Nat /\ n - (n - i) = i
      BY <2>1
    <2> QED  BY <2>1, <2>2
  <1>2. PICK m \in T : \A k \in T : ~(k < m)
    <2>1. T \subseteq Nat /\ T # {}
      BY <1>1
    <2> HIDE DEF T
    <2>2. PICK m \in T : \A k \in T : ~(<<k, m>> \in OpToRel(<, Nat))
      BY <2>1, NatLessThanWellFounded, WFMin
    <2>3. \A k \in T : ~(k < m)
      BY <2>1, <2>2 DEF OpToRel
    <2> QED  BY <2>3
  <1>3. \A i \in S : n - m >= i
    <2> TAKE i \in S
    <2>1. ~(n - i < m)
      BY <1>1, <1>2
    <2> QED  BY <1>1, <1>2, <2>1
  <1>4. n - m \in S
    BY <1>2
  <1> QED  BY <1>3, <1>4 DEF Max

\* What is_allowed accepts is an entry of the list, or ends in one.
LEMMA SuffixFound ==
    ASSUME NEW s \in Seq(STRING), NEW t \in Seq(STRING), IsSuffix(s, t)
    PROVE  s \in Suffixes(t)
  <1>1. Len(s) <= Len(t)
    BY DEF IsSuffix, IsPrefix, Reverse
  <1>2. ASSUME NEW i \in 1..Len(s)
        PROVE  s[i] = t[Len(t) - Len(s) + i]
    <2> DEFINE k == Len(s) - i + 1
    <2>1. k \in 1..Len(s)
      OBVIOUS
    <2>2. SubSeq(Reverse(s), 1, Len(s))[k] = s[Len(s) - k + 1]
      BY <2>1 DEF Reverse
    <2>3. SubSeq(Reverse(t), 1, Len(s))[k] = t[Len(t) - k + 1]
      BY <1>1, <2>1 DEF Reverse
    <2>4. SubSeq(Reverse(s), 1, Len(s)) = SubSeq(Reverse(t), 1, Len(s))
      <3>1. Len(Reverse(s)) = Len(s)
        BY DEF Reverse
      <3> QED  BY <3>1 DEF IsSuffix, IsPrefix
    <2> QED  BY <2>2, <2>3, <2>4
  <1>3. CASE s = <<>>
    BY <1>3 DEF Suffixes
  <1>4. CASE s # <<>>
    <2> DEFINE l == Len(t) - Len(s) + 1
    <2>1. Len(s) \in Nat \ {0}
      BY <1>4, EmptySeq
    <2>2. l \in 1..Len(t)
      BY <1>1, <2>1
    <2>3. SubSeq(t, l, Len(t)) = s
      BY <1>1, <1>2, <2>1, <2>2
    <2> QED  BY <2>2, <2>3 DEF Suffixes
  <1> QED  BY <1>3, <1>4

-----------------------------------------------------------------------------

HopState == {"none", "dialing", "waiting", "reading", "resolving", "connecting",
             "copying", "closed"}

\* The request the proxy has accepted.
Accepted ==
    /\ request.kind \in {"connect", "plain"}
    /\ IsAllowed(Normalize(request.name))

\* Who may have been started when.
InTurn ==
    /\ hop \in [Hop -> HopState]
    /\ client = "idle" => hop["relay"] = "none"
    /\ client # "idle" => request.kind \in Kind
    /\ hop["relay"] \in {"none", "dialing"} => hop["proxy"] = "none"
    /\ hop["proxy"] \notin {"copying", "closed"} => server = None

\* What the proxy may try and connect to.
Checked ==
    /\ candidates \subseteq lookup \cap Public
    /\ server = None \/ server \in lookup \cap Public
    /\ hop["proxy"] \in {"resolving", "connecting"} \/ server # None => Accepted

\* The inductive invariant.
IInv == InTurn /\ Checked /\ request.name \in Names \cup {<<>>}

LEMMA InitIInv == Init => IInv
  BY DEF Init, IInv, InTurn, Checked, Hop, HopState

\* A hop that is closed, or goes on as it is, does not disturb the invariant.
LEMMA Closing ==
    ASSUME IInv, NEW h \in Hop,
           \/ hop' = [hop EXCEPT ![h] = "closed"]
           \/ hop' = hop,
           h = "relay" \/ hop["relay"] \notin {"none", "dialing"} \/ hop' = hop,
           h = "proxy" \/ hop["relay"] # "none" \/ hop' = hop,
           UNCHANGED <<request, client, target>>
    PROVE  IInv'
  BY DEF IInv, InTurn, Checked, Accepted, target, Hop, HopState

LEMMA NextIInv == IInv /\ [Next]_vars => IInv'
  <1> SUFFICES ASSUME IInv, [Next]_vars PROVE IInv'
    OBVIOUS
  <1> USE DEF IInv, InTurn, Checked, Accepted, Hop, HopState
  <1>1. ASSUME NEW h \in Hop, NEW d \in Dir, Copy(h, d) PROVE IInv'
    BY <1>1, Closing DEF Copy, Closes, ends, target
  <1>2. CASE RelayDials
    BY <1>2 DEF RelayDials, Closes, ends, target
  <1>3. CASE ProxyAccepts
    BY <1>3 DEF ProxyAccepts, ends, target
  <1>4. CASE ProxyReads
    BY <1>4 DEF ProxyReads, Closes, ends, target, Kind
  <1>5. CASE ProxyResolves
    BY <1>5 DEF ProxyResolves, Valid, Closes, ends, target
  <1>6. CASE ProxyConnects
    BY <1>6 DEF ProxyConnects, Connected, ends
  <1>7. CASE ProxyMisses
    BY <1>7 DEF ProxyMisses, Closes, ends
  <1>8. CASE ProxyStops
    BY <1>8 DEF ProxyStops, Closes, ends, target, wires
  <1>9. CASE DaemonEnds
    BY <1>9 DEF DaemonEnds, Closes, ends, target
  <1>10. CASE ServerResets
    BY <1>10 DEF ServerResets, Closes, ends, target
  <1>11. CASE CommandEnds
    BY <1>11 DEF CommandEnds, Closes, ends, target, wires
  <1>12. ASSUME NEW kind \in Kind, NEW name \in Names, ClientAsks(kind, name)
         PROVE  IInv'
    BY <1>12 DEF ClientAsks, target
  <1>13. CASE ClientSends \/ ClientEnds \/ ClientReads
    BY <1>13 DEF ClientSends, ClientEnds, ClientReads, Sends, target
  <1>14. CASE ServerSends \/ ServerEnds \/ ServerReads
    BY <1>14 DEF ServerSends, ServerEnds, ServerReads, Sends, target
  <1>15. CASE UNCHANGED vars
    BY <1>15 DEF vars, ends, wires, target
  <1> QED
    BY <1>1, <1>2, <1>3, <1>4, <1>5, <1>6, <1>7, <1>8, <1>9, <1>10, <1>11, <1>12,
       <1>13, <1>14, <1>15
    DEF Next, Relay, Proxy, Client, Server

\* A name the proxy takes is one of the list or below one of it.
LEMMA AllowedName ==
    ASSUME NEW name \in Names \cup {<<>>}, IsAllowed(Normalize(name))
    PROVE  Allow \cap Suffixes(Normalize(name)) # {}
  <1>1. PICK entry \in Allow : IsSuffix(entry, Normalize(name))
    BY DEF IsAllowed
  <1>2. entry \in Seq(STRING) /\ name \in Seq(STRING)
    <2>1. \A n \in Names \cup Allow : n \in Seq(STRING)
      BY ConstantsOK
    <2>2. <<>> \in Seq(STRING)
      OBVIOUS
    <2> QED  BY <2>1, <2>2
  <1>3. Normalize(name) \in Seq(STRING)
    <2> DEFINE kept == {i \in DOMAIN name : name[i] # ""}
    <2>1. CASE kept = {}
      <3>1. Normalize(name) = <<>>
        BY <2>1 DEF Normalize
      <3> QED  BY <3>1
    <2>2. CASE kept # {}
      <3>1. Max(kept) \in 1..Len(name)
        <4>1. Len(name) \in Nat /\ kept \subseteq 1..Len(name)
          BY <1>2, LenProperties
        <4> QED  BY <2>2, <4>1, LastPlace
      <3>2. SubSeq(name, 1, Max(kept)) \in Seq(STRING)
        <4> HIDE DEF kept
        <4>1. 1 \in 1..(Len(name) + 1) /\ Max(kept) \in 0..Len(name)
          BY <1>2, <3>1, LenProperties
        <4> QED  BY <1>2, <4>1, SubSeqProperties
      <3> QED  BY <2>2, <3>2 DEF Normalize
    <2> QED  BY <2>1, <2>2
  <1> QED  BY <1>1, <1>2, <1>3, SuffixFound

\* The proxy is connected only to a public address out of the answer it has
\* checked, for a name on the list (resolve_and_validate, connect_upstream).
THEOREM ConnectionChecked == Spec => []ConnectsToChecked
  <1>1. IInv => ConnectsToChecked
    BY AllowedName DEF IInv, Checked, Accepted, ConnectsToChecked
  <1> QED  BY <1>1, InitIInv, NextIInv, PTL DEF Spec
-----------------------------------------------------------------------------
(* Types.                                                                  *)

Queues == [Link -> [Dir -> Seq(Item)]]

\* One more item on one way of one link, and nothing else.
LEMMA PutOne ==
    ASSUME NEW q \in Queues, NEW l \in Link, NEW d \in Dir, NEW item \in Item
    PROVE  /\ Put(q, l, d, item) \in Queues
           /\ Put(q, l, d, item)[l][d] = Append(q[l][d], item)
           /\ \A m \in Link, e \in Dir :
                m # l \/ e # d => Put(q, l, d, item)[m][e] = q[m][e]
  <1>1. q[l] \in [Dir -> Seq(Item)] /\ q[l][d] \in Seq(Item)
    BY DEF Queues
  <1>2. Append(q[l][d], item) \in Seq(Item)
    BY <1>1
  <1> QED  BY <1>1, <1>2 DEF Put, Queues

\* One item less.
LEMMA TakeOne ==
    ASSUME NEW q \in Queues, NEW l \in Link, NEW d \in Dir, q[l][d] # <<>>
    PROVE  LET rest == [q EXCEPT ![l][d] = Tail(@)]
           IN  /\ rest \in Queues /\ Head(q[l][d]) \in Item
               /\ rest[l][d] = Tail(q[l][d])
               /\ \A m \in Link, e \in Dir : m # l \/ e # d => rest[m][e] = q[m][e]
  <1>1. q[l] \in [Dir -> Seq(Item)] /\ q[l][d] \in Seq(Item)
    BY DEF Queues
  <1>2. Head(q[l][d]) \in Item /\ Tail(q[l][d]) \in Seq(Item)
    BY <1>1, HeadTailProperties
  <1> QED  BY <1>1, <1>2 DEF Queues

\* Sockets that are dropped end what is sent over them, at most.
LEMMA DropEnds ==
    ASSUME NEW q \in Queues, NEW h \in Hop
    PROVE  /\ Dropped(q, h) \in Queues
           /\ \A m \in Link, e \in Dir :
                \/ Dropped(q, h)[m][e] = q[m][e]
                \/ m = Near(h) /\ e = "down"
                \/ m = Far(h) /\ e = "up" /\ HasFar(h)
  <1> DEFINE near == End(q, h, Near(h), "down")
  <1>1. /\ Near(h) \in Link /\ Far(h) \in Link /\ "up" \in Dir /\ "down" \in Dir
        /\ "end" \in Item
    BY DEF Near, Far, Link, Hop, Dir, Item
  <1>2. /\ near \in Queues
        /\ \A m \in Link, e \in Dir : near[m][e] = q[m][e] \/ (m = Near(h) /\ e = "down")
    <2>1. near \in {q, Put(q, Near(h), "down", "end")}
      BY DEF End
    <2> HIDE DEF near
    <2> QED  BY <1>1, <2>1, PutOne
  <1>3. /\ End(near, h, Far(h), "up") \in Queues
        /\ \A m \in Link, e \in Dir :
             End(near, h, Far(h), "up")[m][e] = near[m][e] \/ (m = Far(h) /\ e = "up")
    <2>1. End(near, h, Far(h), "up") \in {near, Put(near, Far(h), "up", "end")}
      BY DEF End
    <2> HIDE DEF near
    <2> QED  BY <1>1, <1>2, <2>1, PutOne
  <1>4. Dropped(q, h) = IF HasFar(h) THEN End(near, h, Far(h), "up") ELSE near
    BY DEF Dropped
  <1> HIDE DEF near
  <1> QED  BY <1>2, <1>3, <1>4

\* The head of a request, in one part or two, is typed like the rest.
LEMMA ItemTypes ==
    /\ {"head", "rest", "200", "403", "end"} \subseteq Item /\ Range(Pieces) \subseteq Item
    /\ <<"head">> \in Seq(Item) /\ <<"head", "rest">> \in Seq(Item) /\ <<>> \in Seq(Item)
  BY DEF Item

\* What Closes makes of the hops and the links.
LEMMA CloseTypes ==
    ASSUME TypeOK, NEW h \in Hop, NEW q \in Queues, Closes(h, q)
    PROVE  /\ hop' = [hop EXCEPT ![h] = "closed"] /\ hop' \in [Hop -> HopState]
           /\ shut' \in [Hop -> SUBSET Dir]
           /\ queue' \in Queues
  BY DropEnds DEF Closes, TypeOK, HopState

LEMMA InitTypes == Init => TypeOK
  <1> SUFFICES ASSUME Init PROVE TypeOK
    OBVIOUS
  <1>1. queue \in [Link -> [Dir -> Seq(Item)]]
    BY ItemTypes DEF Init
  <1>2. sent \in [Dir -> Seq(Item)] /\ got \in [Dir -> Seq(Item)]
    BY ItemTypes DEF Init
  <1>3. hop \in [Hop -> HopState] /\ shut \in [Hop -> SUBSET Dir] /\ hop["proxy"] = "none"
    BY DEF Init, HopState, Hop
  <1>4. /\ request.kind = None /\ request.name = <<>> /\ client = "idle" /\ server = None
        /\ candidates = {} /\ lookup = {} /\ command = TRUE /\ accepting = TRUE /\ cut = FALSE
    BY DEF Init
  <1> QED  BY <1>1, <1>2, <1>3, <1>4 DEF TypeOK, HopState

\* A step of a hop that looks nothing up changes only the wires.
LEMMA WireTypes ==
    ASSUME TypeOK, UNCHANGED <<request, ends, target>>,
           command' \in BOOLEAN, accepting' \in BOOLEAN, cut' \in BOOLEAN,
           hop' \in [Hop -> HopState], shut' \in [Hop -> SUBSET Dir], queue' \in Queues,
           hop'["proxy"] # "connecting" \/ hop'["proxy"] = hop["proxy"]
    PROVE  TypeOK'
  BY DEF TypeOK, HopState, Queues, ends, target

\* The relay's and the proxy's steps keep every type.
LEMMA HopTypes ==
    ASSUME TypeOK,
           \/ Relay \/ Proxy \/ ProxyStops \/ DaemonEnds \/ ServerResets
           \/ CommandEnds
    PROVE  TypeOK'
  <1> USE ConstantsOK
  <1>0. /\ queue \in Queues /\ "relay" \in Hop /\ "proxy" \in Hop
        /\ {"tcp", "unix", "net"} \subseteq Link /\ {"up", "down"} \subseteq Dir
    BY DEF TypeOK, Queues, Hop, Link, Dir
  <1>1. ASSUME NEW h \in Hop, NEW d \in Dir, Copy(h, d) PROVE TypeOK'
    <2> DEFINE src == Source(h, d)
               item == Head(queue[src][d])
               rest == [queue EXCEPT ![src][d] = Tail(@)]
    <2>1. src \in Link /\ Sink(h, d) \in Link
      BY DEF Source, Sink, Near, Far, Link, Hop, Dir
    <2>2. rest \in Queues /\ item \in Item
      BY <1>0, <1>1, <2>1, TakeOne DEF Copy
    <2>3. Put(rest, Sink(h, d), d, item) \in Queues
      <3> HIDE DEF rest, item
      <3> QED  BY <2>1, <2>2, PutOne
    <2>4. CASE Deaf(h, d)
      <3>1. cut' = TRUE /\ Closes(h, rest)
        BY <1>1, <2>4 DEF Copy
      <3> HIDE DEF rest
      <3>2. /\ hop' = [hop EXCEPT ![h] = "closed"] /\ hop' \in [Hop -> HopState]
            /\ shut' \in [Hop -> SUBSET Dir] /\ queue' \in Queues
        BY <2>2, <3>1, CloseTypes
      <3>3. hop'["proxy"] # "connecting" \/ hop'["proxy"] = hop["proxy"]
        BY <3>2 DEF TypeOK
      <3>4. UNCHANGED <<command, accepting, request, ends, target>> /\ cut' \in BOOLEAN
        BY <1>1, <3>1 DEF Copy
      <3> QED  BY <3>2, <3>3, <3>4, WireTypes DEF TypeOK
    <2>5. CASE ~Deaf(h, d)
      <3>1. /\ queue' = Put(rest, Sink(h, d), d, item)
            /\ hop' \in {hop, [hop EXCEPT ![h] = "closed"]} /\ cut' = cut
            /\ shut' \in {shut, [shut EXCEPT ![h] = shut[h] \cup {d}]}
        <4> DEFINE done == IF item = "end" THEN shut[h] \cup {d} ELSE shut[h]
        <4>1. /\ queue' = Put(rest, Sink(h, d), d, item) /\ cut' = cut
              /\ shut' = [shut EXCEPT ![h] = done]
              /\ hop' = [hop EXCEPT ![h] = IF CopyDone(done) THEN "closed" ELSE @]
          BY <1>1, <2>5 DEF Copy
        <4> HIDE DEF item, rest
        <4>2. hop \in [Hop -> HopState] /\ shut \in [Hop -> SUBSET Dir]
          BY DEF TypeOK, HopState
        <4>3. [shut EXCEPT ![h] = shut[h]] = shut /\ [hop EXCEPT ![h] = hop[h]] = hop
          BY <4>2
        <4> QED  BY <4>1, <4>3
      <3> HIDE DEF rest, item
      <3>2. queue' \in Queues
        BY <2>3, <3>1
      <3>3. shut' \in [Hop -> SUBSET Dir]
        <4>1. shut \in [Hop -> SUBSET Dir]
          BY DEF TypeOK
        <4>2. shut[h] \cup {d} \in SUBSET Dir
          BY <4>1
        <4> QED  BY <3>1, <4>1, <4>2
      <3>4. hop' \in [Hop -> HopState]
        BY <3>1 DEF TypeOK, HopState
      <3>5. hop'["proxy"] # "connecting" \/ hop'["proxy"] = hop["proxy"]
        BY <1>0, <3>1 DEF TypeOK
      <3>6. UNCHANGED <<command, accepting, request, ends, target, cut>>
        BY <1>1, <3>1 DEF Copy
      <3> QED  BY <3>2, <3>3, <3>4, <3>5, <3>6, WireTypes DEF TypeOK
    <2> QED  BY <2>4, <2>5
  <1>2. CASE RelayDials
    <2>1. \/ hop' = [hop EXCEPT !["relay"] = "copying", !["proxy"] = "waiting"]
             /\ UNCHANGED <<shut, queue>>
          \/ Closes("relay", queue)
      BY <1>2 DEF RelayDials
    <2>2. hop' \in [Hop -> HopState] /\ hop'["proxy"] \in {hop["proxy"], "waiting"}
          /\ shut' \in [Hop -> SUBSET Dir] /\ queue' \in Queues
      BY <1>0, <2>1, CloseTypes DEF TypeOK, HopState, Hop
    <2> QED  BY <1>2, <2>2 DEF RelayDials, TypeOK, HopState, Queues, ends, target
  <1>3. CASE ProxyAccepts
    <2>1. hop' \in [Hop -> HopState] /\ hop'["proxy"] = "reading"
      BY <1>0, <1>3 DEF ProxyAccepts, TypeOK, HopState
    <2> QED  BY <1>0, <1>3, <2>1, WireTypes DEF ProxyAccepts, TypeOK
  <1>4. CASE ProxyReads
    <2> DEFINE rest == [queue EXCEPT !["unix"]["up"] = Tail(@)]
    <2>1. rest \in Queues
      BY <1>0, <1>4, TakeOne DEF ProxyReads
    <2>2. Put(rest, "unix", "down", "403") \in Queues
      <3> HIDE DEF rest
      <3> QED  BY <1>0, <2>1, PutOne, ItemTypes
    <2>3. \/ Closes("proxy", rest)
          \/ Closes("proxy", Put(rest, "unix", "down", "403"))
          \/ /\ hop' = [hop EXCEPT !["proxy"] = "resolving"]
             /\ queue' = rest /\ shut' = shut
      BY <1>4 DEF ProxyReads
    <2> HIDE DEF rest
    <2>4. /\ hop' \in {[hop EXCEPT !["proxy"] = "closed"], [hop EXCEPT !["proxy"] = "resolving"]}
          /\ shut' \in [Hop -> SUBSET Dir] /\ queue' \in Queues
      <3>1. shut \in [Hop -> SUBSET Dir]
        BY DEF TypeOK
      <3> QED  BY <1>0, <2>1, <2>2, <2>3, <3>1, CloseTypes
    <2>5. hop' \in [Hop -> HopState] /\ hop'["proxy"] # "connecting"
      BY <1>0, <2>4 DEF TypeOK, HopState
    <2> QED  BY <1>4, <2>4, <2>5, WireTypes DEF ProxyReads, TypeOK
  <1>5. CASE ProxyResolves \/ ProxyMisses
    <2>1. /\ candidates' \subseteq Public /\ lookup' \in Answers \cup {{}}
      BY <1>5 DEF ProxyResolves, ProxyMisses, Valid, TypeOK
    <2>2. \/ candidates' = {} /\ Closes("proxy", queue)
          \/ /\ candidates' # {} /\ UNCHANGED <<shut, queue>>
             /\ hop' \in {hop, [hop EXCEPT !["proxy"] = "connecting"]}
      BY <1>5 DEF ProxyResolves, ProxyMisses
    <2>3. /\ hop' \in [Hop -> HopState] /\ (hop'["proxy"] = "connecting" => candidates' # {})
          /\ shut' \in [Hop -> SUBSET Dir] /\ queue' \in Queues
      <3>1. CASE candidates' = {} /\ Closes("proxy", queue)
        BY <1>0, <3>1, CloseTypes
      <3>2. CASE /\ candidates' # {} /\ UNCHANGED <<shut, queue>>
                 /\ hop' \in {hop, [hop EXCEPT !["proxy"] = "connecting"]}
        BY <1>0, <3>2 DEF TypeOK, HopState
      <3> QED  BY <2>2, <3>1, <3>2
    <2> QED
      BY <1>5, <2>1, <2>3 DEF ProxyResolves, ProxyMisses, TypeOK, HopState, Queues, ends
  <1>6. CASE ProxyConnects
    <2>1. PICK addr \in candidates : Connected(addr)
      BY <1>6 DEF ProxyConnects
    <2>2. addr \in Addr
      BY <2>1 DEF TypeOK
    <2>3. queue' \in Queues
      <3>1. queue' \in {Put(queue, "net", "up", "end"), Put(queue, "unix", "down", "200"),
                        Put(queue, "net", "up", "head")}
        BY <2>1 DEF Connected, Greet
      <3>2. {"end", "200", "head"} \subseteq Item
        BY ItemTypes
      <3>3. /\ Put(queue, "net", "up", "end") \in Queues
            /\ Put(queue, "unix", "down", "200") \in Queues
            /\ Put(queue, "net", "up", "head") \in Queues
        BY <1>0, <3>2, PutOne
      <3> QED  BY <3>1, <3>3
    <2>4. /\ hop' \in [Hop -> HopState] /\ hop'["proxy"] # "connecting"
          /\ shut' \in [Hop -> SUBSET Dir] /\ cut' \in BOOLEAN
      <3>1. /\ hop' \in {[hop EXCEPT !["proxy"] = "closed"], [hop EXCEPT !["proxy"] = "copying"]}
            /\ shut' \in {shut, [shut EXCEPT !["proxy"] = Dir]} /\ cut' \in {cut, TRUE}
        BY <2>1 DEF Connected
      <3>2. hop' \in [Hop -> HopState] /\ hop'["proxy"] # "connecting"
        <4>1. hop \in [Hop -> HopState]
          BY DEF TypeOK, HopState
        <4>2. {"closed", "copying"} \subseteq HopState
          BY DEF HopState
        <4> QED  BY <1>0, <3>1, <4>1, <4>2
      <3>3. shut' \in [Hop -> SUBSET Dir]
        <4>1. shut \in [Hop -> SUBSET Dir]
          BY DEF TypeOK
        <4> QED  BY <3>1, <4>1
      <3>4. cut' \in BOOLEAN
        <4>1. cut \in BOOLEAN
          BY DEF TypeOK
        <4> QED  BY <3>1, <4>1
      <3> QED  BY <3>2, <3>3, <3>4
    <2> QED
      BY <2>1, <2>2, <2>3, <2>4 DEF Connected, TypeOK, HopState, Queues, ends
  <1>7. CASE ProxyStops \/ DaemonEnds \/ ServerResets \/ CommandEnds
    <2>1. \/ UNCHANGED wires
          \/ Closes("proxy", queue) \/ Closes("relay", queue)
      BY <1>7 DEF ProxyStops, DaemonEnds, ServerResets, CommandEnds
    <2>2. /\ hop' \in [Hop -> HopState] /\ hop'["proxy"] \in {hop["proxy"], "closed"}
          /\ shut' \in [Hop -> SUBSET Dir] /\ queue' \in Queues
      BY <1>0, <2>1, CloseTypes DEF TypeOK, HopState, wires, Hop
    <2>3. /\ UNCHANGED <<request, ends, target>>
          /\ command' \in BOOLEAN /\ accepting' \in BOOLEAN /\ cut' \in BOOLEAN
      BY <1>7 DEF ProxyStops, DaemonEnds, ServerResets, CommandEnds, TypeOK
    <2> QED  BY <2>2, <2>3 DEF TypeOK, HopState, Queues, ends, target
  <1> QED
    BY <1>0, <1>1, <1>2, <1>3, <1>4, <1>5, <1>6, <1>7 DEF Relay, Proxy


\* The client's steps and the server's keep every type.
LEMMA EndTypes ==
    ASSUME TypeOK,
           \/ \E kind \in Kind, name \in Names : ClientAsks(kind, name)
           \/ ClientSends \/ ClientEnds \/ ClientReads
           \/ ServerSends \/ ServerEnds \/ ServerReads
    PROVE  TypeOK'
  <1>0. /\ queue \in Queues
        /\ {"tcp", "unix", "net"} \subseteq Link /\ {"up", "down"} \subseteq Dir
    BY DEF TypeOK, Queues, Link, Dir
  <1>1. ASSUME NEW kind \in Kind, NEW name \in Names, ClientAsks(kind, name)
        PROVE  TypeOK'
    <2>1. PICK parts \in {<<"head">>, <<"head", "rest">>} :
            /\ queue' = [queue EXCEPT !["tcp"]["up"] = parts]
            /\ sent' = [sent EXCEPT !["up"] = parts]
      BY <1>1 DEF ClientAsks
    <2>2. parts \in Seq(Item)
      BY ItemTypes
    <2>3. queue' \in Queues
      BY <1>0, <2>1, <2>2 DEF Queues
    <2>4. sent' \in [Dir -> Seq(Item)]
      BY <1>0, <2>1, <2>2 DEF TypeOK
    <2>5. hop' \in [Hop -> HopState] /\ (hop'["proxy"] = hop["proxy"])
      BY <1>1 DEF ClientAsks, TypeOK, HopState, Hop
    <2>6. /\ request'.kind \in Kind /\ request'.name \in Names
          /\ client' \in {"asking", "talking"}
          /\ UNCHANGED <<command, accepting, got, shut, target, cut>>
      BY <1>1 DEF ClientAsks
    <2> QED  BY <2>3, <2>4, <2>5, <2>6 DEF TypeOK, Queues, HopState, target
  <1>2. ASSUME NEW d \in Dir, NEW l \in Link, NEW item \in Item, Sends(d, l, item),
               client' \in {"idle", "asking", "talking", "ended"}
        PROVE  TypeOK'
    <2>1. queue' \in Queues
      BY <1>0, <1>2, PutOne DEF Sends
    <2>2. sent[d] \in Seq(Item)
      BY DEF TypeOK
    <2>3. Append(sent[d], item) \in Seq(Item)
      BY <2>2
    <2>4. sent' \in [Dir -> Seq(Item)]
      BY <1>2, <2>3 DEF Sends, TypeOK
    <2>5. UNCHANGED <<command, accepting, request, got, hop, shut, target, cut>>
      BY <1>2 DEF Sends
    <2> QED  BY <1>2, <2>1, <2>4, <2>5 DEF TypeOK, Queues, target
  <1>3. ASSUME NEW d \in Dir, NEW l \in Link, queue[l][d] # <<>>,
               got' = [got EXCEPT ![d] = Append(@, Head(queue[l][d]))],
               queue' = [queue EXCEPT ![l][d] = Tail(@)],
               client' \in {"idle", "asking", "talking", "ended"},
               UNCHANGED <<command, accepting, request, sent, hop, shut, target, cut>>
        PROVE  TypeOK'
    <2>1. queue' \in Queues /\ Head(queue[l][d]) \in Item
      BY <1>0, <1>3, TakeOne
    <2>2. got[d] \in Seq(Item)
      BY DEF TypeOK
    <2>3. Append(got[d], Head(queue[l][d])) \in Seq(Item)
      BY <2>1, <2>2
    <2>4. got' \in [Dir -> Seq(Item)]
      BY <1>3, <2>3 DEF TypeOK
    <2> QED  BY <1>3, <2>1, <2>4 DEF TypeOK, Queues, target
  <1>4. \A i : i \in 1..Len(Pieces) => Pieces[i] \in Item
    <2>1. DOMAIN Pieces = 1..Len(Pieces)
      BY ConstantsOK, LenProperties
    <2> QED  BY <2>1 DEF Range, Item
  <1>5. client \in {"idle", "asking", "talking", "ended"}
    BY DEF TypeOK
  <1>6. CASE ClientSends \/ ServerSends
    <2>1. \A d \in Dir : Said(d) \in Nat
      BY DEF Said
    <2> QED  BY <1>0, <1>2, <1>4, <1>5, <1>6, <2>1 DEF ClientSends, ServerSends
  <1>7. CASE ClientEnds \/ ServerEnds
    BY <1>0, <1>2, <1>5, <1>7, ItemTypes DEF ClientEnds, ServerEnds
  <1>8. CASE ClientReads
    BY <1>0, <1>3, <1>5, <1>8 DEF ClientReads
  <1>9. CASE ServerReads
    BY <1>0, <1>3, <1>5, <1>9 DEF ServerReads
  <1> QED  BY <1>1, <1>6, <1>7, <1>8, <1>9

LEMMA NextTypes == TypeOK /\ [Next]_vars => TypeOK'
  <1>1. ASSUME TypeOK, UNCHANGED vars PROVE TypeOK'
    BY <1>1 DEF vars, ends, wires, target, TypeOK
  <1> QED  BY <1>1, HopTypes, EndTypes DEF Next, Client, Server

\* Whatever is on a link is an item, and whoever connects has an address to try.
THEOREM TypeCorrect == Spec => []TypeOK
  BY InitTypes, NextTypes, PTL DEF Spec

-----------------------------------------------------------------------------
(* What one end sent is at the other or on its way.                        *)

\* Four stretches of one way, after what the proxy took from it.
Flow(first, s1, s2, s3, s4) == first \o s1 \o s2 \o s3 \o s4

\* The first of one stretch becomes the last of the one before: the whole is the
\* same.
Passes(r, s, t) == (r \o Append(s, Head(t))) \o Tail(t) = (r \o s) \o t

LEMMA MoveBehind ==
    ASSUME NEW S, NEW r \in Seq(S), NEW s \in Seq(S), NEW t \in Seq(S), t # <<>>
    PROVE  Passes(r, s, t)
  <1>1. Head(t) \in S /\ Tail(t) \in Seq(S) /\ Len(Tail(t)) = Len(t) - 1
    BY HeadTailProperties
  <1> DEFINE front == r \o Append(s, Head(t))
             tail == Tail(t)
             u == front \o tail
             v == (r \o s) \o t
  <1>2. /\ front \in Seq(S) /\ Len(front) = Len(r) + Len(s) + 1
        /\ r \o s \in Seq(S) /\ Len(r \o s) = Len(r) + Len(s)
        /\ \A k \in 1..Len(front) :
                front[k] = IF k <= Len(r) + Len(s) THEN (r \o s)[k] ELSE t[1]
    BY <1>1
  <1>3. /\ tail \in Seq(S) /\ Len(tail) = Len(t) - 1
        /\ \A k \in 2..Len(t) : tail[k - 1] = t[k]
    BY <1>1
  <1>4. /\ u \in Seq(S) /\ Len(u) = Len(front) + Len(tail)
        /\ \A i \in 1..Len(u) : u[i] = IF i <= Len(front) THEN front[i] ELSE tail[i - Len(front)]
    <2> HIDE DEF front, tail
    <2>0. front \in Seq(S) /\ tail \in Seq(S)
      BY <1>2, <1>3
    <2>1. /\ u \in Seq(S) /\ Len(u) = Len(front) + Len(tail)
          /\ \A i \in 1..Len(front) + Len(tail) :
                u[i] = IF i <= Len(front) THEN front[i] ELSE tail[i - Len(front)]
      BY <2>0, ConcatProperties, Zenon
    <2> HIDE DEF u
    <2> QED  BY <2>1
  <1>5. /\ v \in Seq(S) /\ Len(v) = Len(r) + Len(s) + Len(t)
        /\ \A i \in 1..Len(v) :
                v[i] = IF i <= Len(r) + Len(s) THEN (r \o s)[i] ELSE t[i - (Len(r) + Len(s))]
    BY <1>2
  <1>6. Len(r) \in Nat /\ Len(s) \in Nat /\ Len(t) \in Nat
    OBVIOUS
  <1> HIDE DEF front, tail, u, v
  <1>7. Len(u) = Len(v)
    BY <1>2, <1>3, <1>4, <1>5, <1>6
  <1>8. ASSUME NEW i \in 1..Len(u)
        PROVE  u[i] = v[i]
    <2>1. CASE i <= Len(front)
      <3>1. i \in 1..Len(front) /\ i \in 1..Len(v)
        BY <1>2, <1>4, <1>6, <1>7, <2>1
      <3>2. u[i] = front[i]
        BY <1>4, <2>1
      <3>3. CASE i <= Len(r) + Len(s)
        <4>1. front[i] = (r \o s)[i]
          BY <1>2, <3>1, <3>3
        <4>2. v[i] = (r \o s)[i]
          BY <1>5, <3>1, <3>3
        <4> QED  BY <3>2, <4>1, <4>2, Zenon
      <3>4. CASE ~(i <= Len(r) + Len(s))
        <4>1. front[i] = t[1] /\ v[i] = t[i - (Len(r) + Len(s))]
          BY <1>2, <1>5, <3>1, <3>4
        <4>2. i - (Len(r) + Len(s)) = 1
          <5>1. Len(front) = Len(r) + Len(s) + 1
            BY <1>2
          <5> QED  BY <1>6, <3>1, <3>4, <5>1
        <4> QED  BY <3>2, <4>1, <4>2
      <3> QED  BY <3>3, <3>4
    <2>2. CASE i > Len(front)
      <3> DEFINE k == i - (Len(r) + Len(s))
      <3>1. k \in 2..Len(t) /\ k - 1 = i - Len(front)
        BY <1>2, <1>3, <1>4, <1>6, <2>2
      <3>2. u[i] = tail[k - 1] /\ v[i] = t[k]
        BY <1>2, <1>4, <1>5, <1>6, <1>7, <2>2, <3>1
      <3> QED  BY <1>3, <3>1, <3>2
    <2> QED  BY <1>2, <1>6, <2>1, <2>2
  <1>9. u = v
    BY <1>4, <1>5, <1>7, <1>8, SeqEqual
  <1> QED  BY <1>9 DEF Passes, u, v, front, tail

\* An item that is passed on, on any of the three ways it can go.
MovesKeep(first, s1, s2, s3, s4) ==
    /\ s2 # <<>> =>
        Flow(first, Append(s1, Head(s2)), Tail(s2), s3, s4) = Flow(first, s1, s2, s3, s4)
    /\ s3 # <<>> =>
        Flow(first, s1, Append(s2, Head(s3)), Tail(s3), s4) = Flow(first, s1, s2, s3, s4)
    /\ s4 # <<>> =>
        Flow(first, s1, s2, Append(s3, Head(s4)), Tail(s4)) = Flow(first, s1, s2, s3, s4)

LEMMA FlowMoves ==
    ASSUME NEW S, NEW first \in Seq(S), NEW s1 \in Seq(S), NEW s2 \in Seq(S),
           NEW s3 \in Seq(S), NEW s4 \in Seq(S)
    PROVE  MovesKeep(first, s1, s2, s3, s4)
  <1>1. first \o s1 \in Seq(S) /\ first \o s1 \o s2 \in Seq(S)
    BY ConcatProperties
  <1>2. s2 # <<>> => Passes(first, s1, s2)
    BY MoveBehind
  <1>3. s3 # <<>> => Passes(first \o s1, s2, s3)
    BY <1>1, MoveBehind
  <1>4. s4 # <<>> => Passes(first \o s1 \o s2, s3, s4)
    BY <1>1, MoveBehind
  <1>5. ASSUME s2 # <<>>
        PROVE  Flow(first, Append(s1, Head(s2)), Tail(s2), s3, s4) = Flow(first, s1, s2, s3, s4)
    BY <1>2, <1>5, Zenon DEF Flow, Passes
  <1>6. ASSUME s3 # <<>>
        PROVE  Flow(first, s1, Append(s2, Head(s3)), Tail(s3), s4) = Flow(first, s1, s2, s3, s4)
    BY <1>3, <1>6, Zenon DEF Flow, Passes
  <1>7. ASSUME s4 # <<>>
        PROVE  Flow(first, s1, s2, Append(s3, Head(s4)), Tail(s4)) = Flow(first, s1, s2, s3, s4)
    BY <1>4, <1>7, Zenon DEF Flow, Passes
  <1> QED  BY <1>5, <1>6, <1>7, Zenon DEF MovesKeep

\* Sending behind something else is sending.
SentBehind(r, s, item) == r \o Append(s, item) = Append(r \o s, item)

LEMMA AppendBehind ==
    ASSUME NEW S, NEW r \in Seq(S), NEW s \in Seq(S), NEW item \in S
    PROVE  SentBehind(r, s, item)
  <1> DEFINE u == r \o Append(s, item)
             v == Append(r \o s, item)
  <1>1. u \in Seq(S) /\ v \in Seq(S) /\ Len(u) = Len(v)
    OBVIOUS
  <1>2. \A i \in 1..Len(u) : u[i] = v[i]
    OBVIOUS
  <1>3. u = v
    BY <1>1, <1>2, SeqEqual
  <1> QED  BY <1>3 DEF SentBehind

\* Sending at the far end of a way.
Grows(first, s1, s2, s3, s4, item) ==
    Flow(first, s1, s2, s3, Append(s4, item)) = Append(Flow(first, s1, s2, s3, s4), item)

LEMMA FlowGrows ==
    ASSUME NEW S, NEW first \in Seq(S), NEW s1 \in Seq(S), NEW s2 \in Seq(S),
           NEW s3 \in Seq(S), NEW s4 \in Seq(S), NEW item \in S
    PROVE  Grows(first, s1, s2, s3, s4, item)
  <1>1. first \o s1 \o s2 \o s3 \in Seq(S)
    BY ConcatProperties
  <1>2. SentBehind(first \o s1 \o s2 \o s3, s4, item)
    BY <1>1, AppendBehind
  <1> QED  BY <1>2, Zenon DEF SentBehind, Flow, Grows

\* Nothing sent, nothing on its way.
LEMMA FlowEmpty ==
    ASSUME NEW S, NEW s1 \in Seq(S), NEW s2 \in Seq(S), NEW s3 \in Seq(S), NEW s4 \in Seq(S),
           Flow(<<>>, s1, s2, s3, s4) = <<>>
    PROVE  s1 = <<>> /\ s2 = <<>> /\ s3 = <<>> /\ s4 = <<>>
  <1>1. /\ <<>> \o s1 \in Seq(S) /\ Len(<<>> \o s1) = Len(s1)
        /\ <<>> \o s1 \o s2 \in Seq(S) /\ Len(<<>> \o s1 \o s2) = Len(s1) + Len(s2)
    BY ConcatProperties
  <1>2. /\ <<>> \o s1 \o s2 \o s3 \in Seq(S)
        /\ Len(<<>> \o s1 \o s2 \o s3) = Len(s1) + Len(s2) + Len(s3)
    BY <1>1, ConcatProperties
  <1>3. Len(Flow(<<>>, s1, s2, s3, s4)) = Len(s1) + Len(s2) + Len(s3) + Len(s4)
    BY <1>2, ConcatProperties DEF Flow
  <1>4. Len(s1) + Len(s2) + Len(s3) + Len(s4) = 0
    BY <1>3
  <1> QED  BY <1>4, EmptySeq


-----------------------------------------------------------------------------
(* The balance of a connection.                                            *)

\* What the proxy keeps of the client's side, and what it puts in on the way back.
Taken ==
    IF server # None
    THEN IF request.kind = "connect" THEN <<"head">> ELSE <<>>
    ELSE IF hop["proxy"] \in {"resolving", "connecting"} THEN <<"head">> ELSE <<>>

Greeting == IF server # None /\ request.kind = "connect" THEN <<"200">> ELSE <<>>

UpFlows ==
    sent["up"] = Flow(Taken, got["up"], queue["net"]["up"], queue["unix"]["up"],
                      queue["tcp"]["up"])

DownFlows ==
    Greeting \o sent["down"]
        = Flow(<<>>, got["down"], queue["tcp"]["down"], queue["unix"]["down"],
               queue["net"]["down"])

\* What the client says begins with the head of its request; for a tunnel that comes
\* in one read.
HeadFirst ==
    /\ client = "idle" <=> sent["up"] = <<>>
    /\ sent["up"] # <<>> => sent["up"][1] = "head"
    /\ request.kind = "connect" => "rest" \notin Range(sent["up"])

\* Nothing is ahead of its turn.
Unserved ==
    /\ client = "idle" => queue["tcp"]["up"] = <<>>
    /\ hop["relay"] \in {"none", "dialing"} => queue["unix"]["up"] = <<>>
    /\ server = None => queue["net"]["up"] = <<>> /\ got["up"] = <<>> /\ sent["down"] = <<>>
    /\ hop["proxy"] = "copying" => server # None

\* The proxy has not turned the request down.
Underway ==
    \/ hop["relay"] \in {"none", "dialing"}
    \/ hop["proxy"] \in {"waiting", "reading", "resolving", "connecting"}
    \/ server # None

Balanced ==
    /\ HeadFirst /\ Unserved
    /\ ~cut /\ Underway => UpFlows /\ DownFlows

\* With the types and the order of the steps it is inductive.
FlowInv == TypeOK /\ IInv /\ Balanced

\* The stretches of both ways, typed.
LEMMA Stretches ==
    ASSUME TypeOK
    PROVE  /\ \A l \in Link, d \in Dir : queue[l][d] \in Seq(Item)
           /\ \A d \in Dir : sent[d] \in Seq(Item) /\ got[d] \in Seq(Item)
           /\ Taken \in Seq(Item) /\ Greeting \in Seq(Item)
           /\ <<>> \in Seq(Item)
  <1>1. <<"head">> \in Seq(Item) /\ <<"200">> \in Seq(Item) /\ <<>> \in Seq(Item)
    BY ItemTypes
  <1>2. Taken \in Seq(Item)
    BY <1>1 DEF Taken
  <1>3. Greeting \in Seq(Item)
    BY <1>1 DEF Greeting
  <1> QED  BY <1>1, <1>2, <1>3 DEF TypeOK

LEMMA InitBalanced == Init => Balanced
  <1> SUFFICES ASSUME Init PROVE Balanced
    OBVIOUS
  <1>1. /\ \A l \in Link, d \in Dir : queue[l][d] = <<>>
        /\ \A d \in Dir : sent[d] = <<>> /\ got[d] = <<>>
        /\ Taken = <<>> /\ Greeting = <<>>
        /\ client = "idle" /\ server = None /\ request.kind = None /\ hop["proxy"] = "none"
    BY DEF Init, Taken, Greeting, Hop
  <1>2. Flow(<<>>, <<>>, <<>>, <<>>, <<>>) = <<>> /\ <<>> \o <<>> = <<>>
    BY DEF Flow
  <1>3. UpFlows /\ DownFlows
    BY <1>1, <1>2 DEF UpFlows, DownFlows, Link, Dir
  <1>4. HeadFirst
    BY <1>1 DEF HeadFirst, Dir, Range
  <1> QED  BY <1>1, <1>3, <1>4 DEF Balanced, Unserved, Link, Dir

\* A step that leaves both ways alone, and what was taken from them and put in.
LEMMA FlowsStay ==
    ASSUME UNCHANGED <<sent, got, queue>>, Taken' = Taken, Greeting' = Greeting
    PROVE  (UpFlows => UpFlows') /\ (DownFlows => DownFlows')
  BY DEF UpFlows, DownFlows


-----------------------------------------------------------------------------
(* What the steps have in common.                                          *)

\* An item passed on towards the server ...
LEMMA UpMoves ==
    ASSUME TypeOK, UpFlows, Taken' = Taken, sent'["up"] = sent["up"],
           \/ /\ queue["net"]["up"] # <<>>
              /\ got'["up"] = Append(got["up"], Head(queue["net"]["up"]))
              /\ queue'["net"]["up"] = Tail(queue["net"]["up"])
              /\ queue'["unix"]["up"] = queue["unix"]["up"]
              /\ queue'["tcp"]["up"] = queue["tcp"]["up"]
           \/ /\ queue["unix"]["up"] # <<>>
              /\ got'["up"] = got["up"]
              /\ queue'["net"]["up"] = Append(queue["net"]["up"], Head(queue["unix"]["up"]))
              /\ queue'["unix"]["up"] = Tail(queue["unix"]["up"])
              /\ queue'["tcp"]["up"] = queue["tcp"]["up"]
           \/ /\ queue["tcp"]["up"] # <<>>
              /\ got'["up"] = got["up"]
              /\ queue'["net"]["up"] = queue["net"]["up"]
              /\ queue'["unix"]["up"] = Append(queue["unix"]["up"], Head(queue["tcp"]["up"]))
              /\ queue'["tcp"]["up"] = Tail(queue["tcp"]["up"])
    PROVE  UpFlows'
  <1> DEFINE g == got["up"]
             n == queue["net"]["up"]
             u == queue["unix"]["up"]
             t == queue["tcp"]["up"]
  <1>1. /\ Taken \in Seq(Item) /\ g \in Seq(Item)
        /\ n \in Seq(Item) /\ u \in Seq(Item) /\ t \in Seq(Item)
    BY Stretches DEF Link, Dir
  <1>2. MovesKeep(Taken, g, n, u, t)
    BY <1>1, FlowMoves
  <1> QED  BY <1>2, Zenon DEF UpFlows, MovesKeep

\* ... and back to the client.
LEMMA DownMoves ==
    ASSUME TypeOK, DownFlows, Greeting' = Greeting, sent'["down"] = sent["down"],
           \/ /\ queue["tcp"]["down"] # <<>>
              /\ got'["down"] = Append(got["down"], Head(queue["tcp"]["down"]))
              /\ queue'["tcp"]["down"] = Tail(queue["tcp"]["down"])
              /\ queue'["unix"]["down"] = queue["unix"]["down"]
              /\ queue'["net"]["down"] = queue["net"]["down"]
           \/ /\ queue["unix"]["down"] # <<>>
              /\ got'["down"] = got["down"]
              /\ queue'["tcp"]["down"] = Append(queue["tcp"]["down"], Head(queue["unix"]["down"]))
              /\ queue'["unix"]["down"] = Tail(queue["unix"]["down"])
              /\ queue'["net"]["down"] = queue["net"]["down"]
           \/ /\ queue["net"]["down"] # <<>>
              /\ got'["down"] = got["down"]
              /\ queue'["tcp"]["down"] = queue["tcp"]["down"]
              /\ queue'["unix"]["down"] = Append(queue["unix"]["down"], Head(queue["net"]["down"]))
              /\ queue'["net"]["down"] = Tail(queue["net"]["down"])
    PROVE  DownFlows'
  <1> DEFINE g == got["down"]
             t == queue["tcp"]["down"]
             u == queue["unix"]["down"]
             n == queue["net"]["down"]
  <1>1. /\ <<>> \in Seq(Item) /\ g \in Seq(Item)
        /\ n \in Seq(Item) /\ u \in Seq(Item) /\ t \in Seq(Item)
    BY Stretches DEF Link, Dir
  <1>2. MovesKeep(<<>>, g, t, u, n)
    BY <1>1, FlowMoves
  <1> QED  BY <1>2, Zenon DEF DownFlows, MovesKeep

\* A way that a step leaves alone, whatever it does to the other one.
LEMMA UpStays ==
    ASSUME UpFlows, Taken' = Taken, sent'["up"] = sent["up"], got'["up"] = got["up"],
           \A l \in Link : queue'[l]["up"] = queue[l]["up"]
    PROVE  UpFlows'
  BY DEF UpFlows, Link

LEMMA DownStays ==
    ASSUME DownFlows, Greeting' = Greeting, sent'["down"] = sent["down"],
           got'["down"] = got["down"],
           \A l \in Link : queue'[l]["down"] = queue[l]["down"]
    PROVE  DownFlows'
  BY DEF DownFlows, Link

\* When a hop drops its sockets nothing gets ahead of its turn.
LEMMA ClosesUnserved ==
    ASSUME FlowInv, NEW h \in Hop, NEW q \in Queues, Closes(h, q),
           UNCHANGED <<client, server, sent, got>>,
           h = "relay" \/ hop["relay"] \notin {"none", "dialing"},
           client # "idle" \/ q["tcp"]["up"] = queue["tcp"]["up"],
           server # None \/ q["net"]["up"] = queue["net"]["up"]
    PROVE  Unserved'
  <1>1. /\ hop' = [hop EXCEPT ![h] = "closed"] /\ queue' = Dropped(q, h)
        /\ hop \in [Hop -> HopState]
    BY DEF Closes, FlowInv, TypeOK, HopState
  <1>2. queue'["tcp"]["up"] = q["tcp"]["up"]
    BY <1>1, DropEnds DEF Near, Far, Link, Dir
  <1>3. server # None \/ queue'["net"]["up"] = q["net"]["up"]
    BY <1>1, DropEnds DEF Near, Far, HasFar, Link, Dir, Hop
  <1>4. hop'["relay"] \notin {"none", "dialing"}
    BY <1>1 DEF Hop
  <1>5. hop'["proxy"] = "copying" => hop["proxy"] = "copying"
    BY <1>1 DEF Hop
  <1> QED  BY <1>2, <1>3, <1>4, <1>5 DEF FlowInv, Balanced, Unserved

\* A step that says nothing and asks for nothing keeps what was said.
LEMMA HeadStays ==
    ASSUME HeadFirst, UNCHANGED <<client, request, sent>>
    PROVE  HeadFirst'
  BY DEF HeadFirst

\* The connection is over, or was broken off: there is nothing to keep up.
LEMMA OverBalanced ==
    ASSUME FlowInv, NEW h \in Hop, NEW q \in Queues, Closes(h, q),
           UNCHANGED <<request, ends, server>>,
           h = "relay" \/ hop["relay"] \notin {"none", "dialing"},
           client # "idle" \/ q["tcp"]["up"] = queue["tcp"]["up"],
           server # None \/ q["net"]["up"] = queue["net"]["up"],
           cut' \/ ~Underway'
    PROVE  Balanced'
  <1>1. HeadFirst'
    BY HeadStays DEF FlowInv, Balanced, ends
  <1>2. Unserved'
    BY ClosesUnserved DEF ends
  <1> QED  BY <1>1, <1>2 DEF Balanced


-----------------------------------------------------------------------------
(* The steps of relay and proxy.                                           *)

LEMMA Places ==
    /\ {"relay", "proxy"} \subseteq Hop /\ {"tcp", "unix", "net"} \subseteq Link
    /\ {"up", "down"} \subseteq Dir
  BY DEF Hop, Link, Dir

\* What one read and write of copy_bidirectional does to the links.
LEMMA CopyCells ==
    ASSUME TypeOK, NEW h \in Hop, NEW d \in Dir, Copy(h, d), ~Deaf(h, d)
    PROVE  LET from == Source(h, d)
               to == Sink(h, d)
           IN  /\ queue[from][d] # <<>>
               /\ queue'[from][d] = Tail(queue[from][d])
               /\ queue'[to][d] = Append(queue[to][d], Head(queue[from][d]))
               /\ \A l \in Link, e \in Dir :
                    (e = d /\ l \in {from, to}) \/ queue'[l][e] = queue[l][e]
  <1> DEFINE from == Source(h, d)
             to == Sink(h, d)
             item == Head(queue[from][d])
             rest == [queue EXCEPT ![from][d] = Tail(@)]
  <1>1. from \in Link /\ to \in Link /\ from # to /\ queue \in Queues
    BY DEF Source, Sink, Near, Far, Link, Hop, Dir, TypeOK, Queues
  <1>2. queue[from][d] # <<>>
    BY DEF Copy
  <1>3. /\ rest \in Queues /\ item \in Item /\ rest[from][d] = Tail(queue[from][d])
        /\ \A m \in Link, e \in Dir : m # from \/ e # d => rest[m][e] = queue[m][e]
    BY <1>1, <1>2, TakeOne
  <1>4. queue' = Put(rest, to, d, item)
    BY DEF Copy
  <1> HIDE DEF rest, item, from, to
  <1>5. /\ Put(rest, to, d, item)[to][d] = Append(rest[to][d], item)
        /\ \A m \in Link, e \in Dir : m # to \/ e # d => Put(rest, to, d, item)[m][e] = rest[m][e]
    BY <1>1, <1>3, PutOne
  <1>6. /\ rest[to][d] = queue[to][d]
        /\ queue'[from][d] = rest[from][d]
    BY <1>1, <1>3, <1>4, <1>5
  <1>7. queue'[to][d] = Append(queue[to][d], Head(queue[from][d]))
    BY <1>4, <1>5, <1>6 DEF item
  <1>8. \A l \in Link, e \in Dir : (e = d /\ l \in {from, to}) \/ queue'[l][e] = queue[l][e]
    BY <1>1, <1>3, <1>4, <1>5
  <1>9. queue'[from][d] = Tail(queue[from][d])
    BY <1>3, <1>6
  <1> QED  BY <1>2, <1>7, <1>8, <1>9 DEF from, to

LEMMA CopyBalanced ==
    ASSUME FlowInv, NEW h \in Hop, NEW d \in Dir, Copy(h, d)
    PROVE  Balanced'
  <1> DEFINE src == Source(h, d)
             rest == [queue EXCEPT ![src][d] = Tail(@)]
  <1>0. /\ UNCHANGED <<request, ends, target>> /\ hop[h] = "copying"
        /\ hop["relay"] \notin {"none", "dialing"} /\ client # "idle"
        /\ TypeOK /\ Balanced
    BY DEF Copy, FlowInv, IInv, InTurn, Hop
  <1>1. CASE Deaf(h, d)
    <2>1. src \in Link /\ queue \in Queues /\ queue[src][d] # <<>>
      BY <1>0 DEF Source, Near, Far, Link, Hop, Dir, TypeOK, Queues, Copy
    <2>2. /\ rest \in Queues
          /\ \A m \in Link, e \in Dir : m # src \/ e # d => rest[m][e] = queue[m][e]
      <3> HIDE DEF src
      <3> QED  BY <2>1, TakeOne
    <2>3. Closes(h, rest) /\ cut'
      BY <1>1 DEF Copy
    <2>4. h = "proxy" => server # None
      BY <1>0 DEF Balanced, Unserved
    <2>5. server # None \/ rest["net"]["up"] = queue["net"]["up"]
      <3>1. h = "relay" => src # "net" \/ d # "up"
        BY DEF Source, Near, Far
      <3> HIDE DEF rest, src
      <3> QED  BY <2>2, <2>4, <3>1, Places DEF Hop
    <2> HIDE DEF rest
    <2> QED  BY <1>0, <2>2, <2>3, <2>5, OverBalanced DEF target
  <1>2. CASE ~Deaf(h, d)
    <2> DEFINE from == Source(h, d)
               to == Sink(h, d)
    <2>1. /\ queue[from][d] # <<>>
          /\ queue'[from][d] = Tail(queue[from][d])
          /\ queue'[to][d] = Append(queue[to][d], Head(queue[from][d]))
          /\ \A l \in Link, e \in Dir : (e = d /\ l \in {from, to}) \/ queue'[l][e] = queue[l][e]
      BY <1>0, <1>2, CopyCells
    <2>2. /\ cut' = cut /\ hop' \in {hop, [hop EXCEPT ![h] = "closed"]}
          /\ UNCHANGED <<request, client, sent, got, server>>
      <3>1. /\ hop' \in {[hop EXCEPT ![h] = hop[h]], [hop EXCEPT ![h] = "closed"]}
            /\ cut' = cut
        BY <1>2 DEF Copy
      <3>2. [hop EXCEPT ![h] = hop[h]] = hop
        BY <1>0 DEF TypeOK
      <3> QED  BY <1>0, <3>1, <3>2 DEF ends, target
    <2>3. HeadFirst'
      BY <1>0, <2>2, HeadStays DEF Balanced
    <2>4. /\ hop'["relay"] \notin {"none", "dialing"}
          /\ hop'["proxy"] = "copying" => hop["proxy"] = "copying"
          /\ hop'["proxy"] \in {hop["proxy"], "closed"}
          /\ h = "proxy" => server # None
      BY <1>0, <2>2 DEF Balanced, Unserved, TypeOK, Hop
    <2>5. Unserved'
      <3>1. server # None \/ queue'["net"]["up"] = queue["net"]["up"]
        <4>1. h = "relay" /\ d = "up" => from # "net" /\ to # "net"
          BY DEF Source, Sink, Near, Far
        <4> HIDE DEF from, to
        <4> QED  BY <2>1, <2>4, <4>1, Places DEF Hop
      <3> QED  BY <1>0, <2>2, <2>4, <3>1 DEF Balanced, Unserved
    <2>6. Underway' => Underway
      BY <1>0, <2>2, <2>4 DEF Underway
    <2>7. Taken' = Taken /\ Greeting' = Greeting
      <3>1. server = None => hop'["proxy"] = hop["proxy"]
        <4>1. server = None => h = "relay"
          BY <2>4 DEF Hop
        <4> QED  BY <1>0, <2>2, <4>1 DEF TypeOK, Hop
      <3> QED  BY <2>2, <3>1 DEF Taken, Greeting
    <2>8. ASSUME UpFlows, DownFlows PROVE UpFlows' /\ DownFlows'
      <3>1. CASE d = "up"
        <4>1. DownFlows'
          <5>1. \A l \in Link : queue'[l]["down"] = queue[l]["down"]
            <6> HIDE DEF from, to
            <6> QED  BY <2>1, <3>1, Places
          <5> QED  BY <2>2, <2>7, <2>8, <5>1, DownStays
        <4>2. CASE h = "relay"
          <5>1. from = "tcp" /\ to = "unix"
            BY <3>1, <4>2 DEF Source, Sink, Near, Far
          <5> HIDE DEF from, to
          <5>2. queue'["net"]["up"] = queue["net"]["up"]
            BY <2>1, <5>1, Places
          <5> QED  BY <1>0, <2>1, <2>2, <2>7, <2>8, <3>1, <4>1, <5>1, <5>2, UpMoves
        <4>3. CASE h = "proxy"
          <5>1. from = "unix" /\ to = "net"
            BY <3>1, <4>3 DEF Source, Sink, Near, Far
          <5> HIDE DEF from, to
          <5>2. queue'["tcp"]["up"] = queue["tcp"]["up"]
            BY <2>1, <5>1, Places
          <5> QED  BY <1>0, <2>1, <2>2, <2>7, <2>8, <3>1, <4>1, <5>1, <5>2, UpMoves
        <4> QED  BY <4>2, <4>3 DEF Hop
      <3>2. CASE d = "down"
        <4>1. UpFlows'
          <5>1. \A l \in Link : queue'[l]["up"] = queue[l]["up"]
            <6> HIDE DEF from, to
            <6> QED  BY <2>1, <3>2, Places
          <5> QED  BY <2>2, <2>7, <2>8, <5>1, UpStays
        <4>2. CASE h = "relay"
          <5>1. from = "unix" /\ to = "tcp"
            BY <3>2, <4>2 DEF Source, Sink, Near, Far
          <5> HIDE DEF from, to
          <5>2. queue'["net"]["down"] = queue["net"]["down"]
            BY <2>1, <5>1, Places
          <5> QED  BY <1>0, <2>1, <2>2, <2>7, <2>8, <3>2, <4>1, <5>1, <5>2, DownMoves
        <4>3. CASE h = "proxy"
          <5>1. from = "net" /\ to = "unix"
            BY <3>2, <4>3 DEF Source, Sink, Near, Far
          <5> HIDE DEF from, to
          <5>2. queue'["tcp"]["down"] = queue["tcp"]["down"]
            BY <2>1, <5>1, Places
          <5> QED  BY <1>0, <2>1, <2>2, <2>7, <2>8, <3>2, <4>1, <5>1, <5>2, DownMoves
        <4> QED  BY <4>2, <4>3 DEF Hop
      <3> QED  BY <3>1, <3>2 DEF Dir
    <2> QED  BY <1>0, <2>2, <2>3, <2>5, <2>6, <2>8 DEF Balanced
  <1> QED  BY <1>1, <1>2


\* A hop's state changes and nothing else: the proxy takes nothing from a way meanwhile.
LEMMA QuietBalanced ==
    ASSUME FlowInv, UNCHANGED <<request, client, sent, got, queue, server, cut>>,
           hop'["relay"] \in {"none", "dialing"} => hop["relay"] \in {"none", "dialing"},
           hop'["proxy"] # "copying",
           hop'["proxy"] \in {"resolving", "connecting"}
                <=> hop["proxy"] \in {"resolving", "connecting"},
           Underway
    PROVE  Balanced'
  <1>1. HeadFirst' /\ Unserved'
    BY HeadStays DEF FlowInv, Balanced, Unserved
  <1>2. Taken' = Taken /\ Greeting' = Greeting
    BY DEF Taken, Greeting
  <1> QED  BY <1>1, <1>2, FlowsStay DEF FlowInv, Balanced

LEMMA RelayDialsBalanced ==
    ASSUME FlowInv, RelayDials
    PROVE  Balanced'
  <1>1. /\ TypeOK /\ queue \in Queues /\ hop["relay"] = "dialing" /\ hop["proxy"] = "none"
        /\ server = None /\ client # "idle" /\ UNCHANGED <<request, ends, target, cut>>
    BY DEF RelayDials, FlowInv, IInv, InTurn, TypeOK, Queues
  <1>2. CASE accepting
    <2>1. /\ hop' = [hop EXCEPT !["relay"] = "copying", !["proxy"] = "waiting"]
          /\ queue' = queue
      BY <1>2 DEF RelayDials
    <2>2. hop'["relay"] = "copying" /\ hop'["proxy"] = "waiting"
      BY <1>1, <2>1 DEF TypeOK, Hop
    <2> QED
      BY <1>1, <2>1, <2>2, QuietBalanced DEF ends, target, Underway
  <1>3. CASE ~accepting
    <2>1. Closes("relay", queue)
      BY <1>3 DEF RelayDials
    <2>2. hop'["relay"] = "closed" /\ hop'["proxy"] = "none" /\ server' = None
      BY <1>1, <2>1 DEF Closes, TypeOK, Hop, target
    <2> QED
      BY <1>1, <2>1, <2>2, Places, OverBalanced DEF target, Underway
  <1> QED  BY <1>2, <1>3

LEMMA ProxyAcceptsBalanced ==
    ASSUME FlowInv, ProxyAccepts
    PROVE  Balanced'
  <1>1. /\ UNCHANGED <<request, client, sent, got, queue, server, cut>>
        /\ hop["proxy"] = "waiting" /\ hop' = [hop EXCEPT !["proxy"] = "reading"]
        /\ hop \in [Hop -> HopState]
    BY DEF ProxyAccepts, ends, target, FlowInv, TypeOK, HopState
  <1>2. hop'["proxy"] = "reading" /\ hop'["relay"] = hop["relay"]
    BY <1>1 DEF Hop
  <1> QED  BY <1>1, <1>2, QuietBalanced DEF Underway

\* The proxy turns a request down, without a server.
LEMMA RefusedBalanced ==
    ASSUME FlowInv, NEW q \in Queues, Closes("proxy", q),
           UNCHANGED <<request, ends, server>>,
           hop["proxy"] \in {"waiting", "reading", "resolving", "connecting"},
           q["net"]["up"] = queue["net"]["up"]
    PROVE  Balanced'
  <1>1. /\ server = None /\ hop["relay"] \notin {"none", "dialing"} /\ client # "idle"
        /\ hop \in [Hop -> HopState]
    BY DEF FlowInv, IInv, InTurn
  <1>2. hop'["proxy"] = "closed" /\ hop'["relay"] = hop["relay"] /\ server' = None
    BY <1>1 DEF Closes, Hop
  <1>3. ~Underway'
    BY <1>1, <1>2 DEF Underway
  <1> QED  BY <1>1, <1>3, Places, OverBalanced

\* What the proxy reads first is the head, and it keeps that.
LEMMA ProxyReadsBalanced ==
    ASSUME FlowInv, ProxyReads
    PROVE  Balanced'
  <1> DEFINE rest == [queue EXCEPT !["unix"]["up"] = Tail(@)]
             turned == Put(rest, "unix", "down", "403")
  <1>1. /\ TypeOK /\ Balanced /\ queue \in Queues /\ queue["unix"]["up"] # <<>>
        /\ hop["proxy"] = "reading" /\ server = None /\ client # "idle"
        /\ hop["relay"] \notin {"none", "dialing"}
        /\ UNCHANGED <<request, ends, target, cut>>
    BY DEF ProxyReads, FlowInv, IInv, InTurn, TypeOK, Queues
  <1>2. /\ rest \in Queues /\ rest["unix"]["up"] = Tail(queue["unix"]["up"])
        /\ \A l \in Link, e \in Dir : l # "unix" \/ e # "up" => rest[l][e] = queue[l][e]
    BY <1>1, Places, TakeOne
  <1> HIDE DEF rest
  <1>3. /\ turned \in Queues
        /\ \A l \in Link, e \in Dir : l # "unix" \/ e # "down" => turned[l][e] = rest[l][e]
    BY <1>2, Places, ItemTypes, PutOne
  <1>4. rest["net"]["up"] = queue["net"]["up"] /\ turned["net"]["up"] = queue["net"]["up"]
    BY <1>2, <1>3, Places
  <1> HIDE DEF turned
  <1>5. CASE Closes("proxy", rest) \/ Closes("proxy", turned)
    BY <1>1, <1>2, <1>3, <1>4, <1>5, RefusedBalanced DEF target
  <1>6. ASSUME hop' = [hop EXCEPT !["proxy"] = "resolving"], queue' = rest, shut' = shut
        PROVE  Balanced'
    <2>1. /\ hop'["proxy"] = "resolving" /\ hop'["relay"] = hop["relay"]
          /\ UNCHANGED <<request, client, sent, got, server, cut>>
      BY <1>1, <1>6 DEF TypeOK, Hop, ends, target
    <2>2. HeadFirst'
      BY <1>1, <2>1, HeadStays DEF Balanced
    <2>3. Unserved'
      BY <1>1, <1>4, <1>6, <2>1 DEF Balanced, Unserved
    <2>4. ASSUME UpFlows, DownFlows PROVE UpFlows' /\ DownFlows'
      <3> DEFINE u == queue["unix"]["up"]
                 t == queue["tcp"]["up"]
      <3>1. Taken = <<>> /\ Taken' = <<"head">> /\ Greeting' = Greeting
        BY <1>1, <2>1 DEF Taken, Greeting
      <3>2. /\ u \in Seq(Item) /\ t \in Seq(Item) /\ u # <<>> /\ sent["up"] \in Seq(Item)
            /\ queue["net"]["up"] = <<>> /\ got["up"] = <<>>
        BY <1>1, Stretches, Places DEF Balanced, Unserved
      <3>3. sent["up"] = Flow(<<>>, <<>>, <<>>, u, t)
        BY <2>4, <3>1, <3>2 DEF UpFlows
      <3>4. Flow(<<>>, <<>>, <<>>, u, t) = u \o t
        BY <3>2 DEF Flow
      <3>5. Head(u) = "head"
        <4> HIDE DEF u, t
        <4>1. u \o t # <<>> /\ (u \o t)[1] = u[1] /\ Head(u) = u[1]
          <5>1. Len(u) \in Nat /\ Len(u) > 0 /\ Len(t) \in Nat
            BY <3>2
          <5>2. Len(u \o t) = Len(u) + Len(t) /\ (u \o t)[1] = u[1]
            BY <3>2, <5>1
          <5> QED  BY <3>2, <5>1, <5>2
        <4>2. sent["up"] # <<>> /\ sent["up"][1] = u[1]
          BY <3>3, <3>4, <4>1
        <4> QED  BY <1>1, <4>1, <4>2 DEF Balanced, HeadFirst
      <3>6. Flow(<<"head">>, <<>>, <<>>, Tail(u), t) = Flow(<<>>, <<>>, <<>>, u, t)
        <4> HIDE DEF u, t
        <4>1. Tail(u) \in Seq(Item) /\ <<"head">> \in Seq(Item)
          BY <3>2, ItemTypes
        <4>2. Passes(<<>>, <<>>, u)
          BY <3>2, <4>1, ItemTypes, MoveBehind
        <4>3. /\ <<"head">> \o <<>> \o <<>> = <<"head">>
              /\ <<>> \o Append(<<>>, Head(u)) = <<"head">>
              /\ <<>> \o <<>> \o <<>> = <<>> /\ <<>> \o <<>> = <<>>
          BY <3>5, <4>1
        <4> QED  BY <4>2, <4>3, Zenon DEF Flow, Passes
      <3>7. /\ got'["up"] = <<>> /\ queue'["net"]["up"] = <<>>
            /\ queue'["unix"]["up"] = Tail(u) /\ queue'["tcp"]["up"] = t
            /\ sent'["up"] = sent["up"]
        BY <1>2, <1>4, <1>6, <2>1, <3>2, Places
      <3>8. UpFlows'
        BY <3>1, <3>3, <3>6, <3>7, Zenon DEF UpFlows
      <3>9. DownFlows'
        <4>1. \A l \in Link : queue'[l]["down"] = queue[l]["down"]
          BY <1>2, <1>6, Places
        <4> QED  BY <2>1, <2>4, <3>1, <4>1, DownStays
      <3> QED  BY <3>8, <3>9
    <2>5. Underway
      BY <1>1 DEF Underway
    <2> QED  BY <1>1, <2>1, <2>2, <2>3, <2>4, <2>5 DEF Balanced
  <1>7. \/ Closes("proxy", rest) \/ Closes("proxy", turned)
        \/ hop' = [hop EXCEPT !["proxy"] = "resolving"] /\ queue' = rest /\ shut' = shut
    BY DEF ProxyReads, rest, turned
  <1> QED  BY <1>5, <1>6, <1>7

LEMMA ResolvesBalanced ==
    ASSUME FlowInv, ProxyResolves \/ ProxyMisses
    PROVE  Balanced'
  <1>1. /\ queue \in Queues /\ hop["proxy"] \in {"resolving", "connecting"}
        /\ hop \in [Hop -> HopState] /\ hop["relay"] \notin {"none", "dialing"}
        /\ UNCHANGED <<request, ends, server, cut>>
    BY DEF FlowInv, IInv, InTurn, TypeOK, Queues, ProxyResolves, ProxyMisses
  <1>2. CASE Closes("proxy", queue)
    BY <1>1, <1>2, RefusedBalanced
  <1>3. ASSUME UNCHANGED <<shut, queue>>,
               hop' \in {hop, [hop EXCEPT !["proxy"] = "connecting"]}
        PROVE  Balanced'
    <2>1. hop'["proxy"] \in {"resolving", "connecting"} /\ hop'["relay"] = hop["relay"]
      BY <1>1, <1>3 DEF Hop
    <2> QED  BY <1>1, <1>3, <2>1, QuietBalanced DEF Underway, ends
  <1>4. \/ Closes("proxy", queue)
        \/ /\ UNCHANGED <<shut, queue>>
           /\ hop' \in {hop, [hop EXCEPT !["proxy"] = "connecting"]}
    BY DEF ProxyResolves, ProxyMisses
  <1> QED  BY <1>2, <1>3, <1>4


\* From the head a plain request goes on with; a tunnel's stays with the proxy, which
\* says so to the client.
LEMMA ConnectsBalanced ==
    ASSUME FlowInv, ProxyConnects
    PROVE  Balanced'
  <1>1. /\ TypeOK /\ Balanced /\ queue \in Queues /\ hop["proxy"] = "connecting"
        /\ server = None /\ client # "idle" /\ hop["relay"] \notin {"none", "dialing"}
    BY DEF ProxyConnects, FlowInv, IInv, InTurn, TypeOK, Queues
  <1>2. PICK addr \in candidates : Connected(addr)
    BY DEF ProxyConnects
  <1>3. server' # None /\ UNCHANGED <<request, client, sent, got>>
    BY <1>1, <1>2, ConstantsOK DEF Connected, TypeOK, ends
  <1>4. /\ hop' \in {[hop EXCEPT !["proxy"] = "closed"], [hop EXCEPT !["proxy"] = "copying"]}
        /\ hop'["relay"] = hop["relay"]
    BY <1>1, <1>2 DEF Connected, TypeOK, Hop
  <1>5. /\ queue' \in {Put(queue, "net", "up", "end"), Greet(queue)}
        /\ {"end", "200", "head"} \subseteq Item
    BY <1>2, ItemTypes DEF Connected
  <1>6. /\ \A l \in Link, e \in Dir :
                l # "net" \/ e # "up" => /\ Put(queue, "net", "up", "end")[l][e] = queue[l][e]
                                         /\ Put(queue, "net", "up", "head")[l][e] = queue[l][e]
        /\ \A l \in Link, e \in Dir :
                l # "unix" \/ e # "down" => Put(queue, "unix", "down", "200")[l][e] = queue[l][e]
        /\ Put(queue, "net", "up", "head")["net"]["up"] = Append(queue["net"]["up"], "head")
        /\ Put(queue, "unix", "down", "200")["unix"]["down"] = Append(queue["unix"]["down"], "200")
    <2>1. ASSUME NEW m \in Link, NEW e \in Dir, NEW item \in Item
          PROVE  /\ m # "net" \/ e # "up" => Put(queue, "net", "up", item)[m][e] = queue[m][e]
                 /\ m # "unix" \/ e # "down"
                        => Put(queue, "unix", "down", item)[m][e] = queue[m][e]
      <3>1. m # "net" \/ e # "up" => Put(queue, "net", "up", item)[m][e] = queue[m][e]
        BY <1>1, Places, PutOne
      <3>2. m # "unix" \/ e # "down" => Put(queue, "unix", "down", item)[m][e] = queue[m][e]
        BY <1>1, Places, PutOne
      <3> QED  BY <3>1, <3>2
    <2>2. Put(queue, "net", "up", "head")["net"]["up"] = Append(queue["net"]["up"], "head")
      BY <1>1, <1>5, Places, PutOne
    <2>3. Put(queue, "unix", "down", "200")["unix"]["down"] = Append(queue["unix"]["down"], "200")
      BY <1>1, <1>5, Places, PutOne
    <2> QED  BY <1>5, <2>1, <2>2, <2>3
  <1>7. HeadFirst'
    BY <1>1, <1>3, HeadStays DEF Balanced
  <1>8. Unserved'
    <2>1. queue'["tcp"]["up"] = queue["tcp"]["up"]
      BY <1>5, <1>6, Places DEF Greet
    <2> QED  BY <1>1, <1>3, <1>4, <2>1 DEF Balanced, Unserved
  <1>9. ASSUME ~cut'
        PROVE  ~cut /\ queue' = Greet(queue)
    BY <1>2, <1>9 DEF Connected
  <1>10. ASSUME UpFlows, DownFlows, queue' = Greet(queue)
         PROVE  UpFlows' /\ DownFlows'
    <2> DEFINE u == queue["unix"]["up"]
               t == queue["tcp"]["up"]
    <2>1. Taken = <<"head">> /\ Greeting = <<>>
      BY <1>1 DEF Taken, Greeting
    <2>2. /\ got["up"] = <<>> /\ queue["net"]["up"] = <<>> /\ sent["down"] = <<>>
          /\ u \in Seq(Item) /\ t \in Seq(Item) /\ got["down"] \in Seq(Item)
          /\ \A l \in Link : queue[l]["down"] \in Seq(Item)
      BY <1>1, Stretches, Places DEF Balanced, Unserved
    <2>3. /\ got["down"] = <<>> /\ queue["tcp"]["down"] = <<>>
          /\ queue["unix"]["down"] = <<>> /\ queue["net"]["down"] = <<>>
      <3>1. Flow(<<>>, got["down"], queue["tcp"]["down"], queue["unix"]["down"],
                 queue["net"]["down"]) = <<>>
        <4>1. <<>> \o <<>> = <<>>
          OBVIOUS
        <4> QED  BY <1>10, <2>1, <2>2, <4>1, Zenon DEF DownFlows
      <3> QED  BY <2>2, <3>1, Places, FlowEmpty
    <2>4. sent["up"] = Flow(<<"head">>, <<>>, <<>>, u, t)
      BY <1>10, <2>1, <2>2 DEF UpFlows
    <2>5. CASE request.kind = "connect"
      <3>1. Taken' = <<"head">> /\ Greeting' = <<"200">>
        BY <1>3, <2>5 DEF Taken, Greeting
      <3>2. queue' = Put(queue, "unix", "down", "200")
        BY <1>10, <2>5 DEF Greet
      <3>3. UpFlows'
        <4>1. \A l \in Link : queue'[l]["up"] = queue[l]["up"]
          BY <1>6, <3>2, Places
        <4> QED  BY <1>3, <1>10, <2>1, <3>1, <4>1, UpStays
      <3>4. DownFlows'
        <4>1. /\ queue'["unix"]["down"] = <<"200">> /\ queue'["tcp"]["down"] = <<>>
              /\ queue'["net"]["down"] = <<>> /\ got'["down"] = <<>> /\ sent'["down"] = <<>>
          BY <1>3, <1>6, <2>2, <2>3, <3>2, Places
        <4>2. <<"200">> \o <<>> = Flow(<<>>, <<>>, <<>>, <<"200">>, <<>>)
          BY DEF Flow
        <4> QED  BY <3>1, <4>1, <4>2 DEF DownFlows
      <3> QED  BY <3>3, <3>4
    <2>6. CASE request.kind # "connect"
      <3>1. Taken' = <<>> /\ Greeting' = Greeting
        BY <1>3, <2>1, <2>6 DEF Taken, Greeting
      <3>2. queue' = Put(queue, "net", "up", "head")
        BY <1>10, <2>6 DEF Greet
      <3>3. DownFlows'
        <4>1. \A l \in Link : queue'[l]["down"] = queue[l]["down"]
          BY <1>6, <3>2, Places
        <4> QED  BY <1>3, <1>10, <3>1, <4>1, DownStays
      <3>4. UpFlows'
        <4>1. /\ queue'["net"]["up"] = <<"head">> /\ queue'["unix"]["up"] = u
              /\ queue'["tcp"]["up"] = t /\ got'["up"] = <<>> /\ sent'["up"] = sent["up"]
          BY <1>3, <1>6, <2>2, <3>2, Places
        <4>2. Flow(<<"head">>, <<>>, <<>>, u, t) = Flow(<<>>, <<>>, <<"head">>, u, t)
          <5>1. <<"head">> \o <<>> \o <<>> = <<>> \o <<>> \o <<"head">>
            OBVIOUS
          <5> QED  BY <5>1, Zenon DEF Flow
        <4> QED  BY <2>4, <3>1, <4>1, <4>2, Zenon DEF UpFlows
      <3> QED  BY <3>3, <3>4
    <2> QED  BY <2>5, <2>6
  <1>11. Underway
    BY <1>1 DEF Underway
  <1> QED  BY <1>1, <1>7, <1>8, <1>9, <1>10, <1>11 DEF Balanced

\* The proxy is stopped, its daemon or the command ends, or the server breaks off.
LEMMA BrokenBalanced ==
    ASSUME FlowInv, ProxyStops \/ DaemonEnds \/ ServerResets \/ CommandEnds
    PROVE  Balanced'
  <1>1. /\ TypeOK /\ InTurn /\ Balanced /\ queue \in Queues
        /\ UNCHANGED <<request, ends, target>>
    BY DEF FlowInv, IInv, TypeOK, Queues, ProxyStops, DaemonEnds, ServerResets, CommandEnds
  <1>2. ASSUME UNCHANGED wires, cut' \/ cut' = cut
        PROVE  Balanced'
    <2>1. HeadFirst' /\ Unserved'
      BY <1>1, <1>2, HeadStays DEF Balanced, Unserved, wires, ends, target
    <2>2. Taken' = Taken /\ Greeting' = Greeting /\ (Underway' <=> Underway)
      BY <1>1, <1>2 DEF Taken, Greeting, Underway, wires, target
    <2>3. (UpFlows => UpFlows') /\ (DownFlows => DownFlows')
      BY <1>1, <1>2, <2>2, FlowsStay DEF wires, ends
    <2> QED  BY <1>1, <1>2, <2>1, <2>2, <2>3 DEF Balanced
  <1>3. ASSUME Closes("proxy", queue), hop["proxy"] = "waiting"
        PROVE  Balanced'
    BY <1>1, <1>3, RefusedBalanced DEF target
  <1>4. ASSUME Closes("proxy", queue), hop["proxy"] # "none", cut'
        PROVE  Balanced'
    <2>1. hop["relay"] \notin {"none", "dialing"} /\ client # "idle"
      BY <1>1, <1>4 DEF InTurn
    <2> QED  BY <1>1, <1>4, <2>1, Places, OverBalanced DEF target
  <1>5. ASSUME Closes("relay", queue), cut'
        PROVE  Balanced'
    BY <1>1, <1>5, Places, OverBalanced DEF target
  <1>6. CASE ProxyStops
    BY <1>2, <1>3, <1>6 DEF ProxyStops
  <1>7. CASE DaemonEnds
    BY <1>4, <1>7 DEF DaemonEnds
  <1>8. CASE ServerResets
    BY <1>4, <1>8 DEF ServerResets
  <1>9. CASE CommandEnds
    BY <1>2, <1>5, <1>9 DEF CommandEnds
  <1> QED  BY <1>6, <1>7, <1>8, <1>9


-----------------------------------------------------------------------------
(* The steps of the ends.                                                  *)

\* The request itself, which for a tunnel comes in one read.
LEMMA AsksBalanced ==
    ASSUME "connect" \notin Split, FlowInv,
           NEW kind \in Kind, NEW name \in Names, ClientAsks(kind, name)
    PROVE  Balanced'
  <1>1. /\ TypeOK /\ InTurn /\ Balanced /\ client = "idle" /\ client' # "idle"
        /\ request'.kind = kind /\ UNCHANGED <<got, shut, target, cut>>
        /\ hop["relay"] = "none" /\ hop' = [hop EXCEPT !["relay"] = "dialing"]
    BY DEF ClientAsks, FlowInv, IInv, InTurn
  <1>2. PICK parts \in {<<"head">>, <<"head", "rest">>} :
          /\ queue' = [queue EXCEPT !["tcp"]["up"] = parts]
          /\ sent' = [sent EXCEPT !["up"] = parts]
          /\ kind = "connect" => parts = <<"head">>
    BY DEF ClientAsks
  <1>3. /\ hop["proxy"] = "none" /\ server = None
        /\ hop'["proxy"] = "none" /\ hop'["relay"] = "dialing" /\ server' = None
    BY <1>1 DEF InTurn, TypeOK, Hop, target
  <1>4. /\ queue["tcp"]["up"] = <<>> /\ queue["unix"]["up"] = <<>>
        /\ queue["net"]["up"] = <<>> /\ got["up"] = <<>> /\ sent["up"] = <<>>
    BY <1>1, <1>3 DEF Balanced, Unserved, HeadFirst
  <1>5. /\ queue'["tcp"]["up"] = parts /\ sent'["up"] = parts
        /\ sent'["down"] = sent["down"] /\ got' = got
        /\ \A l \in Link, e \in Dir : l # "tcp" \/ e # "up" => queue'[l][e] = queue[l][e]
    BY <1>1, <1>2 DEF TypeOK, Link, Dir
  <1>6. HeadFirst'
    <2>1. parts # <<>> /\ parts[1] = "head"
      OBVIOUS
    <2>2. parts = <<"head">> => "rest" \notin Range(parts)
      BY DEF Range
    <2> QED  BY <1>1, <1>2, <1>5, <2>1, <2>2 DEF HeadFirst
  <1>7. Unserved'
    BY <1>1, <1>3, <1>4, <1>5, Places DEF Balanced, Unserved, target
  <1>8. Taken = <<>> /\ Taken' = <<>> /\ Greeting' = Greeting
    BY <1>3 DEF Taken, Greeting
  <1>9. UpFlows'
    <2>1. Flow(<<>>, <<>>, <<>>, <<>>, parts) = parts
      <3>1. parts \in Seq(Item)
        BY ItemTypes
      <3> QED  BY <3>1 DEF Flow
    <2>2. /\ got'["up"] = <<>> /\ queue'["net"]["up"] = <<>> /\ queue'["unix"]["up"] = <<>>
      BY <1>4, <1>5, Places
    <2> QED  BY <1>5, <1>8, <2>1, <2>2 DEF UpFlows
  <1>10. DownFlows => DownFlows'
    <2>1. \A l \in Link : queue'[l]["down"] = queue[l]["down"]
      BY <1>5, Places
    <2> QED  BY <1>5, <1>8, <2>1, DownStays
  <1>11. Underway
    BY <1>1 DEF Underway
  <1> QED  BY <1>1, <1>6, <1>7, <1>9, <1>10, <1>11 DEF Balanced

\* A piece or the end of a direction goes out.
LEMMA SendsBalanced ==
    ASSUME FlowInv, ClientSends \/ ClientEnds \/ ServerSends \/ ServerEnds
    PROVE  Balanced'
  <1>1. /\ TypeOK /\ InTurn /\ Balanced /\ queue \in Queues
    BY DEF FlowInv, IInv, TypeOK, Queues
  <1>2. ASSUME NEW d \in Dir, NEW l \in Link, NEW item \in Item, Sends(d, l, item),
               (d = "up" /\ l = "tcp") \/ (d = "down" /\ l = "net"), item # "rest",
               d = "up" => client # "idle", d = "down" => server # None,
               (client' = "idle") <=> (client = "idle")
        PROVE  Balanced'
    <2>1. /\ sent' = [sent EXCEPT ![d] = Append(@, item)] /\ queue' = Put(queue, l, d, item)
          /\ UNCHANGED <<request, got, hop, server, cut>>
      BY <1>2 DEF Sends, target
    <2>2. /\ queue'[l][d] = Append(queue[l][d], item)
          /\ \A m \in Link, e \in Dir : m # l \/ e # d => queue'[m][e] = queue[m][e]
      BY <1>1, <2>1, PutOne
    <2>3. /\ sent'[d] = Append(sent[d], item)
          /\ \A e \in Dir \ {d} : sent'[e] = sent[e]
      BY <1>1, <2>1 DEF TypeOK
    <2>4. HeadFirst'
      <3>1. CASE d = "down"
        BY <1>1, <1>2, <2>1, <2>3, <3>1, Places DEF Balanced, HeadFirst
      <3>2. CASE d = "up"
        <4>1. sent["up"] \in Seq(Item) /\ sent["up"] # <<>>
          BY <1>1, <1>2, <3>2, Stretches, Places DEF Balanced, HeadFirst
        <4>2. /\ Append(sent["up"], item) # <<>>
              /\ Append(sent["up"], item)[1] = sent["up"][1]
          BY <4>1
        <4>3. "rest" \notin Range(sent["up"]) => "rest" \notin Range(Append(sent["up"], item))
          BY <1>2, <4>1 DEF Range
        <4> QED
          BY <1>1, <1>2, <2>1, <2>3, <3>2, <4>1, <4>2, <4>3 DEF Balanced, HeadFirst
      <3> QED  BY <3>1, <3>2 DEF Dir
    <2>5. Unserved'
      BY <1>1, <1>2, <2>1, <2>2, <2>3, Places DEF Balanced, Unserved
    <2>6. Taken' = Taken /\ Greeting' = Greeting /\ (Underway' <=> Underway)
      BY <2>1 DEF Taken, Greeting, Underway
    <2>7. UpFlows => UpFlows'
      <3>1. CASE d = "down"
        <4>1. \A m \in Link : queue'[m]["up"] = queue[m]["up"]
          BY <2>2, <3>1, Places
        <4> QED  BY <2>1, <2>3, <2>6, <3>1, <4>1, Places, UpStays
      <3>2. CASE d = "up"
        <4>1. /\ Taken \in Seq(Item) /\ got["up"] \in Seq(Item)
              /\ \A m \in Link : queue[m]["up"] \in Seq(Item)
          BY <1>1, Stretches, Places
        <4>2. Grows(Taken, got["up"], queue["net"]["up"], queue["unix"]["up"],
                    queue["tcp"]["up"], item)
          <5>1. /\ queue["net"]["up"] \in Seq(Item) /\ queue["unix"]["up"] \in Seq(Item)
                /\ queue["tcp"]["up"] \in Seq(Item)
            BY <4>1, Places
          <5> QED  BY <1>2, <4>1, <5>1, FlowGrows
        <4>3. /\ queue'["tcp"]["up"] = Append(queue["tcp"]["up"], item)
              /\ queue'["unix"]["up"] = queue["unix"]["up"]
              /\ queue'["net"]["up"] = queue["net"]["up"]
              /\ sent'["up"] = Append(sent["up"], item) /\ got' = got
          BY <1>2, <2>1, <2>2, <2>3, <3>2, Places
        <4> QED  BY <2>6, <4>2, <4>3, Zenon DEF UpFlows, Grows
      <3> QED  BY <3>1, <3>2 DEF Dir
    <2>8. DownFlows => DownFlows'
      <3>1. CASE d = "up"
        <4>1. \A m \in Link : queue'[m]["down"] = queue[m]["down"]
          BY <2>2, <3>1, Places
        <4> QED  BY <2>1, <2>3, <2>6, <3>1, <4>1, Places, DownStays
      <3>2. CASE d = "down"
        <4>1. /\ Greeting \in Seq(Item) /\ <<>> \in Seq(Item) /\ got["down"] \in Seq(Item)
              /\ sent["down"] \in Seq(Item)
              /\ \A m \in Link : queue[m]["down"] \in Seq(Item)
          BY <1>1, Stretches, Places
        <4>2. Grows(<<>>, got["down"], queue["tcp"]["down"], queue["unix"]["down"],
                    queue["net"]["down"], item)
          <5>1. /\ queue["net"]["down"] \in Seq(Item) /\ queue["unix"]["down"] \in Seq(Item)
                /\ queue["tcp"]["down"] \in Seq(Item)
            BY <4>1, Places
          <5> QED  BY <1>2, <4>1, <5>1, FlowGrows
        <4>3. Greeting \o Append(sent["down"], item) = Append(Greeting \o sent["down"], item)
          BY <4>1, AppendBehind DEF SentBehind
        <4>4. /\ queue'["net"]["down"] = Append(queue["net"]["down"], item)
              /\ queue'["unix"]["down"] = queue["unix"]["down"]
              /\ queue'["tcp"]["down"] = queue["tcp"]["down"]
              /\ sent'["down"] = Append(sent["down"], item) /\ got' = got
          BY <1>2, <2>1, <2>2, <2>3, <3>2, Places
        <4> QED  BY <2>6, <4>2, <4>3, <4>4, Zenon DEF DownFlows, Grows
      <3> QED  BY <3>1, <3>2 DEF Dir
    <2> QED  BY <1>1, <2>1, <2>4, <2>5, <2>6, <2>7, <2>8 DEF Balanced
  <1>3. \A i \in 1..Len(Pieces) : Pieces[i] \in Item /\ Pieces[i] # "rest"
    <2>1. DOMAIN Pieces = 1..Len(Pieces)
      BY ConstantsOK, LenProperties
    <2>2. \A i \in 1..Len(Pieces) : Pieces[i] \in Range(Pieces)
      BY <2>1 DEF Range
    <2> QED  BY <2>2, ConstantsOK DEF Item
  <1>4. CASE ClientSends \/ ServerSends
    <2>1. \A d \in Dir : Said(d) \in Nat
      BY DEF Said
    <2>2. CASE ClientSends
      <3>1. /\ Sends("up", "tcp", Pieces[Said("up") + 1])
            /\ client = "talking" /\ client' = client /\ Said("up") < Len(Pieces)
        BY <2>2 DEF ClientSends
      <3>2. Pieces[Said("up") + 1] \in Item /\ Pieces[Said("up") + 1] # "rest"
        <4>1. Said("up") + 1 \in 1..Len(Pieces)
          <5>1. Said("up") \in Nat /\ Len(Pieces) \in Nat
            BY <2>1, Places, ConstantsOK, LenProperties
          <5> QED  BY <3>1, <5>1
        <4> QED  BY <1>3, <4>1
      <3> QED  BY <1>2, <3>1, <3>2, Places
    <2>3. CASE ServerSends
      <3>1. /\ Sends("down", "net", Pieces[Said("down") + 1])
            /\ server # None /\ client' = client /\ Said("down") < Len(Pieces)
        BY <2>3 DEF ServerSends, Serving
      <3>2. Pieces[Said("down") + 1] \in Item /\ Pieces[Said("down") + 1] # "rest"
        <4>1. Said("down") + 1 \in 1..Len(Pieces)
          <5>1. Said("down") \in Nat /\ Len(Pieces) \in Nat
            BY <2>1, Places, ConstantsOK, LenProperties
          <5> QED  BY <3>1, <5>1
        <4> QED  BY <1>3, <4>1
      <3> QED  BY <1>2, <3>1, <3>2, Places
    <2> QED  BY <1>4, <2>2, <2>3
  <1>5. CASE ClientEnds \/ ServerEnds
    <2>1. "end" \in Item /\ "end" # "rest"
      BY ItemTypes
    <2>2. CASE ClientEnds
      <3>1. Sends("up", "tcp", "end") /\ client \in {"talking", "asking"} /\ client' = "ended"
        BY <2>2 DEF ClientEnds
      <3> QED  BY <1>2, <2>1, <3>1, Places
    <2>3. CASE ServerEnds
      <3>1. Sends("down", "net", "end") /\ server # None /\ client' = client
        BY <2>3 DEF ServerEnds, Serving
      <3> QED  BY <1>2, <2>1, <3>1, Places
    <2> QED  BY <1>5, <2>2, <2>3
  <1> QED  BY <1>4, <1>5

\* An end takes in what is there for it.
LEMMA ReadsBalanced ==
    ASSUME FlowInv, ClientReads \/ ServerReads
    PROVE  Balanced'
  <1>1. /\ TypeOK /\ InTurn /\ Balanced /\ queue \in Queues
    BY DEF FlowInv, IInv, TypeOK, Queues
  <1>2. ASSUME NEW d \in Dir, NEW l \in Link,
               (d = "up" /\ l = "net" /\ server # None) \/ (d = "down" /\ l = "tcp"),
               queue[l][d] # <<>>,
               got' = [got EXCEPT ![d] = Append(@, Head(queue[l][d]))],
               queue' = [queue EXCEPT ![l][d] = Tail(@)],
               UNCHANGED <<request, sent, hop, server, cut>>,
               (client' = "idle") <=> (client = "idle")
        PROVE  Balanced'
    <2>1. /\ queue'[l][d] = Tail(queue[l][d])
          /\ \A m \in Link, e \in Dir : m # l \/ e # d => queue'[m][e] = queue[m][e]
      BY <1>1, <1>2, TakeOne
    <2>2. /\ got'[d] = Append(got[d], Head(queue[l][d]))
          /\ \A e \in Dir \ {d} : got'[e] = got[e]
      BY <1>1, <1>2 DEF TypeOK
    <2>3. HeadFirst'
      BY <1>1, <1>2 DEF Balanced, HeadFirst
    <2>4. Unserved'
      BY <1>1, <1>2, <2>1, <2>2, Places DEF Balanced, Unserved
    <2>5. Taken' = Taken /\ Greeting' = Greeting /\ (Underway' <=> Underway)
      BY <1>2 DEF Taken, Greeting, Underway
    <2>6. CASE d = "up"
      <3>1. UpFlows => UpFlows'
        BY <1>1, <1>2, <2>1, <2>2, <2>5, <2>6, Places, UpMoves
      <3>2. \A m \in Link : queue'[m]["down"] = queue[m]["down"]
        BY <2>1, <2>6, Places
      <3>3. DownFlows => DownFlows'
        BY <1>2, <2>2, <2>5, <2>6, <3>2, Places, DownStays
      <3> QED  BY <1>1, <1>2, <2>3, <2>4, <2>5, <3>1, <3>3 DEF Balanced
    <2>7. CASE d = "down"
      <3>1. DownFlows => DownFlows'
        BY <1>1, <1>2, <2>1, <2>2, <2>5, <2>7, Places, DownMoves
      <3>2. \A m \in Link : queue'[m]["up"] = queue[m]["up"]
        BY <2>1, <2>7, Places
      <3>3. UpFlows => UpFlows'
        BY <1>2, <2>2, <2>5, <2>7, <3>2, Places, UpStays
      <3> QED  BY <1>1, <1>2, <2>3, <2>4, <2>5, <3>1, <3>3 DEF Balanced
    <2> QED  BY <2>6, <2>7 DEF Dir
  <1>3. CASE ClientReads
    BY <1>2, <1>3, Places DEF ClientReads, target
  <1>4. CASE ServerReads
    <2>1. /\ server # None /\ queue["net"]["up"] # <<>>
          /\ got' = [got EXCEPT !["up"] = Append(@, Head(queue["net"]["up"]))]
          /\ queue' = [queue EXCEPT !["net"]["up"] = Tail(@)]
          /\ UNCHANGED <<request, sent, hop, server, cut>> /\ client' = client
      BY <1>4 DEF ServerReads, target
    <2> QED  BY <1>2, <2>1, Places
  <1> QED  BY <1>3, <1>4

LEMMA NextBalanced ==
    ASSUME "connect" \notin Split, FlowInv, [Next]_vars
    PROVE  FlowInv'
  <1>1. TypeOK' /\ IInv'
    BY NextTypes, NextIInv DEF FlowInv
  <1>2. CASE UNCHANGED vars
    <2>1. HeadFirst' /\ Unserved'
      BY <1>2 DEF FlowInv, Balanced, HeadFirst, Unserved, vars, ends, wires, target
    <2>2. Taken' = Taken /\ Greeting' = Greeting /\ (Underway' <=> Underway) /\ cut' = cut
      BY <1>2 DEF Taken, Greeting, Underway, vars, wires, target
    <2>3. (UpFlows => UpFlows') /\ (DownFlows => DownFlows')
      BY <1>2, <2>2, FlowsStay DEF vars, wires, ends
    <2> QED  BY <1>1, <2>1, <2>2, <2>3 DEF FlowInv, Balanced
  <1>3. CASE Next
    <2>1. ASSUME Relay \/ Proxy PROVE Balanced'
      BY <2>1, Places, CopyBalanced, RelayDialsBalanced, ProxyAcceptsBalanced,
         ProxyReadsBalanced, ResolvesBalanced, ConnectsBalanced DEF Relay, Proxy
    <2> QED
      BY <1>1, <1>3, <2>1, AsksBalanced, SendsBalanced, ReadsBalanced, BrokenBalanced
      DEF Next, Client, Server, FlowInv
  <1> QED  BY <1>2, <1>3

\* Unless a hop was broken off, what one end sent is at the other or on its way, once
\* and in order (copy_bidirectional on both hops, handle_client), for all requests
\* and amounts of data, as long as the head of a tunnel's request comes in one read.
THEOREM FlowHolds ==
    ASSUME "connect" \notin Split
    PROVE  Spec => []Conserved
  <1>1. Init => FlowInv
    BY InitTypes, InitIInv, InitBalanced DEF FlowInv
  <1>2. FlowInv => Conserved
    <2> SUFFICES ASSUME FlowInv, server # None, ~cut PROVE Conserved
      BY DEF Conserved
    <2>1. UpFlows /\ DownFlows /\ HeadFirst /\ TypeOK
      BY DEF FlowInv, Balanced, Underway
    <2>2. \A s \in Seq(Item) : <<>> \o s = s
      OBVIOUS
    <2>3. got["up"] \in Seq(Item) /\ got["down"] \in Seq(Item)
      BY <2>1, Stretches, Places
    <2>4. /\ request.kind = "connect" => Taken = <<"head">> /\ Greeting = <<"200">>
          /\ request.kind # "connect" => Taken = <<>> /\ Greeting = <<>>
      BY DEF Taken, Greeting
    <2>5. DownFlows =>
            Greeting \o sent["down"] = got["down"] \o queue["tcp"]["down"]
                                        \o queue["unix"]["down"] \o queue["net"]["down"]
      <3>1. <<>> \o got["down"] = got["down"]
        BY <2>2, <2>3
      <3> QED  BY <3>1, Zenon DEF DownFlows, Flow
    <2>6. CASE request.kind = "connect"
      <3>1. "rest" \notin Range(sent["up"])
        BY <2>1, <2>6 DEF HeadFirst
      <3> QED  BY <2>1, <2>4, <2>5, <2>6, <3>1, Zenon DEF Conserved, UpFlows, Flow
    <2>7. CASE request.kind # "connect"
      <3>1. <<>> \o got["up"] = got["up"]
        BY <2>2, <2>3
      <3> QED  BY <2>1, <2>4, <2>5, <2>7, <3>1, Zenon DEF Conserved, UpFlows, Flow
    <2> QED  BY <2>6, <2>7
  <1>3. FlowInv /\ [Next]_vars => FlowInv'
    BY NextBalanced
  <1> QED  BY <1>1, <1>2, <1>3, PTL DEF Spec

===============================================================================
