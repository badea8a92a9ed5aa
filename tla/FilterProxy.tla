----------------------------- MODULE FilterProxy -----------------------------
(***************************************************************************)
(* One HTTP connection of a sandboxed command: over TCP to the relay in    *)
(* its network namespace (src/netrelay.rs), from there over a Unix socket  *)
(* to the filter proxy of the daemon (src/proxy.rs), and from there to a   *)
(* server, if the name it asks for is on the allow list.                   *)
(*                                                                         *)
(* Relay and proxy both pass bytes on in both directions at once; the      *)
(* command may end, the daemon may stop the proxy and the server may fail  *)
(* at any time.                                                            *)
(***************************************************************************)
EXTENDS Integers, Sequences, SequencesExt

CONSTANTS
    Names,      \* the names asked for, as sequences of labels
    Allow,      \* the allow list, of names
    Addr,
    Public,     \* the addresses is_public_destination lets pass
    Answers,    \* what a lookup may return: sets of addresses
    Split,      \* kinds of requests whose head may come in two reads
    Pieces,     \* bound: what either end sends after the request, in this order
    None

ASSUME ConstantsOK ==
    /\ Public \subseteq Addr /\ None \notin Addr
    /\ Names \cup Allow \subseteq Seq(STRING)
    /\ Answers \subseteq SUBSET Addr
    /\ Pieces \in Seq(Range(Pieces))
    /\ Range(Pieces) \cap {"head", "rest", "200", "403", "end"} = {}

Link == {"tcp", "unix", "net"}
Dir == {"up", "down"}
Hop == {"relay", "proxy"}

\* A request for a tunnel, for an http:// address, one of them with a port that is
\* no number, and one the proxy makes nothing of.
Kind == {"connect", "plain", "noport", "other"}

\* What travels: the head of the request and, if it comes in two parts, the second
\* one, the proxy's own answers, pieces of data and the end of a direction.
Item == {"head", "rest", "200", "403", "end"} \cup Range(Pieces)

VARIABLES
    command,    \* the sandboxed command runs
    accepting,  \* the accept task of the proxy runs, its socket is there
    request,    \* its kind and the name it asks for
    client,     \* "idle", "asking" (for a tunnel), "talking", "ended"
    hop,        \* hop[h]: "none", "dialing", "waiting" (to be accepted), "reading",
                \* "resolving", "connecting", "copying", "closed"
    shut,       \* shut[h]: the directions whose end hop h has passed on
    queue,      \* queue[l][d]: what is on link l
    candidates, \* the addresses the proxy still may try
    server,     \* the address it is connected to
    sent, got,  \* history: what the ends have sent and received
    lookup,     \* history: the answer the name server gave
    cut         \* history: a hop was broken off

ends == <<client, sent, got>>
wires == <<hop, shut, queue>>
target == <<candidates, server, lookup>>
vars == <<command, accepting, request, ends, wires, target, cut>>

Near(h) == IF h = "relay" THEN "tcp" ELSE "unix"
Far(h) == IF h = "relay" THEN "unix" ELSE "net"
Source(h, d) == IF d = "up" THEN Near(h) ELSE Far(h)
Sink(h, d) == IF d = "up" THEN Far(h) ELSE Near(h)

Put(q, l, d, item) == [q EXCEPT ![l][d] = Append(@, item)]

Init ==
    /\ command = TRUE
    /\ accepting = TRUE
    /\ request = [kind |-> None, name |-> <<>>]
    /\ client = "idle"
    /\ hop = [h \in Hop |-> "none"]
    /\ shut = [h \in Hop |-> {}]
    /\ queue = [l \in Link |-> [d \in Dir |-> <<>>]]
    /\ candidates = {}
    /\ server = None
    /\ sent = [d \in Dir |-> <<>>]
    /\ got = [d \in Dir |-> <<>>]
    /\ lookup = {}
    /\ cut = FALSE

-----------------------------------------------------------------------------
(* Both hops: tokio's copy_bidirectional, and what dropping the sockets does. *)

\* The end of one direction that dropping hop h's sockets brings about.
End(q, h, l, d) == IF d \in shut[h] THEN q ELSE Put(q, l, d, "end")

HasFar(h) == IF h = "proxy" THEN server # None ELSE hop["proxy"] # "none"

\* Slip: only the socket towards the client is closed.
DropsNear(q, h) == End(q, h, Near(h), "down")

Dropped(q, h) ==
    LET near == End(q, h, Near(h), "down") IN
        IF HasFar(h) THEN End(near, h, Far(h), "up") ELSE near

Closes(h, q) ==
    /\ hop' = [hop EXCEPT ![h] = "closed"]
    /\ shut' = [shut EXCEPT ![h] = Dir]
    /\ queue' = Dropped(q, h)

\* Slip: the connection is over when one of its ends has nothing more to say.
CopyDoneAtOnce(done) == done # {}

CopyDone(done) == done = Dir

\* The other side of the Unix socket is gone.
Deaf(h, d) ==
    \/ h = "relay" /\ d = "up" /\ hop["proxy"] = "closed"
    \/ h = "proxy" /\ d = "down" /\ hop["relay"] = "closed"

Copy(h, d) ==
    /\ hop[h] = "copying" /\ d \notin shut[h]
    /\ queue[Source(h, d)][d] # <<>>
    /\ LET item == Head(queue[Source(h, d)][d])
           rest == [queue EXCEPT ![Source(h, d)][d] = Tail(@)]
           done == IF item = "end" THEN shut[h] \cup {d} ELSE shut[h]
       IN  IF Deaf(h, d)
           THEN cut' = TRUE /\ Closes(h, rest)
           ELSE /\ queue' = Put(rest, Sink(h, d), d, item)
                /\ shut' = [shut EXCEPT ![h] = done]
                /\ hop' = [hop EXCEPT ![h] = IF CopyDone(done) THEN "closed" ELSE @]
                /\ UNCHANGED cut
    /\ UNCHANGED <<command, accepting, request, ends, target>>

-----------------------------------------------------------------------------
(* The relay.                                                              *)

\* Slip: a relay that finds no proxy goes on trying.
RelayDialsAgain ==
    /\ hop["relay"] = "dialing" /\ accepting
    /\ hop' = [hop EXCEPT !["relay"] = "copying", !["proxy"] = "waiting"]
    /\ UNCHANGED <<command, accepting, request, ends, shut, queue, target, cut>>

\* UnixStream::connect, which does not wait for the proxy to accept.
RelayDials ==
    /\ hop["relay"] = "dialing"
    /\ IF accepting
       THEN /\ hop' = [hop EXCEPT !["relay"] = "copying", !["proxy"] = "waiting"]
            /\ UNCHANGED <<shut, queue>>
       ELSE Closes("relay", queue)
    /\ UNCHANGED <<command, accepting, request, ends, target, cut>>

-----------------------------------------------------------------------------
(* bind_unix and handle_client.  One read is made for the head of the       *)
(* request; it brings the first line at least, which is all that is looked  *)
(* at.                                                                      *)

ProxyAccepts ==
    /\ accepting /\ hop["proxy"] = "waiting"
    /\ hop' = [hop EXCEPT !["proxy"] = "reading"]
    /\ UNCHANGED <<command, accepting, request, ends, shut, queue, target, cut>>

\* Dots at the end are dropped; labels are in lower case here.
Normalize(name) ==
    LET kept == {i \in DOMAIN name : name[i] # ""} IN
        IF kept = {} THEN <<>> ELSE SubSeq(name, 1, Max(kept))

\* The name itself or one below it.
IsAllowed(name) == \E entry \in Allow : IsSuffix(entry, name)

ProxyReads ==
    /\ hop["proxy"] = "reading"
    /\ queue["unix"]["up"] # <<>>
    /\ LET head == Head(queue["unix"]["up"])
           name == Normalize(request.name)
           rest == [queue EXCEPT !["unix"]["up"] = Tail(@)]
       IN  IF head = "end" \/ request.kind = "other" \/ name = <<>>
           THEN Closes("proxy", rest)
           ELSE IF ~IsAllowed(name)
           THEN Closes("proxy", Put(rest, "unix", "down", "403"))
           ELSE IF request.kind = "noport"
           THEN Closes("proxy", rest)
           ELSE /\ hop' = [hop EXCEPT !["proxy"] = "resolving"]
                /\ queue' = rest
                /\ UNCHANGED shut
    /\ UNCHANGED <<command, accepting, request, ends, target, cut>>

Valid(answer) == answer \cap Public

\* resolve_and_validate; a lookup may also fail, like one without an answer.
ProxyResolves ==
    /\ hop["proxy"] = "resolving"
    /\ lookup' \in Answers
    /\ candidates' = Valid(lookup')
    /\ IF candidates' = {}
       THEN Closes("proxy", queue)
       ELSE /\ hop' = [hop EXCEPT !["proxy"] = "connecting"]
            /\ UNCHANGED <<shut, queue>>
    /\ UNCHANGED <<command, accepting, request, ends, server, cut>>

\* A candidate does not answer.
ProxyMisses ==
    /\ hop["proxy"] = "connecting"
    /\ \E addr \in candidates : candidates' = candidates \ {addr}
    /\ IF candidates' = {}
       THEN Closes("proxy", queue)
       ELSE UNCHANGED <<hop, shut, queue>>
    /\ UNCHANGED <<command, accepting, request, ends, server, lookup, cut>>

\* Slip: the head that was read to find the name is not passed on.
GreetOnly(q) == IF request.kind = "connect" THEN Put(q, "unix", "down", "200") ELSE q

\* "200" for a tunnel, the request itself for anything else.
Greet(q) ==
    IF request.kind = "connect"
    THEN Put(q, "unix", "down", "200")
    ELSE Put(q, "net", "up", "head")

Connected(addr) ==
    /\ server' = addr
    /\ candidates' = {}
    /\ IF request.kind = "connect" /\ hop["relay"] = "closed"
       THEN /\ cut' = TRUE
            /\ hop' = [hop EXCEPT !["proxy"] = "closed"]
            /\ shut' = [shut EXCEPT !["proxy"] = Dir]
            /\ queue' = Put(queue, "net", "up", "end")
       ELSE /\ queue' = Greet(queue)
            /\ hop' = [hop EXCEPT !["proxy"] = "copying"]
            /\ UNCHANGED <<shut, cut>>
    /\ UNCHANGED <<command, accepting, request, ends, lookup>>

\* Slip: the address is checked, and the name connected to.
ProxyConnectsByName ==
    /\ hop["proxy"] = "connecting"
    /\ \E addr \in UNION Answers : Connected(addr)

ProxyConnects ==
    /\ hop["proxy"] = "connecting"
    /\ \E addr \in candidates : Connected(addr)

\* UnixProxyHandle::stop: connections it has accepted go on, the others are lost.
ProxyStops ==
    /\ accepting
    /\ accepting' = FALSE
    /\ IF hop["proxy"] = "waiting" THEN Closes("proxy", queue) ELSE UNCHANGED wires
    /\ UNCHANGED <<command, request, ends, target, cut>>

\* They end with the process at the latest.
DaemonEnds ==
    /\ ~accepting /\ hop["proxy"] \notin {"none", "closed"}
    /\ cut' = TRUE
    /\ Closes("proxy", queue)
    /\ UNCHANGED <<command, accepting, request, ends, target>>

-----------------------------------------------------------------------------
(* The command, its end and the server.                                    *)

ClientAsks(kind, name) ==
    /\ command /\ client = "idle"
    /\ request' = [kind |-> kind, name |-> name]
    /\ client' = IF kind = "connect" THEN "asking" ELSE "talking"
    /\ hop' = [hop EXCEPT !["relay"] = "dialing"]
    /\ \E parts \in {<<"head">>} \cup {<<"head", "rest">> : k \in Split \cap {kind}} :
        /\ queue' = [queue EXCEPT !["tcp"]["up"] = parts]
        /\ sent' = [sent EXCEPT !["up"] = parts]
    /\ UNCHANGED <<command, accepting, got, shut, target, cut>>

Sends(d, l, item) ==
    /\ sent' = [sent EXCEPT ![d] = Append(@, item)]
    /\ queue' = Put(queue, l, d, item)
    /\ UNCHANGED <<command, accepting, request, got, hop, shut, target, cut>>

Said(d) == Len(SelectSeq(sent[d], LAMBDA item : item \in Range(Pieces)))

ClientSends ==
    /\ command /\ client = "talking"
    /\ Said("up") < Len(Pieces)
    /\ Sends("up", "tcp", Pieces[Said("up") + 1])
    /\ UNCHANGED client

\* It says all it has to, or is told that nothing more will come.
ClientEnds ==
    /\ command
    /\ \/ client = "talking"
       \/ client = "asking" /\ "end" \in Range(got["down"])
    /\ client' = "ended"
    /\ Sends("up", "tcp", "end")

ClientReads ==
    /\ command /\ queue["tcp"]["down"] # <<>>
    /\ LET item == Head(queue["tcp"]["down"]) IN
        /\ got' = [got EXCEPT !["down"] = Append(@, item)]
        /\ client' = IF client = "asking" /\ item = "200" THEN "talking" ELSE client
    /\ queue' = [queue EXCEPT !["tcp"]["down"] = Tail(@)]
    /\ UNCHANGED <<command, accepting, request, sent, hop, shut, target, cut>>

Serving == server # None /\ "end" \notin Range(sent["down"])

ServerReads ==
    /\ server # None /\ queue["net"]["up"] # <<>>
    /\ got' = [got EXCEPT !["up"] = Append(@, Head(queue["net"]["up"]))]
    /\ queue' = [queue EXCEPT !["net"]["up"] = Tail(@)]
    /\ UNCHANGED <<command, accepting, request, client, sent, hop, shut, target, cut>>

ServerSends ==
    /\ Serving /\ Said("down") < Len(Pieces)
    /\ Sends("down", "net", Pieces[Said("down") + 1])
    /\ UNCHANGED client

ServerEnds ==
    /\ Serving
    /\ Sends("down", "net", "end")
    /\ UNCHANGED client

\* The connection to the server breaks: an error of the proxy's copy.
ServerResets ==
    /\ server # None /\ hop["proxy"] = "copying"
    /\ cut' = TRUE
    /\ Closes("proxy", queue)
    /\ UNCHANGED <<command, accepting, request, ends, target>>

\* The relay ends with the command, and its connections with it.
CommandEnds ==
    /\ command
    /\ command' = FALSE
    /\ cut' = TRUE
    /\ IF hop["relay"] = "none" THEN UNCHANGED wires ELSE Closes("relay", queue)
    /\ UNCHANGED <<accepting, request, ends, target>>

-----------------------------------------------------------------------------

Relay == RelayDials \/ \E d \in Dir : Copy("relay", d)

Proxy ==
    \/ ProxyAccepts \/ ProxyReads \/ ProxyResolves \/ ProxyConnects \/ ProxyMisses
    \/ \E d \in Dir : Copy("proxy", d)

Client == ClientEnds \/ ClientReads

Server == ServerReads \/ ServerEnds

Next ==
    \/ Relay \/ Proxy \/ Client \/ Server
    \/ \E kind \in Kind, name \in Names : ClientAsks(kind, name)
    \/ ClientSends \/ ServerSends
    \/ ProxyStops \/ DaemonEnds \/ ServerResets \/ CommandEnds

Spec == Init /\ [][Next]_vars

\* The tasks of relay and proxy go on; both ends read what comes and come to an
\* end themselves.
FairSpec ==
    /\ Spec
    /\ \A d \in Dir : WF_vars(Copy("relay", d)) /\ WF_vars(Copy("proxy", d))
    /\ WF_vars(RelayDials)
    /\ WF_vars(ProxyAccepts) /\ WF_vars(ProxyReads)
    /\ WF_vars(ProxyResolves) /\ WF_vars(ProxyConnects)
    /\ WF_vars(ClientReads) /\ WF_vars(ClientEnds) /\ WF_vars(ServerReads) /\ WF_vars(ServerEnds)

-----------------------------------------------------------------------------
(* Properties.                                                             *)

TypeOK ==
    /\ {command, accepting, cut} \subseteq BOOLEAN
    /\ request.kind \in Kind \cup {None}
    /\ request.name \in Names \cup {<<>>}
    /\ client \in {"idle", "asking", "talking", "ended"}
    /\ hop \in [Hop -> {"none", "dialing", "waiting", "reading", "resolving",
                        "connecting", "copying", "closed"}]
    /\ shut \in [Hop -> SUBSET Dir]
    /\ queue \in [Link -> [Dir -> Seq(Item)]]
    /\ candidates \subseteq Public
    /\ hop["proxy"] = "connecting" => candidates # {}
    /\ server \in Addr \cup {None}
    /\ sent \in [Dir -> Seq(Item)] /\ got \in [Dir -> Seq(Item)]
    /\ lookup \in Answers \cup {{}}

\* docs/guides/passthrough.md:181: the proxy "resolves DNS once, validates every
\* concrete destination address": it is connected only to a public address, out
\* of the answer it has checked, for a name on the list, whatever a later lookup
\* would return.
ConnectsToChecked ==
    server # None =>
        /\ server \in Public /\ server \in lookup
        /\ request.kind \in {"connect", "plain"}
        /\ Allow \cap Suffixes(Normalize(request.name)) # {}

\* Unless a hop was broken off, everything one end sent is at the other or on
\* its way, once and in order, the head that the proxy had to read included; the
\* head of a tunnel's request is for the proxy alone.
Conserved ==
    server # None /\ ~cut =>
        LET tunnel == request.kind = "connect"
            head == IF "rest" \in Range(sent["up"]) THEN <<"head", "rest">> ELSE <<"head">> IN
        /\ IF tunnel THEN sent["up"] = head \o got["up"] \o queue["net"]["up"]
                              \o queue["unix"]["up"] \o queue["tcp"]["up"]
           ELSE sent["up"] = got["up"] \o queue["net"]["up"]
                              \o queue["unix"]["up"] \o queue["tcp"]["up"]
        /\ (IF tunnel THEN <<"200">> ELSE <<>>) \o sent["down"] =
                got["down"] \o queue["tcp"]["down"] \o queue["unix"]["down"]
                    \o queue["net"]["down"]

\* A client that has asked hears something, be it that the connection is over.
AskAnswered == (client # "idle") ~> (got["down"] # <<>> \/ ~command)

\* A server's answer reaches the client whole, even if the client had said all
\* it had to say before.
AnswerArrives ==
    ("end" \in Range(sent["down"])) ~> (cut \/ "end" \in Range(got["down"]))

\* Nothing of the connection stays behind in the daemon when the command has
\* ended, though nobody waits for the task that serves it (src/proxy.rs:105).
ProxyLetsGo == (~command) ~> (hop["proxy"] \in {"none", "closed"})
=============================================================================
