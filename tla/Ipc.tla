--------------------------------- MODULE Ipc ---------------------------------
(***************************************************************************)
(* Requests between clients and the daemon: DaemonClient and IPCSocket at  *)
(* one end, handleConnection, tryAcquireRequest and handleRequest of       *)
(* daemon.ts at the other, and between them streams of bytes that arrive   *)
(* in chunks of any size.  Requests run side by side within the limits of  *)
(* their lane and of their socket; clients disconnect, time out and        *)
(* connect again, and the daemon drops a socket whose frame is too long.   *)
(***************************************************************************)
EXTENDS IpcParser, FiniteSets

CONSTANTS
    Clients,
    Requests,
    ClientOf,        \* who sends a request
    LaneOf,          \* requestLane
    Lengths,         \* the lengths its frame may have, without the newline
    LaneLimit,       \* laneLimit; the lane light has none
    MaxPerSocket,    \* maxInflightPerSocket
    MaxChunk,        \* bound: bytes that arrive at once
    MaxLinks         \* bound: connects of each client

Lanes == {"light", "exec", "transfer", "wait"}

ASSUME RequestsAssumption ==
    /\ ClientOf \in [Requests -> Clients]
    /\ LaneOf \in [Requests -> Lanes]
    /\ Lengths \in [Requests -> SUBSET (Nat \ {0})]
ASSUME LimitsAssumption ==
    /\ LaneLimit \in [Lanes \ {"light"} -> Nat \ {0}]
    /\ {MaxPerSocket, MaxChunk} \subseteq Nat \ {0}
    /\ MaxLinks \in [Clients -> Nat \ {0}]

VARIABLES
    up,        \* the daemon serves
    client,    \* the transport of each client
    send,      \* what became of the send of each request
    link,      \* the sockets of each client, one after the other
    work,      \* what the daemon did with each request
    lane       \* inflightByLane

vars == <<up, client, send, link, work, lane>>

Links(c) == 1..MaxLinks[c]
\* joining: send awaits connect.
Sends == {"new", "joining", "pending", "answered", "refused", "timeout", "closed"}
Settled == {"answered", "refused", "timeout", "closed"}
NoLink == [open |-> FALSE,             \* the client has not closed it
           served |-> FALSE,           \* the daemon has not closed it
           toDaemon |-> <<>>, toClient |-> <<>>,         \* bytes on their way
           daemonParser |-> EmptyParser, clientParser |-> EmptyParser,
           inflight |-> 0,
           sent |-> <<>>, seen |-> <<>>]   \* for the properties: the requests

TypeOK ==
    /\ up \in BOOLEAN
    /\ client \in [Clients -> [conn : {"off", "connecting", "on"}, links : Nat,
                               joining : Seq(Requests)]]
    /\ send \in [Requests -> Sends]
    /\ DOMAIN link = Clients /\ \A c \in Clients : DOMAIN link[c] = Links(c)
    /\ work \in [Requests -> [state : {"none", "refused", "handling", "done"}, on : Nat]]
    /\ lane \in [Lanes -> Nat]

Init ==
    /\ up = TRUE
    /\ client = [c \in Clients |-> [conn |-> "off", links |-> 0, joining |-> <<>>]]
    /\ send = [r \in Requests |-> "new"]
    /\ link = [c \in Clients |-> [g \in Links(c) |-> NoLink]]
    /\ work = [r \in Requests |-> [state |-> "none", on |-> 0]]
    /\ lane = [l \in Lanes |-> 0]

-----------------------------------------------------------------------------
(* Frames *)

\* Only the last byte of a text closes it.
Line(m, length) == [i \in 1..length |-> <<m, i = length>>]
encodeMessage(m, length) == Append(Line(m, length), Newline)

\* A line that is no whole message is skipped.
LengthsOf(m) == IF m[2] = "request" THEN Lengths[m[1]] ELSE {1}
Messages == Requests \X {"request", "answered", "refused"}
ASSUME NewlineAssumption == \A m \in Messages, b \in BOOLEAN : Newline # <<m, b>>
emitLine(line) == {m \in Messages : \E length \in LengthsOf(m) : line = Line(m, length)}
Emitted(lines) == FlattenSeq([i \in DOMAIN lines |-> SetToSeq(emitLine(lines[i]))])

Sizes == {size \in [Requests -> UNION {Lengths[r] : r \in Requests}] :
            \A r \in Requests : size[r] \in Lengths[r]}
Written(k, rs, size) ==
    [k EXCEPT !.toDaemon = @ \o FlattenSeq([i \in DOMAIN rs |->
                                  encodeMessage(<<rs[i], "request">>, size[rs[i]])]),
              !.sent = @ \o rs]

-----------------------------------------------------------------------------
(* The client *)

Current(c) == client[c].links
Pending(c) == {r \in Requests : ClientOf[r] = c /\ send[r] = "pending"}
Joining(c) == ToSet(client[c].joining)

\* send of DaemonClient: written at once, or when the connect it starts or joins is up.
Send(r) ==
    LET c == ClientOf[r] IN
    /\ send[r] = "new"
    /\ \/ /\ client[c].conn = "on"
          /\ \E size \in Sizes :
               link' = [link EXCEPT ![c][Current(c)] = Written(@, <<r>>, size)]
          /\ send' = [send EXCEPT ![r] = "pending"]
          /\ UNCHANGED client
       \/ /\ client[c].conn = "off" /\ Current(c) < MaxLinks[c]
          /\ client' = [client EXCEPT ![c] = [conn |-> "connecting", links |-> @.links + 1,
                                              joining |-> <<r>>]]
          /\ send' = [send EXCEPT ![r] = "joining"]
          /\ UNCHANGED link
       \/ /\ client[c].conn = "connecting"
          /\ client' = [client EXCEPT ![c].joining = Append(@, r)]
          /\ send' = [send EXCEPT ![r] = "joining"]
          /\ UNCHANGED link
    /\ UNCHANGED <<up, work, lane>>

\* The connect comes up, handleConnection accepts it, and those that wait write.
Connected(c) ==
    /\ client[c].conn = "connecting" /\ up
    /\ client' = [client EXCEPT ![c].conn = "on", ![c].joining = <<>>]
    /\ send' = [r \in Requests |-> IF r \in Joining(c) THEN "pending" ELSE send[r]]
    /\ \E size \in Sizes :
         link' = [link EXCEPT ![c][Current(c)] =
           Written([NoLink EXCEPT !.open = TRUE, !.served = TRUE], client[c].joining, size)]
    /\ UNCHANGED <<up, work, lane>>

\* Fault: a connect that is under way is not settled.
closeTransportSilently(c) ==
    /\ client' = [client EXCEPT ![c].conn = "off", ![c].joining = <<>>]
    /\ send' = [r \in Requests |-> IF r \in Pending(c) THEN "closed" ELSE send[r]]

\* A connect that is under way and every request that waits is settled.
closeTransport(c) ==
    /\ client' = [client EXCEPT ![c].conn = "off", ![c].joining = <<>>]
    /\ send' = [r \in Requests |-> IF r \in Pending(c) \cup Joining(c) THEN "closed" ELSE send[r]]

ConnectFails(c) ==
    /\ client[c].conn = "connecting" /\ ~up
    /\ closeTransport(c)
    /\ UNCHANGED <<up, link, work, lane>>

\* disconnect: ensureDaemon starts over, or the client ends.
Disconnect(c) ==
    /\ client[c].conn # "off"
    /\ closeTransport(c)
    /\ link' = IF client[c].conn = "on"
               THEN [link EXCEPT ![c][Current(c)] =
                       [@ EXCEPT !.open = FALSE, !.toClient = <<>>, !.clientParser = EmptyParser]]
               ELSE link
    /\ UNCHANGED <<up, work, lane>>

\* The close event of a socket the daemon has closed; what was not read is lost.
SeesClose(c) ==
    /\ client[c].conn = "on" /\ ~link[c][Current(c)].served
    /\ Disconnect(c)

\* The timer of a request.
Timeout(r) ==
    /\ send[r] = "pending"
    /\ send' = [send EXCEPT ![r] = "timeout"]
    /\ UNCHANGED <<up, client, link, work, lane>>

\* dataHandler: an answer settles the request of its id, if it still waits.
ClientReads(c, n) ==
    LET k == link[c][Current(c)]
        got == push(k.clientParser, SubSeq(k.toClient, 1, n))
        answers == ToSet(Emitted(got.lines))
        For(r) == {tag \in {"answered", "refused"} : <<r, tag>> \in answers}
    IN  /\ client[c].conn = "on" /\ n <= Len(k.toClient)
        /\ link' = [link EXCEPT ![c][Current(c)] =
             [k EXCEPT !.toClient = SubSeq(@, n + 1, Len(@)), !.clientParser = got.parser]]
        /\ send' = [r \in Requests |->
             IF send[r] = "pending" /\ For(r) # {} THEN CHOOSE tag \in For(r) : TRUE
             ELSE send[r]]
        /\ UNCHANGED <<up, client, work, lane>>

-----------------------------------------------------------------------------
(* The daemon *)

LaneFull(l, count) == l # "light" /\ count[l] >= LaneLimit[l]

\* writeResponse
Answered(k, r, tag) ==
    IF k.served /\ k.open THEN [k EXCEPT !.toClient = @ \o encodeMessage(<<r, tag>>, 1)] ELSE k

\* tryAcquireRequest for one request of a chunk, with what the ones before it took.
tryAcquire(s, r) ==
    LET l == LaneOf[r]
        k == [s.link EXCEPT !.seen = Append(@, r)]
    IN  IF k.inflight >= MaxPerSocket \/ LaneFull(l, s.lane)
        THEN [s EXCEPT !.link = Answered(k, r, "refused"), !.refused = @ \cup {r}]
        ELSE [s EXCEPT !.link = [k EXCEPT !.inflight = @ + 1], !.lane[l] = @ + 1,
                       !.taken = @ \cup {r}]

\* The data event: each request of the chunk is acquired or refused in turn.
Receive(c, g, n) ==
    LET k == link[c][g]
        got == push(k.daemonParser, SubSeq(k.toDaemon, 1, n))
        before == [link |-> [k EXCEPT !.toDaemon = SubSeq(@, n + 1, Len(@)),
                                      !.daemonParser = got.parser],
                   lane |-> lane, taken |-> {}, refused |-> {}]
        messages == Emitted(got.lines)
        acquired[i \in 0..Len(messages)] ==
            IF i = 0 THEN before ELSE tryAcquire(acquired[i - 1], messages[i][1])
        after == acquired[Len(messages)]
    IN  /\ up /\ k.served /\ n <= Len(k.toDaemon)
        /\ ~got.thrown
        /\ link' = [link EXCEPT ![c][g] = after.link]
        /\ lane' = after.lane
        /\ work' = [r \in Requests |->
             IF r \in after.taken THEN [state |-> "handling", on |-> g]
             ELSE IF r \in after.refused THEN [state |-> "refused", on |-> g] ELSE work[r]]
        /\ UNCHANGED <<up, client, send>>

closedByDaemon(k) == [k EXCEPT !.served = FALSE, !.toDaemon = <<>>, !.daemonParser = EmptyParser]

\* A frame that is too long: an error for no request in particular, and the socket goes.
ReceiveTooMuch(c, g, n) ==
    LET k == link[c][g] IN
    /\ up /\ k.served /\ n <= Len(k.toDaemon)
    /\ push(k.daemonParser, SubSeq(k.toDaemon, 1, n)).thrown
    /\ link' = [link EXCEPT ![c][g] = closedByDaemon(k)]
    /\ UNCHANGED <<up, client, send, work, lane>>

\* The close event of a socket the client has closed; bytes on their way may be lost.
DaemonSeesClose(c, g) ==
    /\ up /\ link[c][g].served /\ ~link[c][g].open
    /\ link' = [link EXCEPT ![c][g] = closedByDaemon(@)]
    /\ UNCHANGED <<up, client, send, work, lane>>

\* Fault: nothing is released when the socket closed while the request was handled.
HandleUnlessClosed(r) ==
    LET c == ClientOf[r]
        g == work[r].on
        k == link[c][g]
    IN  /\ up /\ work[r].state = "handling"
        /\ work' = [work EXCEPT ![r].state = "done"]
        /\ IF k.served
           THEN /\ link' = [link EXCEPT ![c][g] = [Answered(k, r, "answered") EXCEPT !.inflight = @ - 1]]
                /\ lane' = [lane EXCEPT ![LaneOf[r]] = @ - 1]
           ELSE UNCHANGED <<link, lane>>
        /\ UNCHANGED <<up, client, send>>

\* handleRequest returns or throws: the answer, if there is somebody to read it, and the
\* release.
Handle(r) ==
    LET c == ClientOf[r]
        g == work[r].on
        k == link[c][g]
    IN  /\ up /\ work[r].state = "handling"
        /\ work' = [work EXCEPT ![r].state = "done"]
        /\ link' = [link EXCEPT ![c][g] = [Answered(k, r, "answered") EXCEPT !.inflight = @ - 1]]
        /\ lane' = [lane EXCEPT ![LaneOf[r]] = @ - 1]
        /\ UNCHANGED <<up, client, send>>

\* stop: every socket is destroyed.
Stop ==
    /\ up /\ up' = FALSE
    /\ link' = [c \in Clients |-> [g \in Links(c) |-> closedByDaemon(link[c][g])]]
    /\ UNCHANGED <<client, send, work, lane>>

-----------------------------------------------------------------------------
Next ==
    \/ \E r \in Requests : Send(r) \/ Timeout(r) \/ Handle(r)
    \/ \E c \in Clients : Connected(c) \/ ConnectFails(c) \/ Disconnect(c) \/ SeesClose(c)
    \/ \E c \in Clients, n \in 1..MaxChunk : ClientReads(c, n)
    \/ \E c \in Clients : \E g \in Links(c) :
         \/ DaemonSeesClose(c, g)
         \/ \E n \in 1..MaxChunk : Receive(c, g, n) \/ ReceiveTooMuch(c, g, n)
    \/ Stop

Spec == Init /\ [][Next]_vars

\* Connects on a local socket come up or fail, timers fire, handlers end by their own
\* deadlines and a socket that is closed emits close.
Fairness ==
    /\ \A c \in Clients :
        /\ WF_vars(Connected(c) \/ ConnectFails(c))
        /\ WF_vars(SeesClose(c))
        /\ \A g \in Links(c) : WF_vars(DaemonSeesClose(c, g))
    /\ \A r \in Requests : WF_vars(Timeout(r)) /\ WF_vars(Handle(r))

FairSpec == Spec /\ Fairness

-----------------------------------------------------------------------------
(* Properties *)

HandledInLane(l) == {r \in Requests : work[r].state = "handling" /\ LaneOf[r] = l}
HandledOnLink(c, g) ==
    {r \in Requests : work[r].state = "handling" /\ ClientOf[r] = c /\ work[r].on = g}

\* While the daemon serves, the counters of the lanes and of the sockets say how many
\* requests are being handled, whatever became of the sockets and of the clients that
\* sent them; a leak would refuse requests of an idle daemon for ever.
CapacityIsExact ==
    up => /\ \A l \in Lanes : lane[l] = Cardinality(HandledInLane(l))
          /\ \A c \in Clients : \A g \in Links(c) :
               link[c][g].inflight = Cardinality(HandledOnLink(c, g))

\* However the stream is cut, the daemon sees the requests of a socket once each and in
\* the order they were sent, and all of them once the bytes have arrived.
RequestsArriveInOrder ==
    \A c \in Clients : \A g \in Links(c) :
        LET k == link[c][g] IN
        /\ IsPrefix(k.seen, k.sent)
        /\ k.served /\ k.toDaemon = <<>> => k.seen = k.sent

\* Every send ends: with an answer, by its timer, or with the connection it waits for.
SendSettles ==
    \A r \in Requests : send[r] \in {"joining", "pending"} ~> send[r] \in Settled

\* Light requests are never refused for the requests of the other lanes: what the
\* comment above RequestLane says. The limit of the socket counts them all.
LightIsNeverRefused ==
    \A r \in Requests : LaneOf[r] = "light" => work[r].state # "refused"
=============================================================================
