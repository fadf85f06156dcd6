--------------------------- MODULE PortForwarding ---------------------------
(* PortForwardManager (port-forwarding.ts): the local and remote forwards of *)
(* one SSH client, the connections tunnelled through them, stop and stopAll, *)
(* and what happens when the client is lost. Starting a forward, closing a   *)
(* server and opening a channel are awaited; everything else comes between.  *)
EXTENDS Integers, FiniteSets

CONSTANTS
    Local, Remote,      \* ids of forwards: localForward, remoteForward
    Binds,              \* bind address and port
    Bind,               \* the bind of each forward
    AnyPort,            \* binds with port 0, for which a free port is picked
    Conns,              \* tunnelled connections
    Loops,              \* calls of stopAll: the client's handler and callers
    OnClose,            \* the one of handleClientDisconnect
    NoForward

Forwards == Local \cup Remote

ASSUME ForwardsAssumption ==
    /\ Local \cap Remote = {} /\ NoForward \notin Forwards
    /\ Bind \in [Forwards -> Binds] /\ AnyPort \subseteq Binds
    /\ OnClose \in Loops

VARIABLES
    starting,       \* listen or forwardIn was called
    forwards,       \* keys of the map of forwards
    status,         \* forward.status
    bound,          \* forwards whose port is open, here or on the server
    stoppingIds,
    remoteRoutes,   \* forward registered for a bind
    tcpConnectionBound,
    clientClosed,
    phase,          \* of a connection
    through,        \* the forward of a connection
    connections,    \* forward.connections
    visited,        \* ids a stopAll has been through
    waiting,        \* the stop a stopAll awaits
    looping,        \* calls of stopAll under way
    fatal           \* an exception nobody catches ends the process

forwardVars == <<starting, forwards, status, bound, stoppingIds>>
routeVars == <<remoteRoutes, tcpConnectionBound>>
connVars == <<phase, through, connections>>
loopVars == <<visited, waiting, looping>>
vars == <<forwardVars, routeVars, clientClosed, connVars, loopVars, fatal>>

\* "unheard": the local socket closed before its channel was there.
\* "stuck": the channel came after that; no handler of this connection is left.
Phases == {"unused", "opening", "unheard", "piped", "closed", "stuck"}
MaybeForward == Forwards \cup {NoForward}

TypeOK ==
    /\ starting \subseteq Forwards /\ forwards \subseteq Forwards
    /\ status \in [Forwards -> {"none", "active", "stopped", "error"}]
    /\ bound \subseteq Forwards /\ stoppingIds \subseteq forwards
    /\ remoteRoutes \in [Binds -> Remote \cup {NoForward}]
    /\ phase \in [Conns -> Phases]
    /\ through \in [Conns -> MaybeForward]
    /\ connections \in [Forwards -> Nat]
    /\ visited \in [Loops -> SUBSET Forwards]
    /\ waiting \in [Loops -> MaybeForward]
    /\ looping \subseteq Loops
    /\ {tcpConnectionBound, clientClosed, fatal} \subseteq BOOLEAN

Init ==
    /\ starting = {} /\ forwards = {} /\ bound = {} /\ stoppingIds = {}
    /\ status = [f \in Forwards |-> "none"]
    /\ remoteRoutes = [b \in Binds |-> NoForward]
    /\ tcpConnectionBound = FALSE /\ clientClosed = FALSE /\ fatal = FALSE
    /\ phase = [c \in Conns |-> "unused"]
    /\ through = [c \in Conns |-> NoForward]
    /\ connections = [f \in Forwards |-> 0]
    /\ visited = [w \in Loops |-> {}]
    /\ waiting = [w \in Loops |-> NoForward]
    /\ looping = {}

-----------------------------------------------------------------------------
(* Starting a forward. *)

Start(f) ==
    /\ ~fatal
    /\ status[f] = "none" /\ ~clientClosed
    /\ status' = [status EXCEPT ![f] = "active"]
    /\ starting' = starting \cup {f}
    /\ UNCHANGED <<forwards, bound, stoppingIds, routeVars, clientClosed, connVars, loopVars, fatal>>

\* A forward with port 0 never finds its port taken.
BindTaken(f) ==
    /\ Bind[f] \notin AnyPort
    /\ \E g \in bound : Bind[g] = Bind[f] /\ (g \in Local <=> f \in Local)

\* The server listens; whether the client is still there is not asked again.
ListenDone(f) ==
    /\ ~fatal
    /\ f \in starting \cap Local /\ ~BindTaken(f)
    /\ starting' = starting \ {f}
    /\ forwards' = forwards \cup {f}
    /\ bound' = bound \cup {f}
    /\ UNCHANGED <<status, stoppingIds, routeVars, clientClosed, connVars, loopVars, fatal>>

\* The route is registered for the port that was asked for, also if that is 0.
ForwardInDone(f) ==
    /\ ~fatal
    /\ f \in starting \cap Remote /\ ~BindTaken(f) /\ ~clientClosed
    /\ starting' = starting \ {f}
    /\ forwards' = forwards \cup {f}
    /\ bound' = bound \cup {f}
    /\ remoteRoutes' = [remoteRoutes EXCEPT ![Bind[f]] = f]
    /\ tcpConnectionBound' = TRUE
    /\ UNCHANGED <<status, stoppingIds, clientClosed, connVars, loopVars, fatal>>

StartFails(f) ==
    /\ ~fatal
    /\ f \in starting
    /\ starting' = starting \ {f}
    /\ status' = [status EXCEPT ![f] = "error"]
    /\ UNCHANGED <<forwards, bound, stoppingIds, routeVars, clientClosed, connVars, loopVars, fatal>>

-----------------------------------------------------------------------------
(* Connections. *)

count(f, n) == connections' = [connections EXCEPT ![f] = @ + n]

(* The dispatcher looks up the route of the port that was connected to, which *)
(* is never 0, and rejects the connection without one.                       *)
RemoteAccept(c, b) ==
    /\ ~fatal /\ b \notin AnyPort
    /\ phase[c] = "unused" /\ tcpConnectionBound /\ ~clientClosed
    /\ remoteRoutes[b] # NoForward
    /\ phase' = [phase EXCEPT ![c] = "piped"]
    /\ through' = [through EXCEPT ![c] = remoteRoutes[b]]
    /\ count(remoteRoutes[b], 1)
    /\ UNCHANGED <<forwardVars, routeVars, clientClosed, loopVars, fatal>>

\* forwardOut throws on a client that is gone, and nobody catches that.
LocalAccept(c, f) ==
    /\ ~fatal
    /\ phase[c] = "unused" /\ f \in bound \cap Local
    /\ phase' = [phase EXCEPT ![c] = "opening"]
    /\ through' = [through EXCEPT ![c] = f]
    /\ count(f, 1)
    /\ fatal' = clientClosed
    /\ UNCHANGED <<forwardVars, routeVars, clientClosed, loopVars>>

\* The callback of forwardOut installs the handlers of the socket.
ChannelOpens(c) ==
    /\ ~fatal
    /\ phase[c] \in {"opening", "unheard"} /\ ~clientClosed
    /\ phase' = [phase EXCEPT ![c] = IF @ = "opening" THEN "piped" ELSE "stuck"]
    /\ UNCHANGED <<forwardVars, routeVars, clientClosed, through, connections, loopVars, fatal>>

\* forwardOut calls back with an error: the connection is given back.
ChannelFails(c) ==
    /\ ~fatal
    /\ phase[c] \in {"opening", "unheard"}
    /\ phase' = [phase EXCEPT ![c] = "closed"]
    /\ count(through[c], -1)
    /\ UNCHANGED <<forwardVars, routeVars, clientClosed, through, loopVars, fatal>>

\* Either end closes: closeOnce, or the "close" event of a remote stream.
ConnectionCloses(c) ==
    /\ ~fatal
    /\ phase[c] = "piped"
    /\ phase' = [phase EXCEPT ![c] = "closed"]
    /\ count(through[c], -1)
    /\ UNCHANGED <<forwardVars, routeVars, clientClosed, through, loopVars, fatal>>

\* The local end leaves before its channel is open: a "close" event without a
\* handler, or an "error" event, which without a handler is thrown.
EarlyClose(c) ==
    /\ ~fatal
    /\ phase[c] = "opening"
    /\ \/ phase' = [phase EXCEPT ![c] = "unheard"] /\ UNCHANGED fatal
       \/ fatal' = TRUE /\ UNCHANGED phase
    /\ UNCHANGED <<forwardVars, routeVars, clientClosed, through, connections, loopVars>>

-----------------------------------------------------------------------------
(* stop, up to its await for a local forward and as a whole for a remote one. *)

\* Fault: the route of a forward that is stopped is kept.
unrouteForgotten(f) == UNCHANGED routeVars

unroute(f) ==
    /\ remoteRoutes' = [remoteRoutes EXCEPT ![Bind[f]] = NoForward]
    /\ tcpConnectionBound' = (tcpConnectionBound /\ \E b \in Binds : remoteRoutes'[b] # NoForward)

stopRemote(f) ==
    /\ bound' = bound \ {f}
    /\ unroute(f)
    /\ status' = [status EXCEPT ![f] = "stopped"]
    /\ forwards' = forwards \ {f}
    /\ UNCHANGED <<starting, stoppingIds>>

\* server.close: the port is given back, the connections are waited for.
stopLocal(f) ==
    /\ bound' = bound \ {f}
    /\ stoppingIds' = stoppingIds \cup {f}
    /\ UNCHANGED <<starting, forwards, status, routeVars>>

stop(f) ==
    /\ f \in forwards \ stoppingIds
    /\ IF f \in Remote THEN stopRemote(f) ELSE stopLocal(f)

Stop(f) == ~fatal /\ stop(f) /\ UNCHANGED <<clientClosed, connVars, loopVars, fatal>>

SocketOpen(c) == phase[c] \in {"opening", "piped"}

\* The callback of server.close: the last connection is gone.
Closed(f) ==
    /\ ~fatal
    /\ f \in stoppingIds
    /\ \A c \in Conns : through[c] = f => ~SocketOpen(c)
    /\ stoppingIds' = stoppingIds \ {f}
    /\ forwards' = forwards \ {f}
    /\ status' = [status EXCEPT ![f] = "stopped"]
    /\ waiting' = [w \in Loops |-> IF waiting[w] = f THEN NoForward ELSE waiting[w]]
    /\ UNCHANGED <<starting, bound, routeVars, clientClosed, connVars, visited, looping, fatal>>

-----------------------------------------------------------------------------
(* stopAll goes through the keys of the map, one stop after the other. The   *)
(* order of the keys is left open.                                           *)
StopAll(w) ==
    /\ ~fatal
    /\ w # OnClose /\ w \notin looping
    /\ looping' = looping \cup {w}
    /\ visited' = [visited EXCEPT ![w] = {}]
    /\ UNCHANGED <<forwardVars, routeVars, clientClosed, connVars, waiting, fatal>>

StopAllNext(w, f) ==
    /\ ~fatal
    /\ w \in looping /\ waiting[w] = NoForward
    /\ f \in forwards \ visited[w]
    /\ visited' = [visited EXCEPT ![w] = @ \cup {f}]
    /\ \/ f \in stoppingIds /\ UNCHANGED <<forwardVars, routeVars, waiting>>
       \/ stop(f) /\ waiting' = [waiting EXCEPT ![w] = IF f \in Local THEN f ELSE @]
    /\ UNCHANGED <<clientClosed, connVars, looping, fatal>>

StopAllDone(w) ==
    /\ ~fatal
    /\ w \in looping /\ waiting[w] = NoForward
    /\ forwards \subseteq visited[w]
    /\ looping' = looping \ {w}
    /\ UNCHANGED <<forwardVars, routeVars, clientClosed, connVars, visited, waiting, fatal>>

(* handleClientDisconnect. drainAllConnections destroys the sockets: those   *)
(* with handlers are closed and counted, those whose channel is not open     *)
(* have nobody who hears it.                                                 *)
\* Fault: connections are not drained.
drainNothing == UNCHANGED connVars

drainAllConnections ==
    LET piped(f) == {c \in Conns : phase[c] = "piped" /\ through[c] = f}
    IN /\ phase' = [c \in Conns |-> CASE phase[c] = "piped" -> "closed"
                                      [] phase[c] = "opening" -> "unheard"
                                      [] OTHER -> phase[c]]
       /\ connections' = [f \in Forwards |-> connections[f] - Cardinality(piped(f))]
       /\ UNCHANGED through

ClientCloses ==
    /\ ~fatal
    /\ ~clientClosed
    /\ clientClosed' = TRUE
    /\ drainAllConnections
    /\ status' = [f \in Forwards |-> IF f \in forwards THEN "error" ELSE status[f]]
    /\ bound' = bound \cap Local
    /\ looping' = looping \cup {OnClose}
    /\ UNCHANGED <<starting, forwards, stoppingIds, routeVars, visited, waiting, fatal>>

-----------------------------------------------------------------------------
ForwardStep(f) == ListenDone(f) \/ ForwardInDone(f) \/ StartFails(f)
ChannelStep(c) == ChannelOpens(c) \/ ChannelFails(c)
LoopStep(w) == StopAllDone(w) \/ \E f \in Forwards : StopAllNext(w, f)

Next ==
    \/ \E f \in Forwards : Start(f) \/ ForwardStep(f) \/ Stop(f) \/ Closed(f)
    \/ \E c \in Conns, b \in Binds : RemoteAccept(c, b)
    \/ \E c \in Conns, f \in Forwards : LocalAccept(c, f)
    \/ \E c \in Conns : ChannelStep(c) \/ ConnectionCloses(c) \/ EarlyClose(c)
    \/ \E w \in Loops : StopAll(w) \/ LoopStep(w)
    \/ ClientCloses

Spec == Init /\ [][Next]_vars

(* Local servers open and close, and the client answers or is lost, in which *)
(* case ssh2 fails what it has outstanding. Connections may stay open as     *)
(* long as their ends like.                                                  *)
Fairness ==
    /\ \A f \in Forwards : WF_vars(ForwardStep(f)) /\ WF_vars(Closed(f))
    /\ \A c \in Conns : WF_vars(ChannelStep(c))
    /\ \A w \in Loops : WF_vars(LoopStep(w))

FairSpec == Spec /\ Fairness

-----------------------------------------------------------------------------
(* Properties *)

\* The dispatcher serves exactly the remote forwards of a given port that are
\* registered, over any sequence of starts, stops and reuse of a bind, whatever
\* forwards with port 0 overwrite and remove for each other in between.
RoutesMatchForwards ==
    /\ \A f \in forwards \cap Remote : Bind[f] \notin AnyPort => remoteRoutes[Bind[f]] = f
    /\ \A b \in Binds : remoteRoutes[b] # NoForward => remoteRoutes[b] \in forwards
    /\ tcpConnectionBound <=> \E b \in Binds : remoteRoutes[b] # NoForward

\* mcp-server.ts:1388: a remote forward exposes a local service. Without its route, or
\* with one that leads to another forward, it does not.
ListedIsRouted == \A f \in forwards \cap Remote : remoteRoutes[Bind[f]] = f

\* A local forward that reports "stopped" has given back its port and carries no
\* connection any more.
StoppedIsQuiet ==
    \A f \in Local : status[f] = "stopped" =>
        f \notin bound /\ \A c \in Conns : through[c] = f => ~SocketOpen(c)

\* The forwards a lost client leaves behind are all stopped, one after the other,
\* although their connections never close by themselves.
LostForwardIsStopped ==
    \A f \in Forwards :
        (clientClosed /\ f \in forwards /\ status[f] = "error") ~> (f \notin forwards \/ fatal)

\* forward.connections is the number of connections of the forward.
CountIsExact ==
    \A f \in Forwards :
        connections[f] = Cardinality({c \in Conns : through[c] = f
                                         /\ phase[c] \in {"opening", "unheard", "piped"}})

\* A lost client has no forward that claims to be active.
LostClientHasNoActive == clientClosed => \A f \in forwards : status[f] # "active"
=============================================================================
