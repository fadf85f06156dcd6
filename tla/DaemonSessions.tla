--------------------------- MODULE DaemonSessions ---------------------------
(* How the daemon (daemon.ts) uses the session manager: connect requests     *)
(* that share an attempt, disconnects by clients, by handlers that meet a    *)
(* dead session and by the idle sweeper, port forward managers per session,  *)
(* and the shutdown.                                                         *)
EXTENDS Sessions

CONSTANTS
    Configs,            \* config hashes of the daemon: the whole JSON
    ChainOf             \* the chain of a config; two configs may share one

ASSUME ConfigsAssumption == ChainOf \in [Configs -> Chains]

VARIABLES
    promise,            \* session a connect request of a config waits for:
                        \* the entry of the daemon's pendingConnects
    sessionMap,         \* session registered for a config
    forwardManagers,    \* sessions with a PortForwardManager
    daemon,             \* "running", "stopping" or "stopped"
    forgotten           \* history: sessions that were disconnected before their
                        \* first hop came up

daemonVars == <<promise, sessionMap, forwardManagers, daemon, forgotten>>
vars == <<sessionVars, daemonVars>>

TypeOK ==
    /\ SessionsTypeOK
    /\ promise \in [Configs -> MaybeSession]
    /\ sessionMap \in [Configs -> MaybeSession]
    /\ forwardManagers \subseteq Sessions
    /\ daemon \in {"running", "stopping", "stopped"}
    /\ forgotten \subseteq Sessions

Init ==
    /\ SessionsInit
    /\ promise = [c \in Configs |-> NoSession]
    /\ sessionMap = [c \in Configs |-> NoSession]
    /\ forwardManagers = {}
    /\ daemon = "running"
    /\ forgotten = {}

-----------------------------------------------------------------------------
\* The loop over sessionMap deletes one entry of the session and stops.
dropFromMap(map, s) ==
    IF \E c \in Configs : map[c] = s
    THEN \E c \in Configs : map[c] = s /\ sessionMap' = [map EXCEPT ![c] = NoSession]
    ELSE sessionMap' = map

cleanupSession(map, D) ==
    /\ forwardManagers' = forwardManagers \ D
    /\ IF D = {} THEN sessionMap' = map ELSE \E s \in D : dropFromMap(map, s)

Healthy(s) == s \in sessions /\ status[s] = "connected" /\ connected[s]

\* The registered session of a config that is not healthy any more, if any.
Stale(c) == {sessionMap[c]} \cap sessions

(* handleConnect, handleConnectJson: a healthy session is reused (no change  *)
(* of state). Otherwise the stale one is disconnected, and the request joins *)
(* the attempt under way for its config, or starts one: connectSimple finds  *)
(* a session, or creates one, or is over the quota.                          *)
ConnectRequest(c) ==
    /\ daemon = "running"
    /\ ~Healthy(sessionMap[c])
    /\ cleanupSession([sessionMap EXCEPT ![c] = NoSession], Stale(c))
    /\ UNCHANGED <<daemon, forgotten>>

\* Joins the attempt of its config, or is refused by the quota.
ConnectWithoutSession(c) ==
    /\ ConnectRequest(c)
    /\ promise[c] # NoSession \/ ~WithinQuota(Stale(c))
    /\ disconnect(Stale(c))
    /\ UNCHANGED promise

ConnectTo(c, s) ==
    /\ ConnectRequest(c)
    /\ promise[c] = NoSession
    /\ connect(ChainOf[c], s, Stale(c))
    /\ promise' = [promise EXCEPT ![c] = s]

\* Fault: the entry of a connect that is through stays in pendingConnects.
ConnectReturnsStaysPending(c) ==
    /\ promise[c] # NoSession
    /\ step[promise[c]] = "returned"
    /\ sessionMap' = [sessionMap EXCEPT ![c] = promise[c]]
    /\ UNCHANGED <<sessionVars, promise, forwardManagers, daemon, forgotten>>

(* connectSimple has a session and has probed its shell dialect; the session *)
(* is registered whatever happened to it during the probe.                   *)
ConnectReturns(c) ==
    /\ promise[c] # NoSession
    /\ step[promise[c]] = "returned"
    /\ sessionMap' = [sessionMap EXCEPT ![c] = promise[c]]
    /\ promise' = [promise EXCEPT ![c] = NoSession]
    /\ UNCHANGED <<sessionVars, forwardManagers, daemon, forgotten>>

\* The handlers then look for sessions in status "error"; the failed one is the
\* only one that ever has it, and createSession has removed it already.
ConnectFails(s) ==
    /\ HopFails(s)
    /\ promise' = Without(promise, {s})
    /\ UNCHANGED <<sessionMap, forwardManagers, daemon, forgotten>>

HopStep(s) ==
    \/ HopReady(s) /\ UNCHANGED daemonVars
    \/ LastHopReady(s) /\ UNCHANGED daemonVars
    \/ ConnectFails(s)

-----------------------------------------------------------------------------
(* Disconnects. The ids of all sessions, also of those that still connect,   *)
(* are in the answer to "list". A connect goes on when its session is        *)
(* disconnected: the hop it waits for is not among those that are destroyed. *)
MayName(s) == daemon # "stopped" /\ s \in sessions

Forgets(s) ==
    forgotten' = forgotten \cup {x \in {s} : step[x] = "connecting" /\ hop[x] = 1}

\* handleDisconnect; the forward manager of the session is left alone.
handleDisconnect(s) ==
    /\ MayName(s)
    /\ disconnect({s})
    /\ dropFromMap(sessionMap, s)
    /\ Forgets(s)
    /\ UNCHANGED <<promise, forwardManagers, daemon>>

(* Handlers that give a session up. An exec or a transfer does when it fails *)
(* for any reason, setCwd and bgExec only when they meet one that is not     *)
(* connected. What they do with a good session changes nothing here.         *)
drop(s) ==
    /\ MayName(s)
    /\ disconnect({s})
    /\ cleanupSession(sessionMap, {s})
    /\ Forgets(s)
    /\ UNCHANGED <<promise, daemon>>

handleExec(s) == drop(s)

handleTransfer(s) == drop(s)

handleSetCwd(s) == ~connected[s] /\ drop(s)

handleBgExec(s) == ~connected[s] /\ drop(s)

sweepIdle(s) ==
    /\ daemon = "running"
    /\ s \in sessions /\ status[s] = "connected"
    /\ disconnect({s})
    /\ cleanupSession(sessionMap, {s})
    /\ UNCHANGED <<promise, daemon, forgotten>>

\* The first request for a session gives it a manager ...
handlePortForward(s) ==
    /\ daemon # "stopped"
    /\ s \in sessions \ forwardManagers /\ connected[s]
    /\ forwardManagers' = forwardManagers \cup {s}
    /\ UNCHANGED <<sessionVars, promise, sessionMap, daemon, forgotten>>

\* ... and one that meets a lost connection gives the session up.
PortForwardFails(s) == ~connected[s] /\ drop(s)

-----------------------------------------------------------------------------
\* stop(): from now on connects are refused.
Stop ==
    /\ daemon = "running"
    /\ daemon' = "stopping"
    /\ UNCHANGED <<sessionVars, promise, sessionMap, forwardManagers, forgotten>>

\* Fault: the shutdown does not wait for the connects under way.
StopDisconnectsAtOnce ==
    /\ daemon = "stopping"
    /\ disconnectAll
    /\ forwardManagers' = {}
    /\ daemon' = "stopped"
    /\ UNCHANGED <<promise, sessionMap, forgotten>>

\* allSettled(pendingConnects) is over: disconnectAll and the rest of stop().
StopDisconnects ==
    /\ daemon = "stopping"
    /\ \A c \in Configs : promise[c] = NoSession
    /\ disconnectAll
    /\ forwardManagers' = {}
    /\ daemon' = "stopped"
    /\ UNCHANGED <<promise, sessionMap, forgotten>>

Lost(s) == \E i \in up[s] : HopLost(s, i) /\ UNCHANGED daemonVars

Finished == daemon = "stopped" /\ UNCHANGED vars

Next ==
    \/ \E c \in Configs : ConnectWithoutSession(c)
    \/ \E c \in Configs, s \in Sessions : ConnectTo(c, s)
    \/ \E s \in Sessions : HopStep(s)
    \/ \E c \in Configs : ConnectReturns(c)
    \/ \E s \in Sessions :
        \/ handleDisconnect(s) \/ sweepIdle(s) \/ Lost(s)
        \/ handleExec(s) \/ handleTransfer(s) \/ handleSetCwd(s) \/ handleBgExec(s)
        \/ handlePortForward(s) \/ PortForwardFails(s)
    \/ Stop \/ StopDisconnects \/ Finished

Spec == Init /\ [][Next]_vars

(* Every await of a connect has a timer (connectionTimeout, the handshake    *)
(* timeout, the timeout of the probe), and allSettled goes on when they are  *)
(* through. The sweeper runs every 30 s and every session is left idle in    *)
(* the end. Nothing is assumed of clients or of the network.                 *)
Fairness ==
    /\ \A s \in Sessions : WF_vars(HopStep(s))
    /\ \A c \in Configs : WF_vars(ConnectReturns(c))
    /\ WF_vars(StopDisconnects)
    /\ \A s \in Sessions : WF_vars(sweepIdle(s))

FairSpec == Spec /\ Fairness

-----------------------------------------------------------------------------
(* Properties *)

\* Once its connect is over, every SSH transport belongs to a session the manager
\* knows, so that some disconnect can close it: createSession removes failed attempts,
\* disconnect and disconnectAll remove what they closed. The only sessions that escape
\* were disconnected while they waited for their first hop (session-manager.ts:218);
\* one that waits for a later hop loses the tunnel it needs and comes to nothing.
NoOrphanTransport ==
    \A s \in Sessions :
        step[s] # "connecting" /\ up[s] # {} => s \in sessions \cup forgotten

\* When stop() is through no connect is under way, whoever disconnected its session,
\* and no SSH connection is open but those of sessions that were forgotten before:
\* connects under way are waited for before disconnectAll.
NoConnectionPastShutdown ==
    daemon = "stopped" =>
        \A s \in Sessions : step[s] # "connecting" /\ (up[s] # {} => s \in forgotten)

\* daemon.ts:489: no SSH connection leaks past shutdown. That of a session that was
\* disconnected before its first hop came up does.
NothingOpenPastShutdown == daemon = "stopped" => \A s \in Sessions : up[s] = {}

\* What handleConnect and the handlers trust: a session shown as connected has
\* all its hops up, and one whose connection dropped is not shown as connected.
StatusIsTrue ==
    \A s \in sessions :
        status[s] = "connected" => connected[s] /\ up[s] = 1..Length[chain[s]]

\* Concurrent requests for one chain share a connection, over the two levels of
\* pending connects and through reuse. A session that was disconnected while it connects
\* is still shared until its connect is over; a forgotten one then stands beside the next.
OneConnectionPerChain ==
    \A s, r \in Sessions :
        /\ chain[s] = chain[r] /\ chain[s] # NoChain
        /\ step[s] = "connecting" \/ connected[s]
        /\ step[r] = "connecting" \/ connected[r]
        => s = r \/ \E x \in {s, r} \cap forgotten : step[x] = "returned"

\* maxSessions bounds what is really open or may still open, although the
\* manager only counts by status, and stops counting a connect that lost a hop.
\* Forgotten sessions come on top.
QuotaHolds ==
    Cardinality({s \in Sessions \ forgotten : MayComeUp(s) \/ connected[s]}) <= MaxSessions

\* Every connect request is answered, and a shutdown comes to its end whatever
\* the connects under way do.
ConnectIsAnswered == \A c \in Configs : promise[c] # NoSession ~> promise[c] = NoSession
StopCompletes == daemon = "stopping" ~> daemon = "stopped"

\* A forward manager is dropped on every path that disconnects its session
\* (cleanupSession).
ManagersHaveSessions == forwardManagers \subseteq sessions

\* cli/ssh-exec.ts:192: idle connections are closed. No transport of a session that is
\* not forgotten stays open for ever; but one that lost its target is never swept.
IdleTransportIsClosed == \A s \in Sessions : up[s] # {} ~> up[s] = {} \/ s \in forgotten
=============================================================================
