---------------------------- MODULE McpSessions ----------------------------
(* How the MCP server (mcp-server.ts) uses its own session manager for file  *)
(* operations: a cache of clients per profile, one shared connect per        *)
(* profile, eviction after an error and a sweeper of dead sessions. The      *)
(* eviction and the sweeper await stopAll() of port forwards, so that other  *)
(* calls come between the removal from the cache and the disconnect.         *)
EXTENDS Sessions

CONSTANTS
    Profiles,       \* cache keys
    ChainOf,        \* the chain of a profile
    Default         \* the profile of the initial configuration

ASSUME ProfilesAssumption == ChainOf \in [Profiles -> Chains] /\ Default \in Profiles

VARIABLES
    clientCache,        \* session of the cached client of a profile
    pendingConnections, \* session the shared connect of a profile waits for
    evicting,           \* <<p, s>>: a call took s out of the cache for p
    sweepTodo,          \* sessions the sweeper has yet to disconnect
    failed              \* session on which the first attempt for p failed

mcpVars == <<clientCache, pendingConnections, evicting, sweepTodo, failed>>
vars == <<sessionVars, mcpVars>>

TypeOK ==
    /\ SessionsTypeOK
    /\ clientCache \in [Profiles -> MaybeSession]
    /\ pendingConnections \in [Profiles -> MaybeSession]
    /\ evicting \subseteq Profiles \X Sessions
    /\ sweepTodo \subseteq Sessions
    /\ failed \in [Profiles -> MaybeSession]

Init ==
    /\ SessionsInit
    /\ clientCache = [p \in Profiles |-> NoSession]
    /\ pendingConnections = [p \in Profiles |-> NoSession]
    /\ evicting = {}
    /\ sweepTodo = {}
    /\ failed = [p \in Profiles |-> NoSession]

-----------------------------------------------------------------------------
Healthy(s) == s \in sessions /\ status[s] = "connected" /\ connected[s]

(* getClientForProfile: a healthy cached client is returned as it is.        *)
UseCached(p) ==
    /\ Healthy(clientCache[p])
    /\ failed' = [failed EXCEPT ![p] = NoSession]
    /\ UNCHANGED <<sessionVars, clientCache, pendingConnections, evicting, sweepTodo>>

takeFromCache(p) ==
    /\ clientCache[p] # NoSession
    /\ clientCache' = [clientCache EXCEPT ![p] = NoSession]
    /\ evicting' = evicting \cup {<<p, clientCache[p]>>}
    /\ UNCHANGED <<sessionVars, pendingConnections, sweepTodo>>

EvictStale(p) == ~Healthy(clientCache[p]) /\ takeFromCache(p) /\ UNCHANGED failed

\* A call without a cached client starts the shared connect.
ConnectUncached(p, s) ==
    /\ clientCache[p] = NoSession
    /\ pendingConnections[p] = NoSession
    /\ connect(ChainOf[p], s, {})
    /\ pendingConnections' = [pendingConnections EXCEPT ![p] = s]
    /\ UNCHANGED <<clientCache, evicting, sweepTodo, failed>>

(* The forwards are stopped: the session taken out of the cache is           *)
(* disconnected, if it is still there, and the call goes on to connect: it   *)
(* joins the shared connect, fails on the quota, or starts one, without      *)
(* another look at the cache.                                                *)
Evicted(p, old) ==
    /\ <<p, old>> \in evicting
    /\ evicting' = evicting \ {<<p, old>>}
    /\ disconnect({old} \cap sessions)
    /\ UNCHANGED <<clientCache, pendingConnections, sweepTodo, failed>>

EvictedConnects(p, old, s) ==
    /\ <<p, old>> \in evicting
    /\ pendingConnections[p] = NoSession
    /\ evicting' = evicting \ {<<p, old>>}
    /\ connect(ChainOf[p], s, {old} \cap sessions)
    /\ pendingConnections' = [pendingConnections EXCEPT ![p] = s]
    /\ UNCHANGED <<clientCache, sweepTodo, failed>>

\* Fault: a client is cached although its session is gone.
ConnectReturnsUnchecked(p) ==
    LET s == pendingConnections[p] IN
    /\ s # NoSession /\ step[s] = "returned"
    /\ clientCache' = [clientCache EXCEPT ![p] = s]
    /\ pendingConnections' = [pendingConnections EXCEPT ![p] = NoSession]
    /\ UNCHANGED <<sessionVars, evicting, sweepTodo, failed>>

\* The shared connect is through; without a session in the manager it throws.
ConnectReturns(p) ==
    LET s == pendingConnections[p] IN
    /\ s # NoSession /\ step[s] = "returned"
    /\ clientCache' = [clientCache EXCEPT ![p] = IF s \in sessions THEN s ELSE @]
    /\ pendingConnections' = [pendingConnections EXCEPT ![p] = NoSession]
    /\ UNCHANGED <<sessionVars, evicting, sweepTodo, failed>>

ConnectFails(s) ==
    /\ HopFails(s)
    /\ pendingConnections' = Without(pendingConnections, {s})
    /\ UNCHANGED <<clientCache, evicting, sweepTodo, failed>>

(* withReconnect: the first attempt of an operation ends in a connection     *)
(* error. evictClientCache finds the entry by a key it builds anew; for the  *)
(* initial configuration that is the key of a profile with no hops, which    *)
(* no entry has.                                                             *)
OperationFails(p) ==
    /\ Healthy(clientCache[p])
    /\ failed[p] = NoSession
    /\ failed' = [failed EXCEPT ![p] = clientCache[p]]
    /\ IF p = Default
       THEN UNCHANGED <<sessionVars, clientCache, pendingConnections, evicting, sweepTodo>>
       ELSE takeFromCache(p)

-----------------------------------------------------------------------------
\* Fault: the sweeper looks only for sessions that failed to connect.
SweepStartErrors ==
    /\ sweepTodo = {}
    /\ sweepTodo' = {s \in sessions : status[s] = "error"}
    /\ sweepTodo' # {}
    /\ UNCHANGED <<sessionVars, clientCache, pendingConnections, evicting, failed>>

\* The sweeper takes every session that is not connected, from a copy.
SweepStart ==
    /\ sweepTodo = {}
    /\ sweepTodo' = {s \in sessions : status[s] # "connected"}
    /\ sweepTodo' # {}
    /\ UNCHANGED <<sessionVars, clientCache, pendingConnections, evicting, failed>>

SweepOne(s) ==
    /\ s \in sweepTodo
    /\ sweepTodo' = sweepTodo \ {s}
    /\ \/ \E p \in Profiles :
             clientCache[p] = s /\ clientCache' = [clientCache EXCEPT ![p] = NoSession]
       \/ (\A p \in Profiles : clientCache[p] # s) /\ UNCHANGED clientCache
    /\ disconnect({s} \cap sessions)
    /\ UNCHANGED <<pendingConnections, evicting, failed>>

HopStep(s) ==
    \/ HopReady(s) /\ UNCHANGED mcpVars
    \/ LastHopReady(s) /\ UNCHANGED mcpVars
    \/ ConnectFails(s)

Next ==
    \/ \E p \in Profiles : UseCached(p) \/ EvictStale(p) \/ OperationFails(p)
    \/ \E p \in Profiles, s \in Sessions : ConnectUncached(p, s) \/ Evicted(p, s)
    \/ \E p \in Profiles, old, s \in Sessions : EvictedConnects(p, old, s)
    \/ \E p \in Profiles : ConnectReturns(p)
    \/ \E s \in Sessions : HopStep(s) \/ SweepOne(s)
    \/ \E s \in Sessions : \E i \in up[s] : HopLost(s, i) /\ UNCHANGED mcpVars
    \/ SweepStart

Spec == Init /\ [][Next]_vars

(* Connects have timers and stopAll() closes local servers: both end. The    *)
(* sweeper runs every 60 s.                                                  *)
Fairness ==
    /\ \A s \in Sessions : WF_vars(HopStep(s)) /\ WF_vars(SweepOne(s))
    /\ WF_vars(SweepStart)
    /\ \A p \in Profiles : WF_vars(ConnectReturns(p))
    /\ \A p \in Profiles, s \in Sessions : WF_vars(Evicted(p, s))

FairSpec == Spec /\ Fairness

-----------------------------------------------------------------------------
(* Properties *)

\* A cached client whose session the manager has forgotten is not connected:
\* the check of the cache sees that it is dead, whoever disconnected it.
CachedIsKnownOrDead ==
    \A p \in Profiles :
        LET s == clientCache[p] IN s # NoSession /\ s \notin sessions => ~connected[s]

\* A session that lost a hop is taken out of the manager and its other hops
\* are closed, although nobody asks for its profile again.
DeadSessionIsSwept ==
    \A s \in Sessions :
        (s \in sessions /\ status[s] = "disconnected") ~> (s \notin sessions /\ up[s] = {})

\* The sweeper only takes sessions that are dead: no connect ends with open
\* transports of a session the manager does not know.
NoOrphanTransport ==
    \A s \in Sessions : step[s] # "connecting" /\ up[s] # {} => s \in sessions

\* After a connection error the retry gets a fresh session.
RetryIsFresh ==
    [][\A p \in Profiles : UseCached(p) => clientCache[p] # failed[p]]_vars
=============================================================================
