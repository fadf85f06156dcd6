------------------------- MODULE McpSessionsProofs -------------------------
(* The cache of the MCP server, for any number of sessions, chains, hops and *)
(* profiles: what it says of a session that others may end.                  *)
EXTENDS McpSessions, TLAPS

\* The parts of the type invariant that the argument rests on.
Shape ==
    /\ connected \in [Sessions -> BOOLEAN] /\ emitted \in [Sessions -> BOOLEAN]
    /\ step \in [Sessions -> Steps]
    /\ sessions \subseteq Sessions
    /\ pendingConnections \in [Profiles -> MaybeSession]
    /\ clientCache \in [Profiles -> MaybeSession]

\* disconnect() only marks connections that have not told of their end.
ConnectedIsUntold == \A s \in Sessions : connected[s] => ~emitted[s]

\* Only sessions whose connect has returned are cached: a connect that is under way
\* cannot bring a cached session back to life.
CachedIsReturned ==
    \A p \in Profiles : clientCache[p] # NoSession => step[clientCache[p]] = "returned"

\* No connected session of the cache is unknown to the manager.
CachedIsKnown ==
    \A p \in Profiles : clientCache[p] # NoSession /\ connected[clientCache[p]] =>
        clientCache[p] \in sessions

IInv == Shape /\ ConnectedIsUntold /\ CachedIsReturned /\ CachedIsKnown

-----------------------------------------------------------------------------
(* What the session manager does to the sessions.                            *)

\* No step makes a session connected or known that was neither, and what leaves the
\* manager is not connected any more.
Fades(D) ==
    /\ connected' \in [Sessions -> BOOLEAN] /\ emitted' \in [Sessions -> BOOLEAN]
    /\ \A s \in Sessions : connected'[s] => connected[s] /\ ~emitted'[s] /\ s \notin D

LEMMA ConnectionsFade ==
    ASSUME Shape, ConnectedIsUntold, NEW D \in SUBSET Sessions, disconnectConnections(D)
    PROVE  Fades(D)
<1>1. /\ connected' \in [Sessions -> BOOLEAN]
      /\ \A s \in Sessions :
           connected'[s] = IF s \in {x \in D : ~emitted[x]} THEN FALSE ELSE connected[s]
  BY DEF Shape, disconnectConnections, With
<1>2. /\ emitted' \in [Sessions -> BOOLEAN]
      /\ \A s \in Sessions : emitted'[s] = IF s \in D THEN TRUE ELSE emitted[s]
  BY DEF Shape, disconnectConnections, With
<1>3. ASSUME NEW s \in Sessions, connected'[s]
      PROVE  connected[s] /\ ~emitted'[s] /\ s \notin D
  <2>1. connected[s] /\ s \notin {x \in D : ~emitted[x]}  BY <1>1, <1>3
  <2>2. ~emitted[s]  BY <2>1 DEF ConnectedIsUntold
  <2>3. s \notin D  BY <2>1, <2>2
  <2> QED  BY <1>2, <2>1, <2>2, <2>3
<1> QED  BY <1>1, <1>2, <1>3 DEF Fades

\* What such a step leaves of the cache, when sessions only returned or were created.
LEMMA FadingKeeps ==
    ASSUME IInv, NEW D \in SUBSET Sessions, Fades(D),
           sessions \ D \subseteq sessions', sessions' \subseteq Sessions,
           step' \in [Sessions -> Steps],
           \A s \in Sessions : step[s] = "returned" => step'[s] = "returned",
           clientCache' \in [Profiles -> MaybeSession],
           \A p \in Profiles : clientCache'[p] \in {clientCache[p], NoSession},
           pendingConnections' \in [Profiles -> MaybeSession]
    PROVE  IInv'
<1>1. Shape'  BY DEF IInv, Shape, Fades
<1>2. ConnectedIsUntold'  BY DEF Fades, ConnectedIsUntold
<1>3. ASSUME NEW p \in Profiles, clientCache'[p] # NoSession
      PROVE  clientCache'[p] = clientCache[p] /\ clientCache[p] \in Sessions
  BY <1>3 DEF IInv, Shape, MaybeSession
<1>4. CachedIsReturned'  BY <1>3 DEF IInv, CachedIsReturned
<1>5. CachedIsKnown'
  <2>1. ASSUME NEW p \in Profiles, clientCache'[p] # NoSession, connected'[clientCache'[p]]
        PROVE  clientCache'[p] \in sessions'
    <3>1. PICK s \in Sessions : s = clientCache[p] /\ s = clientCache'[p]  BY <1>3, <2>1
    <3>2. connected[s] /\ s \notin D  BY <2>1, <3>1 DEF Fades
    <3>3. s \in sessions  BY <2>1, <3>1, <3>2 DEF IInv, CachedIsKnown
    <3> QED  BY <3>1, <3>2, <3>3
  <2> QED  BY <2>1 DEF CachedIsKnown
<1> QED  BY <1>1, <1>2, <1>4, <1>5 DEF IInv

LEMMA DisconnectKeeps ==
    ASSUME IInv, NEW D \in SUBSET Sessions, disconnect(D),
           clientCache' \in [Profiles -> MaybeSession],
           \A p \in Profiles : clientCache'[p] \in {clientCache[p], NoSession},
           pendingConnections' \in [Profiles -> MaybeSession]
    PROVE  IInv'
<1>1. Fades(D)  BY ConnectionsFade DEF disconnect, IInv
<1>2. sessions' = sessions \ D /\ step' = step  BY DEF disconnect
<1>3. step' \in [Sessions -> Steps] /\ sessions' \subseteq Sessions
  BY <1>2 DEF IInv, Shape
<1> QED  BY <1>1, <1>2, <1>3, FadingKeeps

LEMMA ConnectKeeps ==
    ASSUME IInv, NEW D \in SUBSET Sessions, NEW s \in Sessions, NEW k, connect(k, s, D),
           clientCache' = clientCache,
           pendingConnections' \in [Profiles -> MaybeSession]
    PROVE  IInv'
<1>1. clientCache' \in [Profiles -> MaybeSession]  BY DEF IInv, Shape
<1>2. CASE disconnect(D)  BY <1>1, <1>2, DisconnectKeeps
<1>3. CASE createSession(s, k, D)
  <2>1. Fades(D)  BY <1>3, ConnectionsFade DEF createSession, IInv
  <2>2. /\ sessions' = (sessions \ D) \cup {s} /\ step[s] = "unused"
        /\ step' = [step EXCEPT ![s] = "connecting"]
    BY <1>3 DEF createSession
  <2>3. step' \in [Sessions -> Steps] /\ sessions' \subseteq Sessions
    BY <2>2 DEF IInv, Shape, Steps
  <2>4. \A x \in Sessions : step[x] = "returned" => step'[x] = "returned"
    BY <2>2 DEF IInv, Shape
  <2> QED  BY <1>1, <2>1, <2>2, <2>3, <2>4, FadingKeeps
<1> QED  BY <1>2, <1>3 DEF connect

-----------------------------------------------------------------------------
(* Every step keeps it.                                                      *)
LEMMA ConnectReturnsKeeps ==
    ASSUME IInv, NEW p \in Profiles, ConnectReturns(p)
    PROVE  IInv'
<1>1. PICK s : s = pendingConnections[p]  OBVIOUS
<1>2. /\ s # NoSession /\ step[s] = "returned"
      /\ clientCache' = [clientCache EXCEPT ![p] = IF s \in sessions THEN s ELSE clientCache[p]]
      /\ pendingConnections' = [pendingConnections EXCEPT ![p] = NoSession]
      /\ UNCHANGED sessionVars
  BY <1>1 DEF ConnectReturns
<1>3. s \in Sessions  BY <1>1, <1>2 DEF IInv, Shape, MaybeSession
<1>4. /\ connected' = connected /\ emitted' = emitted /\ step' = step /\ sessions' = sessions
  BY <1>2 DEF sessionVars, connectionVars, managerVars
<1>5. Shape'  BY <1>2, <1>3, <1>4 DEF IInv, Shape, MaybeSession
<1>6. ConnectedIsUntold'  BY <1>4 DEF IInv, ConnectedIsUntold
<1>7. \A q \in Profiles : clientCache'[q] = clientCache[q] \/ (clientCache'[q] = s /\ s \in sessions)
  BY <1>2 DEF IInv, Shape
<1>8. CachedIsReturned'  BY <1>2, <1>4, <1>7 DEF IInv, CachedIsReturned
<1>9. CachedIsKnown'  BY <1>4, <1>7 DEF IInv, CachedIsKnown
<1> QED  BY <1>5, <1>6, <1>8, <1>9 DEF IInv

LEMMA LastHopReadyKeeps ==
    ASSUME IInv, NEW s \in Sessions, LastHopReady(s), UNCHANGED mcpVars
    PROVE  IInv'
<1>1. /\ step[s] = "connecting" /\ step' = [step EXCEPT ![s] = "returned"]
      /\ connected' = [connected EXCEPT ![s] = TRUE]
      /\ emitted' = [emitted EXCEPT ![s] = FALSE]
      /\ sessions' = sessions
  BY DEF LastHopReady, HopComesUp, MayComeUp
<1>2. clientCache' = clientCache /\ pendingConnections' = pendingConnections  BY DEF mcpVars
<1>3. Shape'  BY <1>1, <1>2 DEF IInv, Shape, Steps
<1>4. ConnectedIsUntold'  BY <1>1 DEF IInv, Shape, ConnectedIsUntold
<1>5. ASSUME NEW p \in Profiles, clientCache[p] # NoSession
      PROVE  clientCache[p] \in Sessions /\ clientCache[p] # s /\ step[clientCache[p]] = "returned"
  BY <1>1, <1>5 DEF IInv, Shape, MaybeSession, CachedIsReturned
<1>6. CachedIsReturned'  BY <1>1, <1>2, <1>5 DEF IInv, Shape, CachedIsReturned
<1>7. CachedIsKnown'  BY <1>1, <1>2, <1>5 DEF IInv, Shape, CachedIsKnown
<1> QED  BY <1>3, <1>4, <1>6, <1>7 DEF IInv

LEMMA HopStepKeeps ==
    ASSUME IInv, NEW s \in Sessions, HopStep(s)
    PROVE  IInv'
<1>1. CASE HopReady(s) /\ UNCHANGED mcpVars
  BY <1>1 DEF HopReady, managerVars, mcpVars, IInv, Shape, ConnectedIsUntold, CachedIsReturned,
              CachedIsKnown
<1>2. CASE LastHopReady(s) /\ UNCHANGED mcpVars  BY <1>2, LastHopReadyKeeps
<1>3. CASE ConnectFails(s)
  <2>1. HopFails(s) /\ clientCache' = clientCache
        /\ pendingConnections' = Without(pendingConnections, {s})
    BY <1>3 DEF ConnectFails
  <2>2. Fades({s})  BY <2>1, ConnectionsFade DEF HopFails, IInv
  <2>3. /\ sessions' = sessions \ {s} /\ step[s] = "connecting"
        /\ step' = [step EXCEPT ![s] = "failed"]
    BY <2>1 DEF HopFails
  <2>4. step' \in [Sessions -> Steps] /\ sessions' \subseteq Sessions
    BY <2>3 DEF IInv, Shape, Steps
  <2>5. \A x \in Sessions : step[x] = "returned" => step'[x] = "returned"
    BY <2>3 DEF IInv, Shape
  <2>6. pendingConnections' \in [Profiles -> MaybeSession]
    BY <2>1 DEF IInv, Shape, Without, MaybeSession
  <2>7. clientCache' \in [Profiles -> MaybeSession]  BY <2>1 DEF IInv, Shape
  <2> QED  BY <2>1, <2>2, <2>3, <2>4, <2>5, <2>6, <2>7, FadingKeeps
<1> QED  BY <1>1, <1>2, <1>3 DEF HopStep

LEMMA HopLostKeeps ==
    ASSUME IInv, NEW s \in Sessions, NEW i, HopLost(s, i), UNCHANGED mcpVars
    PROVE  IInv'
<1>1. /\ connected' = [connected EXCEPT ![s] = connected[s] /\ emitted[s]]
      /\ emitted' = [emitted EXCEPT ![s] = TRUE]
      /\ step' = step /\ sessions' = sessions
      /\ clientCache' = clientCache /\ pendingConnections' = pendingConnections
  BY DEF HopLost, mcpVars
<1>2. ~(connected[s] /\ emitted[s])  BY DEF IInv, ConnectedIsUntold
<1>3. /\ connected' \in [Sessions -> BOOLEAN] /\ emitted' \in [Sessions -> BOOLEAN]
      /\ ~connected'[s] /\ emitted'[s]
      /\ \A x \in Sessions : x # s => connected'[x] = connected[x] /\ emitted'[x] = emitted[x]
  BY <1>1, <1>2 DEF IInv, Shape
<1>4. Fades({s})  BY <1>3 DEF Fades, IInv, ConnectedIsUntold
<1>5. /\ step' \in [Sessions -> Steps] /\ sessions' \subseteq Sessions
      /\ clientCache' \in [Profiles -> MaybeSession]
      /\ pendingConnections' \in [Profiles -> MaybeSession]
  BY <1>1 DEF IInv, Shape
<1> QED  BY <1>1, <1>4, <1>5, FadingKeeps

\* Taking a session out of the cache ends nothing.
LEMMA TakenKeeps ==
    ASSUME IInv, NEW p \in Profiles, takeFromCache(p)
    PROVE  IInv'
<1>1. /\ clientCache' = [clientCache EXCEPT ![p] = NoSession]
      /\ pendingConnections' = pendingConnections
      /\ connected' = connected /\ emitted' = emitted /\ step' = step /\ sessions' = sessions
  BY DEF takeFromCache, sessionVars, connectionVars, managerVars
<1>2. Shape'  BY <1>1 DEF IInv, Shape, MaybeSession
<1> QED
  BY <1>1, <1>2 DEF IInv, Shape, ConnectedIsUntold, CachedIsReturned, CachedIsKnown

LEMMA SweepOneKeeps ==
    ASSUME IInv, NEW s \in Sessions, SweepOne(s)
    PROVE  IInv'
<1>1. disconnect({s} \cap sessions) /\ pendingConnections' = pendingConnections  BY DEF SweepOne
<1>2. /\ clientCache' \in [Profiles -> MaybeSession]
      /\ \A p \in Profiles : clientCache'[p] \in {clientCache[p], NoSession}
  BY DEF SweepOne, IInv, Shape, MaybeSession
<1>3. /\ pendingConnections' \in [Profiles -> MaybeSession]
      /\ ({s} \cap sessions) \in SUBSET Sessions
  BY <1>1 DEF IInv, Shape
<1> QED  BY <1>1, <1>2, <1>3, DisconnectKeeps

LEMMA Starts == Init => IInv
<1> SUFFICES ASSUME Init PROVE IInv  OBVIOUS
<1>1. Shape  BY DEF Init, SessionsInit, Shape, Steps, MaybeSession
<1> QED
  BY <1>1 DEF Init, SessionsInit, IInv, ConnectedIsUntold, CachedIsReturned, CachedIsKnown

LEMMA Keeps == IInv /\ [Next]_vars => IInv'
<1> SUFFICES ASSUME IInv, [Next]_vars PROVE IInv'  OBVIOUS
<1>1. ASSUME UNCHANGED <<sessionVars, clientCache, pendingConnections>> PROVE IInv'
  BY <1>1 DEF sessionVars, connectionVars, managerVars, IInv, Shape, ConnectedIsUntold,
              CachedIsReturned, CachedIsKnown
<1>2. CASE UNCHANGED vars  BY <1>1, <1>2 DEF vars, mcpVars
<1>3. ASSUME NEW p \in Profiles, UseCached(p) PROVE IInv'  BY <1>1, <1>3 DEF UseCached
<1>4. ASSUME NEW p \in Profiles, EvictStale(p) PROVE IInv'  BY <1>4, TakenKeeps DEF EvictStale
<1>5. ASSUME NEW p \in Profiles, OperationFails(p) PROVE IInv'
  BY <1>1, <1>5, TakenKeeps DEF OperationFails
<1>6. ASSUME NEW p \in Profiles, NEW s \in Sessions, ConnectUncached(p, s) PROVE IInv'
  <2>1. /\ connect(ChainOf[p], s, {}) /\ clientCache' = clientCache
        /\ pendingConnections' = [pendingConnections EXCEPT ![p] = s]
    BY <1>6 DEF ConnectUncached
  <2>2. pendingConnections' \in [Profiles -> MaybeSession] /\ {} \in SUBSET Sessions
    BY <2>1 DEF IInv, Shape, MaybeSession
  <2> QED  BY <2>1, <2>2, ConnectKeeps
<1>7. ASSUME NEW p \in Profiles, NEW s \in Sessions, Evicted(p, s) PROVE IInv'
  <2>1. /\ disconnect({s} \cap sessions) /\ clientCache' = clientCache
        /\ pendingConnections' = pendingConnections
    BY <1>7 DEF Evicted
  <2>2. /\ clientCache' \in [Profiles -> MaybeSession]
        /\ pendingConnections' \in [Profiles -> MaybeSession]
        /\ ({s} \cap sessions) \in SUBSET Sessions
    BY <2>1 DEF IInv, Shape
  <2> QED  BY <2>1, <2>2, DisconnectKeeps
<1>8. ASSUME NEW p \in Profiles, NEW old \in Sessions, NEW s \in Sessions,
             EvictedConnects(p, old, s)
      PROVE  IInv'
  <2>1. /\ connect(ChainOf[p], s, {old} \cap sessions) /\ clientCache' = clientCache
        /\ pendingConnections' = [pendingConnections EXCEPT ![p] = s]
    BY <1>8 DEF EvictedConnects
  <2>2. /\ pendingConnections' \in [Profiles -> MaybeSession]
        /\ ({old} \cap sessions) \in SUBSET Sessions
    BY <2>1 DEF IInv, Shape, MaybeSession
  <2> QED  BY <2>1, <2>2, ConnectKeeps
<1>9. ASSUME NEW p \in Profiles, ConnectReturns(p) PROVE IInv'  BY <1>9, ConnectReturnsKeeps
<1>10. ASSUME NEW s \in Sessions, HopStep(s) PROVE IInv'  BY <1>10, HopStepKeeps
<1>11. ASSUME NEW s \in Sessions, SweepOne(s) PROVE IInv'  BY <1>11, SweepOneKeeps
<1>12. ASSUME NEW s \in Sessions, NEW i, HopLost(s, i), UNCHANGED mcpVars PROVE IInv'
  BY <1>12, HopLostKeeps
<1>13. CASE SweepStart  BY <1>1, <1>13 DEF SweepStart
<1> QED
  BY <1>2, <1>3, <1>4, <1>5, <1>6, <1>7, <1>8, <1>9, <1>10, <1>11, <1>12, <1>13 DEF Next

\* A cached client whose session the manager has forgotten is not connected: neither
\* the sweeper, nor an eviction, nor a connect that comes late leaves one behind.
THEOREM CacheTellsTheDead == Spec => []CachedIsKnownOrDead
<1>1. IInv => CachedIsKnownOrDead  BY DEF IInv, CachedIsKnown, CachedIsKnownOrDead
<1> QED  BY <1>1, Starts, Keeps, PTL DEF Spec
=============================================================================
