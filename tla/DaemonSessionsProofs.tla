------------------------ MODULE DaemonSessionsProofs ------------------------
(* The sessions of the daemon, for any number of sessions, chains, hops and  *)
(* configs, whichever sessions clients name.                                 *)
EXTENDS DaemonSessions, TLAPS

\* A session is disconnected while it waits for a hop after the first: the tunnel to that
\* hop is gone, and it cannot come up.
Doomed(s) == hop[s] > 1 /\ up[s] = {}

\* What is known of a session from the progress of its createSession. While it connects it
\* is shared through pendingConnects, also when it was disconnected meanwhile.
SessionInv(s) ==
    /\ up[s] \subseteq hops[s]
    /\ step[s] = "unused" => up[s] = {} /\ ~connected[s]
    /\ step[s] = "connecting" =>
        /\ chain[s] \in Chains
        /\ pendingConnects[chain[s]] = s
        /\ sessionsByProfile[chain[s]] \in {s, NoSession}
        /\ \E c \in Configs : promise[c] = s
        /\ \/ s \in sessions /\ sessionsByProfile[chain[s]] = s
           \/ s \in forgotten
           \/ Doomed(s)
    /\ step[s] # "connecting" /\ up[s] # {} => s \in sessions \cup forgotten
    /\ connected[s] =>
        /\ step[s] = "returned" /\ status[s] = "connected" /\ ~emitted[s]
        /\ chain[s] \in Chains
        /\ s \in forgotten \/ (s \in sessions /\ sessionsByProfile[chain[s]] = s)
    /\ status[s] = "connected" => step[s] = "returned"

\* Only sessions whose connect has returned are registered, and the last disconnects
\* find no connect under way.
DaemonInv ==
    /\ \A c \in Configs : sessionMap[c] # NoSession => step[sessionMap[c]] = "returned"
    /\ daemon = "stopped" =>
          \A s \in Sessions : step[s] # "connecting" /\ (up[s] # {} => s \in forgotten)

IInv ==
    /\ TypeOK
    /\ \A s \in Sessions : SessionInv(s)
    /\ DaemonInv

-----------------------------------------------------------------------------
(* Type correctness *)

LEMMA WithoutValues ==
    ASSUME NEW S, NEW f \in [S -> MaybeSession], NEW D
    PROVE  /\ Without(f, D) \in [S -> MaybeSession]
           /\ \A x \in S : Without(f, D)[x] = IF f[x] \in D THEN NoSession ELSE f[x]
BY DEF Without, MaybeSession

\* What the disconnect of a set of connections leaves of each of them.
LEMMA ConnectionsClosed ==
    ASSUME SessionsTypeOK, NEW D \in SUBSET Sessions, disconnectConnections(D)
    PROVE  /\ connected' \in [Sessions -> BOOLEAN]
           /\ emitted' \in [Sessions -> BOOLEAN]
           /\ up' \in [Sessions -> SUBSET (Nat \ {0})]
           /\ hops' \in [Sessions -> SUBSET (Nat \ {0})]
           /\ \A s \in Sessions :
                IF s \in D
                THEN /\ ~emitted[s] => ~connected'[s]
                     /\ connected'[s] => connected[s]
                     /\ up'[s] = up[s] \ hops[s] /\ hops'[s] = {}
                ELSE /\ connected'[s] = connected[s] /\ emitted'[s] = emitted[s]
                     /\ up'[s] = up[s] /\ hops'[s] = hops[s]
<1> USE DEF SessionsTypeOK, disconnectConnections
<1>1. /\ connected' \in [Sessions -> BOOLEAN]
      /\ \A s \in Sessions :
            connected'[s] = IF s \in {x \in D : ~emitted[x]} THEN FALSE ELSE connected[s]
  BY DEF With
<1>2. /\ emitted' \in [Sessions -> BOOLEAN]
      /\ \A s \in Sessions : emitted'[s] = IF s \in D THEN TRUE ELSE emitted[s]
  BY DEF With
<1>3. /\ hops' \in [Sessions -> SUBSET (Nat \ {0})]
      /\ \A s \in Sessions : hops'[s] = IF s \in D THEN {} ELSE hops[s]
  BY DEF With
<1>4. /\ up' \in [Sessions -> SUBSET (Nat \ {0})]
      /\ \A s \in Sessions : up'[s] = IF s \in D THEN up[s] \ hops[s] ELSE up[s]
  OBVIOUS
<1> QED  BY <1>1, <1>2, <1>3, <1>4

\* The same of sessions: those of D are closed and forgotten.
LEMMA SessionsDisconnected ==
    ASSUME SessionsTypeOK, NEW D \in SUBSET Sessions, disconnect(D)
    PROVE  /\ SessionsTypeOK'
           /\ UNCHANGED <<chain, step, hop, pendingConnects>>
           /\ sessions' = sessions \ D
           /\ \A s \in Sessions : status'[s] = IF s \in D THEN "closed" ELSE status[s]
           /\ \A k \in Chains : sessionsByProfile'[k] =
                IF sessionsByProfile[k] \in D THEN NoSession ELSE sessionsByProfile[k]
<1> USE DEF disconnect
<1>1. disconnectConnections(D)  OBVIOUS
<1>2. status \in [Sessions -> Statuses] /\ "closed" \in Statuses
  BY DEF SessionsTypeOK, Statuses
<1>3. /\ status' \in [Sessions -> Statuses]
      /\ \A s \in Sessions : status'[s] = IF s \in D THEN "closed" ELSE status[s]
  BY <1>2 DEF With
<1>4. /\ sessionsByProfile' \in [Chains -> MaybeSession]
      /\ \A k \in Chains : sessionsByProfile'[k] =
            IF sessionsByProfile[k] \in D THEN NoSession ELSE sessionsByProfile[k]
  BY WithoutValues DEF SessionsTypeOK
<1> QED  BY <1>1, <1>3, <1>4, ConnectionsClosed DEF SessionsTypeOK

LEMMA SessionCreated ==
    ASSUME SessionsTypeOK, NEW s \in Sessions, NEW k \in Chains, NEW D \in SUBSET Sessions,
           createSession(s, k, D)
    PROVE  /\ SessionsTypeOK'
           /\ step[s] = "unused" /\ hop' = hop
           /\ chain' = [chain EXCEPT ![s] = k]
           /\ step' = [step EXCEPT ![s] = "connecting"]
           /\ sessions' = (sessions \ D) \cup {s}
           /\ \A x \in Sessions : status'[x] = IF x = s THEN "connecting"
                                               ELSE IF x \in D THEN "closed" ELSE status[x]
           /\ \A j \in Chains : sessionsByProfile'[j] =
                IF j = k THEN s
                ELSE IF sessionsByProfile[j] \in D THEN NoSession ELSE sessionsByProfile[j]
           /\ pendingConnects' = [pendingConnects EXCEPT ![k] = s]
<1> USE DEF createSession
<1>1. disconnectConnections(D)  OBVIOUS
<1>2. status \in [Sessions -> Statuses] /\ "closed" \in Statuses /\ "connecting" \in Statuses
  BY DEF SessionsTypeOK, Statuses
<1>3. /\ With(status, D, "closed") \in [Sessions -> Statuses]
      /\ \A x \in Sessions : With(status, D, "closed")[x] = IF x \in D THEN "closed" ELSE status[x]
  BY <1>2 DEF With
<1>4. /\ status' \in [Sessions -> Statuses]
      /\ \A x \in Sessions : status'[x] = IF x = s THEN "connecting"
                                          ELSE IF x \in D THEN "closed" ELSE status[x]
  BY <1>2, <1>3
<1>5. /\ Without(sessionsByProfile, D) \in [Chains -> MaybeSession]
      /\ \A j \in Chains : Without(sessionsByProfile, D)[j] =
            IF sessionsByProfile[j] \in D THEN NoSession ELSE sessionsByProfile[j]
  BY WithoutValues DEF SessionsTypeOK
<1>6. /\ sessionsByProfile' \in [Chains -> MaybeSession]
      /\ \A j \in Chains : sessionsByProfile'[j] =
            IF j = k THEN s
            ELSE IF sessionsByProfile[j] \in D THEN NoSession ELSE sessionsByProfile[j]
  BY <1>5 DEF MaybeSession
<1>7. /\ chain' \in [Sessions -> Chains \cup {NoChain}] /\ step' \in [Sessions -> Steps]
      /\ sessions' \subseteq Sessions /\ pendingConnects' \in [Chains -> MaybeSession]
      /\ hop' = hop
  BY DEF SessionsTypeOK, Steps, MaybeSession
<1> QED  BY <1>1, <1>4, <1>6, <1>7, ConnectionsClosed DEF SessionsTypeOK

LEMMA HopFailed ==
    ASSUME SessionsTypeOK, NEW s \in Sessions, HopFails(s)
    PROVE  /\ SessionsTypeOK'
           /\ disconnectConnections({s})
           /\ chain' = chain /\ sessions' = sessions \ {s}
           /\ step[s] = "connecting" /\ step' = [step EXCEPT ![s] = "failed"]
           /\ \A x \in Sessions : x # s => status'[x] = status[x]
           /\ status'[s] # "connected"
           /\ \A k \in Chains :
                /\ sessionsByProfile'[k] =
                     IF sessionsByProfile[k] = s THEN NoSession ELSE sessionsByProfile[k]
                /\ pendingConnects'[k] =
                     IF pendingConnects[k] = s THEN NoSession ELSE pendingConnects[k]
<1> USE DEF HopFails
<1>1. disconnectConnections({s})  OBVIOUS
<1>2. /\ sessionsByProfile' \in [Chains -> MaybeSession]
      /\ \A k \in Chains : sessionsByProfile'[k] =
            IF sessionsByProfile[k] \in {s} THEN NoSession ELSE sessionsByProfile[k]
  BY WithoutValues DEF SessionsTypeOK
<1>3. /\ pendingConnects' \in [Chains -> MaybeSession]
      /\ \A k \in Chains : pendingConnects'[k] =
            IF pendingConnects[k] \in {s} THEN NoSession ELSE pendingConnects[k]
  BY WithoutValues DEF SessionsTypeOK
<1>4. /\ status' \in [Sessions -> Statuses] /\ status'[s] # "connected"
      /\ \A x \in Sessions : x # s => status'[x] = status[x]
  BY DEF SessionsTypeOK, Statuses
<1>5. /\ step' \in [Sessions -> Steps] /\ sessions' \subseteq Sessions
      /\ hop' = hop /\ chain' = chain
  BY DEF SessionsTypeOK, Steps
<1>6. SessionsTypeOK'
  <2>1. /\ connected' \in [Sessions -> BOOLEAN] /\ emitted' \in [Sessions -> BOOLEAN]
        /\ up' \in [Sessions -> SUBSET (Nat \ {0})]
        /\ hops' \in [Sessions -> SUBSET (Nat \ {0})]
    BY <1>1, ConnectionsClosed
  <2> QED  BY <1>2, <1>3, <1>4, <1>5, <2>1 DEF SessionsTypeOK
<1> QED  BY <1>1, <1>2, <1>3, <1>4, <1>5, <1>6, ConnectionsClosed

LEMMA LastHopCame ==
    ASSUME SessionsTypeOK, NEW s \in Sessions, LastHopReady(s)
    PROVE  /\ SessionsTypeOK'
           /\ UNCHANGED <<hop, chain, sessions, sessionsByProfile>>
           /\ step[s] = "connecting" /\ step' = [step EXCEPT ![s] = "returned"]
           /\ up' = [up EXCEPT ![s] = @ \cup {hop[s]}]
           /\ hops' = [hops EXCEPT ![s] = @ \cup {hop[s]}]
           /\ connected' = [connected EXCEPT ![s] = TRUE]
           /\ emitted' = [emitted EXCEPT ![s] = FALSE]
           /\ status' = [status EXCEPT ![s] = "connected"]
           /\ \A k \in Chains : pendingConnects'[k] =
                IF pendingConnects[k] = s THEN NoSession ELSE pendingConnects[k]
<1> USE DEF LastHopReady, HopComesUp, MayComeUp
<1>1. /\ pendingConnects' \in [Chains -> MaybeSession]
      /\ \A k \in Chains : pendingConnects'[k] =
            IF pendingConnects[k] \in {s} THEN NoSession ELSE pendingConnects[k]
  BY WithoutValues DEF SessionsTypeOK
<1>2. /\ connected' \in [Sessions -> BOOLEAN] /\ emitted' \in [Sessions -> BOOLEAN]
      /\ status' \in [Sessions -> Statuses] /\ step' \in [Sessions -> Steps]
  BY DEF SessionsTypeOK, Statuses, Steps
<1>3. up' \in [Sessions -> SUBSET (Nat \ {0})] /\ hops' \in [Sessions -> SUBSET (Nat \ {0})]
  BY DEF SessionsTypeOK
<1> QED  BY <1>1, <1>2, <1>3 DEF SessionsTypeOK

-----------------------------------------------------------------------------
(* Sessions                                                                  *)

\* Requests that wait for a session go on waiting for it.
PromisesStand == \A c \in Configs : promise[c] # NoSession => promise'[c] = promise[c]

\* A disconnect of sessions, whose connect may be under way.
LEMMA DisconnectKeeps ==
    ASSUME SessionsTypeOK, \A s \in Sessions : SessionInv(s), PromisesStand,
           NEW D \in SUBSET sessions, disconnect(D),
           forgotten \subseteq forgotten',
           \A s \in D : step[s] = "connecting" /\ hop[s] = 1 => s \in forgotten'
    PROVE  SessionsTypeOK' /\ \A s \in Sessions : SessionInv(s)'
<1>0. D \in SUBSET Sessions  BY DEF SessionsTypeOK
<1>1. /\ SessionsTypeOK'
      /\ UNCHANGED <<chain, step, hop, pendingConnects>>
      /\ sessions' = sessions \ D
      /\ \A s \in Sessions : status'[s] = IF s \in D THEN "closed" ELSE status[s]
      /\ \A k \in Chains : sessionsByProfile'[k] =
           IF sessionsByProfile[k] \in D THEN NoSession ELSE sessionsByProfile[k]
  BY <1>0, SessionsDisconnected
<1>2. \A s \in Sessions :
        IF s \in D
        THEN /\ ~emitted[s] => ~connected'[s]
             /\ connected'[s] => connected[s]
             /\ up'[s] = up[s] \ hops[s] /\ hops'[s] = {}
        ELSE /\ connected'[s] = connected[s] /\ emitted'[s] = emitted[s]
             /\ up'[s] = up[s] /\ hops'[s] = hops[s]
  BY <1>0, ConnectionsClosed DEF disconnect
<1>3. ASSUME NEW s \in Sessions PROVE SessionInv(s)'
  <2>1. CASE s \in D
    <3>1. up'[s] = {} /\ hops'[s] = {} /\ ~connected'[s] /\ status'[s] = "closed"
      BY <1>1, <1>2, <2>1 DEF SessionInv
    <3>2. ASSUME step'[s] = "connecting"
          PROVE  /\ chain'[s] \in Chains /\ pendingConnects'[chain'[s]] = s
                 /\ sessionsByProfile'[chain'[s]] \in {s, NoSession}
                 /\ \E c \in Configs : promise'[c] = s
                 /\ s \in forgotten' \/ Doomed(s)'
      <4>1. step[s] = "connecting" /\ s # NoSession /\ chain'[s] = chain[s]
        BY <1>1, <3>2, SessionsAssumption
      <4>2. /\ chain[s] \in Chains /\ pendingConnects[chain[s]] = s
            /\ sessionsByProfile[chain[s]] \in {s, NoSession}
            /\ \E c \in Configs : promise[c] = s
        BY <4>1 DEF SessionInv
      <4>3. sessionsByProfile'[chain[s]] \in {s, NoSession}  BY <1>1, <4>2
      <4>4. \E c \in Configs : promise'[c] = s  BY <4>1, <4>2 DEF PromisesStand
      <4>5. hop[s] \in Nat \ {0} /\ hop'[s] = hop[s]  BY <1>1 DEF SessionsTypeOK
      <4>6. s \in forgotten' \/ Doomed(s)'
        BY <2>1, <3>1, <4>1, <4>5 DEF Doomed
      <4> QED  BY <1>1, <4>1, <4>2, <4>3, <4>4, <4>6
    <3> QED  BY <3>1, <3>2 DEF SessionInv
  <2>2. CASE s \notin D
    <3>1. /\ connected'[s] = connected[s] /\ emitted'[s] = emitted[s]
          /\ up'[s] = up[s] /\ hops'[s] = hops[s]
          /\ status'[s] = status[s] /\ step'[s] = step[s] /\ chain'[s] = chain[s]
          /\ (s \in sessions) => (s \in sessions')
          /\ hop'[s] = hop[s]
      BY <1>1, <1>2, <2>2
    <3>2. chain[s] \in Chains =>
            /\ sessionsByProfile[chain[s]] = s => sessionsByProfile'[chain'[s]] = s
            /\ sessionsByProfile[chain[s]] = NoSession => sessionsByProfile'[chain'[s]] = NoSession
      BY <1>1, <2>2
    <3>3. s # NoSession  BY SessionsAssumption
    <3>4. pendingConnects' = pendingConnects  BY <1>1
    <3>5. Doomed(s)' <=> Doomed(s)  BY <3>1 DEF Doomed
    <3> QED  BY <3>1, <3>2, <3>3, <3>4, <3>5 DEF SessionInv, PromisesStand
  <2> QED  BY <2>1, <2>2
<1> QED  BY <1>1, <1>3

\* A new session, created when there is none of its chain to use or to wait for.
LEMMA CreateKeeps ==
    ASSUME SessionsTypeOK, \A x \in Sessions : SessionInv(x), PromisesStand,
           NEW D \in SUBSET sessions, \A x \in D : step[x] = "returned",
           NEW k \in Chains, NEW s \in Sessions,
           FindSession(k, D) = NoSession, createSession(s, k, D),
           \E c \in Configs : promise'[c] = s, forgotten' = forgotten
    PROVE  SessionsTypeOK' /\ \A x \in Sessions : SessionInv(x)'
<1>0. D \in SUBSET Sessions  BY DEF SessionsTypeOK
<1>1. /\ SessionsTypeOK'
      /\ step[s] = "unused" /\ hop' = hop
      /\ chain' = [chain EXCEPT ![s] = k]
      /\ step' = [step EXCEPT ![s] = "connecting"]
      /\ sessions' = (sessions \ D) \cup {s}
      /\ \A x \in Sessions : status'[x] = IF x = s THEN "connecting"
                                          ELSE IF x \in D THEN "closed" ELSE status[x]
      /\ \A j \in Chains : sessionsByProfile'[j] =
           IF j = k THEN s
           ELSE IF sessionsByProfile[j] \in D THEN NoSession ELSE sessionsByProfile[j]
      /\ pendingConnects' = [pendingConnects EXCEPT ![k] = s]
  BY <1>0, SessionCreated
<1>2. \A x \in Sessions :
        IF x \in D
        THEN /\ ~emitted[x] => ~connected'[x]
             /\ connected'[x] => connected[x]
             /\ up'[x] = up[x] \ hops[x] /\ hops'[x] = {}
        ELSE /\ connected'[x] = connected[x] /\ emitted'[x] = emitted[x]
             /\ up'[x] = up[x] /\ hops'[x] = hops[x]
  BY <1>0, ConnectionsClosed DEF createSession
<1>3. /\ pendingConnects[k] = NoSession
      /\ ~(/\ sessionsByProfile[k] \in sessions \ D
           /\ status[sessionsByProfile[k]] = "connected")
  BY SessionsAssumption DEF FindSession, SessionsTypeOK
<1>4. ASSUME NEW x \in Sessions PROVE SessionInv(x)'
  <2>1. CASE x \in D
    <3>1. up'[x] = {} /\ ~connected'[x] /\ step[x] = "returned" /\ x # s
      BY <1>1, <1>2, <2>1 DEF SessionInv
    <3>2. step'[x] = "returned" /\ status'[x] = "closed"
      BY <1>1, <2>1, <3>1 DEF SessionsTypeOK
    <3> QED  BY <3>1, <3>2 DEF SessionInv
  <2>2. CASE x = s
    <3>1. step'[s] = "connecting" /\ chain'[s] = k /\ s \in sessions'
          /\ pendingConnects'[k] = s /\ sessionsByProfile'[k] = s
          /\ status'[s] = "connecting"
      BY <1>1 DEF SessionsTypeOK
    <3>2. up'[s] = {} /\ ~connected'[s]
      BY <1>1, <1>2 DEF SessionInv
    <3> QED  BY <2>2, <3>1, <3>2 DEF SessionInv
  <2>3. CASE x \notin D /\ x # s
    <3>1. /\ connected'[x] = connected[x] /\ emitted'[x] = emitted[x]
          /\ up'[x] = up[x] /\ hops'[x] = hops[x]
          /\ status'[x] = status[x] /\ step'[x] = step[x] /\ chain'[x] = chain[x]
          /\ (x \in sessions) => (x \in sessions')
          /\ hop'[x] = hop[x]
      BY <1>1, <1>2, <2>3 DEF SessionsTypeOK
    <3>2. x # NoSession  BY SessionsAssumption
    <3>3. step[x] = "connecting" \/ (connected[x] /\ x \notin forgotten) => chain[x] # k
      BY <1>3, <2>3, <3>2 DEF SessionInv
    <3>4. chain[x] \in Chains /\ chain[x] # k =>
            /\ sessionsByProfile[chain[x]] = x => sessionsByProfile'[chain'[x]] = x
            /\ sessionsByProfile[chain[x]] = NoSession => sessionsByProfile'[chain'[x]] = NoSession
            /\ pendingConnects'[chain'[x]] = pendingConnects[chain[x]]
      BY <1>1, <2>3, <3>1 DEF SessionsTypeOK
    <3>5. Doomed(x)' <=> Doomed(x)  BY <3>1 DEF Doomed
    <3>6. step'[x] = "connecting" =>
            /\ chain'[x] \in Chains /\ pendingConnects'[chain'[x]] = x
            /\ sessionsByProfile'[chain'[x]] \in {x, NoSession}
            /\ \E c \in Configs : promise'[c] = x
            /\ \/ x \in sessions' /\ sessionsByProfile'[chain'[x]] = x
               \/ x \in forgotten'
               \/ Doomed(x)'
      <4> SUFFICES ASSUME step[x] = "connecting"
                   PROVE  /\ chain'[x] \in Chains /\ pendingConnects'[chain'[x]] = x
                          /\ sessionsByProfile'[chain'[x]] \in {x, NoSession}
                          /\ \E c \in Configs : promise'[c] = x
                          /\ \/ x \in sessions' /\ sessionsByProfile'[chain'[x]] = x
                             \/ x \in forgotten'
                             \/ Doomed(x)'
        BY <3>1
      <4>1. /\ chain[x] \in Chains /\ pendingConnects[chain[x]] = x
            /\ sessionsByProfile[chain[x]] \in {x, NoSession}
            /\ \E c \in Configs : promise[c] = x
            /\ \/ x \in sessions /\ sessionsByProfile[chain[x]] = x
               \/ x \in forgotten
               \/ Doomed(x)
        BY DEF SessionInv
      <4>2. \E c \in Configs : promise'[c] = x  BY <3>2, <4>1 DEF PromisesStand
      <4>3. /\ pendingConnects'[chain'[x]] = x
            /\ sessionsByProfile'[chain'[x]] \in {x, NoSession}
        BY <3>3, <3>4, <4>1
      <4>4. \/ x \in sessions' /\ sessionsByProfile'[chain'[x]] = x
            \/ x \in forgotten'
            \/ Doomed(x)'
        BY <3>1, <3>3, <3>4, <3>5, <4>1
      <4> QED  BY <3>1, <4>1, <4>2, <4>3, <4>4
    <3>7. connected'[x] =>
            /\ step'[x] = "returned" /\ status'[x] = "connected" /\ ~emitted'[x]
            /\ chain'[x] \in Chains
            /\ x \in forgotten' \/ (x \in sessions' /\ sessionsByProfile'[chain'[x]] = x)
      BY <3>1, <3>3, <3>4 DEF SessionInv
    <3> QED  BY <3>1, <3>6, <3>7 DEF SessionInv
  <2> QED  BY <2>1, <2>2, <2>3
<1> QED  BY <1>1, <1>4

LEMMA HopReadyKeeps ==
    ASSUME SessionsTypeOK, \A x \in Sessions : SessionInv(x), NEW s \in Sessions,
           HopReady(s), promise' = promise, forgotten' = forgotten
    PROVE  SessionsTypeOK' /\ \A x \in Sessions : SessionInv(x)'
<1> USE DEF HopReady, HopComesUp, MayComeUp, managerVars
<1>1. SessionsTypeOK'  BY DEF SessionsTypeOK
<1>2. /\ up' = [up EXCEPT ![s] = @ \cup {hop[s]}]
      /\ hops' = [hops EXCEPT ![s] = @ \cup {hop[s]}]
      /\ hop' = [hop EXCEPT ![s] = @ + 1]
      /\ step[s] = "connecting"
      /\ UNCHANGED <<connected, emitted, chain, step, status, sessions, sessionsByProfile,
                     pendingConnects>>
  OBVIOUS
<1>3. ~Doomed(s)  BY DEF Doomed, SessionsTypeOK
<1>4. ASSUME NEW x \in Sessions PROVE SessionInv(x)'
  <2>1. x # s => (Doomed(x)' <=> Doomed(x))  BY <1>2 DEF Doomed, SessionsTypeOK
  <2> QED  BY <1>2, <1>3, <2>1 DEF SessionInv, SessionsTypeOK
<1> QED  BY <1>1, <1>4

LEMMA LastHopKeeps ==
    ASSUME SessionsTypeOK, \A x \in Sessions : SessionInv(x), NEW s \in Sessions,
           LastHopReady(s), promise' = promise, forgotten' = forgotten
    PROVE  SessionsTypeOK' /\ \A x \in Sessions : SessionInv(x)'
<1>1. /\ SessionsTypeOK'
      /\ UNCHANGED <<hop, chain, sessions, sessionsByProfile>>
      /\ step[s] = "connecting" /\ step' = [step EXCEPT ![s] = "returned"]
      /\ up' = [up EXCEPT ![s] = @ \cup {hop[s]}]
      /\ hops' = [hops EXCEPT ![s] = @ \cup {hop[s]}]
      /\ connected' = [connected EXCEPT ![s] = TRUE]
      /\ emitted' = [emitted EXCEPT ![s] = FALSE]
      /\ status' = [status EXCEPT ![s] = "connected"]
      /\ \A k \in Chains : pendingConnects'[k] =
           IF pendingConnects[k] = s THEN NoSession ELSE pendingConnects[k]
  BY LastHopCame
<1>2. ~Doomed(s)  BY DEF Doomed, LastHopReady, HopComesUp, MayComeUp, SessionsTypeOK
<1>3. ASSUME NEW x \in Sessions PROVE SessionInv(x)'
  <2>1. CASE x = s
    BY <1>1, <1>2, <2>1 DEF SessionInv, SessionsTypeOK
  <2>2. CASE x # s
    <3>1. /\ connected'[x] = connected[x] /\ emitted'[x] = emitted[x]
          /\ up'[x] = up[x] /\ hops'[x] = hops[x]
          /\ status'[x] = status[x] /\ step'[x] = step[x]
          /\ UNCHANGED <<chain, sessions, sessionsByProfile, promise>>
      BY <1>1, <2>2 DEF SessionsTypeOK
    <3>2. chain[x] \in Chains /\ pendingConnects[chain[x]] = x => pendingConnects'[chain[x]] = x
      BY <1>1, <2>2
    <3>3. Doomed(x)' <=> Doomed(x)  BY <1>1, <3>1 DEF Doomed
    <3> QED  BY <3>1, <3>2, <3>3 DEF SessionInv
  <2> QED  BY <2>1, <2>2
<1> QED  BY <1>1, <1>3

LEMMA HopFailsKeeps ==
    ASSUME SessionsTypeOK, \A x \in Sessions : SessionInv(x), NEW s \in Sessions,
           HopFails(s), forgotten' = forgotten,
           \A c \in Configs : promise[c] # s => promise'[c] = promise[c]
    PROVE  SessionsTypeOK' /\ \A x \in Sessions : SessionInv(x)'
<1>1. /\ SessionsTypeOK'
      /\ disconnectConnections({s})
      /\ chain' = chain /\ sessions' = sessions \ {s}
      /\ step[s] = "connecting" /\ step' = [step EXCEPT ![s] = "failed"]
      /\ \A x \in Sessions : x # s => status'[x] = status[x]
      /\ status'[s] # "connected"
      /\ \A k \in Chains :
           /\ sessionsByProfile'[k] =
                IF sessionsByProfile[k] = s THEN NoSession ELSE sessionsByProfile[k]
           /\ pendingConnects'[k] =
                IF pendingConnects[k] = s THEN NoSession ELSE pendingConnects[k]
  BY HopFailed
<1>2. \A x \in Sessions :
        IF x \in {s}
        THEN /\ ~emitted[x] => ~connected'[x]
             /\ connected'[x] => connected[x]
             /\ up'[x] = up[x] \ hops[x] /\ hops'[x] = {}
        ELSE /\ connected'[x] = connected[x] /\ emitted'[x] = emitted[x]
             /\ up'[x] = up[x] /\ hops'[x] = hops[x]
  BY <1>1, ConnectionsClosed
<1>3. ASSUME NEW x \in Sessions PROVE SessionInv(x)'
  <2>1. CASE x = s
    <3>1. up'[s] = {} /\ ~connected'[s] /\ step'[s] = "failed"
      BY <1>1, <1>2 DEF SessionInv, SessionsTypeOK
    <3> QED  BY <1>1, <2>1, <3>1 DEF SessionInv
  <2>2. CASE x # s
    <3>1. /\ connected'[x] = connected[x] /\ emitted'[x] = emitted[x]
          /\ up'[x] = up[x] /\ hops'[x] = hops[x]
          /\ status'[x] = status[x] /\ step'[x] = step[x] /\ chain'[x] = chain[x]
          /\ (x \in sessions) => (x \in sessions')
          /\ hop' = hop
      BY <1>1, <1>2, <2>2 DEF SessionsTypeOK, HopFails
    <3>2. chain[x] \in Chains =>
            /\ pendingConnects[chain[x]] = x => pendingConnects'[chain[x]] = x
            /\ sessionsByProfile[chain[x]] = x => sessionsByProfile'[chain[x]] = x
            /\ sessionsByProfile[chain[x]] = NoSession => sessionsByProfile'[chain[x]] = NoSession
      BY <1>1, <2>2
    <3>3. (\E c \in Configs : promise[c] = x) => (\E c \in Configs : promise'[c] = x)
      BY <2>2
    <3>4. Doomed(x)' <=> Doomed(x)  BY <3>1 DEF Doomed
    <3> QED  BY <3>1, <3>2, <3>3, <3>4 DEF SessionInv
  <2> QED  BY <2>1, <2>2
<1> QED  BY <1>1, <1>3

LEMMA HopLostKeeps ==
    ASSUME SessionsTypeOK, \A x \in Sessions : SessionInv(x), NEW s \in Sessions, NEW i,
           HopLost(s, i), promise' = promise, forgotten' = forgotten
    PROVE  SessionsTypeOK' /\ \A x \in Sessions : SessionInv(x)'
<1> USE DEF HopLost
<1>1. SessionsTypeOK'  BY DEF SessionsTypeOK, Statuses
<1>2. /\ ~connected'[s] /\ up'[s] \subseteq up[s]
      /\ status'[s] = "connected" => status[s] = "connected"
  BY DEF SessionInv, SessionsTypeOK
<1>3. ASSUME NEW x \in Sessions PROVE SessionInv(x)'
  <2>1. CASE x = s
    <3>1. ~Doomed(s)  BY DEF Doomed
    <3> QED  BY <1>2, <2>1, <3>1 DEF SessionInv, SessionsTypeOK
  <2>2. CASE x # s
    <3>1. Doomed(x)' <=> Doomed(x)  BY <2>2 DEF Doomed, SessionsTypeOK
    <3> QED  BY <2>2, <3>1 DEF SessionInv, SessionsTypeOK
  <2> QED  BY <2>1, <2>2
<1> QED  BY <1>1, <1>3

\* The shutdown closes every session there is, and by then no connect is under way.
LEMMA DisconnectAllKeeps ==
    ASSUME SessionsTypeOK, \A x \in Sessions : SessionInv(x), promise' = promise,
           \A x \in Sessions : step[x] # "connecting", disconnectAll, forgotten' = forgotten
    PROVE  /\ SessionsTypeOK' /\ \A x \in Sessions : SessionInv(x)'
           /\ \A x \in Sessions : step'[x] # "connecting" /\ (up'[x] # {} => x \in forgotten')
<1> USE DEF disconnectAll
<1>1. /\ disconnectConnections(sessions) /\ UNCHANGED <<chain, step, hop>> /\ sessions' = {}
      /\ sessions \in SUBSET Sessions
  BY DEF SessionsTypeOK
<1>2. status \in [Sessions -> Statuses] /\ "closed" \in Statuses
  BY DEF SessionsTypeOK, Statuses
<1>3. /\ status' \in [Sessions -> Statuses]
      /\ \A x \in Sessions : status'[x] = IF x \in sessions THEN "closed" ELSE status[x]
  BY <1>2 DEF With
<1>4. sessionsByProfile' \in [Chains -> MaybeSession] /\ pendingConnects' \in [Chains -> MaybeSession]
  BY DEF MaybeSession
<1>5. SessionsTypeOK'
  BY <1>1, <1>3, <1>4, ConnectionsClosed DEF SessionsTypeOK
<1>6. \A x \in Sessions :
        IF x \in sessions
        THEN /\ ~emitted[x] => ~connected'[x]
             /\ connected'[x] => connected[x]
             /\ up'[x] = up[x] \ hops[x] /\ hops'[x] = {}
        ELSE /\ connected'[x] = connected[x] /\ emitted'[x] = emitted[x]
             /\ up'[x] = up[x] /\ hops'[x] = hops[x]
  BY <1>1, ConnectionsClosed
<1>7. ASSUME NEW x \in Sessions
      PROVE  SessionInv(x)' /\ step'[x] # "connecting" /\ (up'[x] # {} => x \in forgotten')
  <2>2. step'[x] = step[x] /\ step'[x] # "connecting" /\ chain' = chain  BY <1>1
  <2>3. status'[x] = "connected" => step'[x] = "returned"  BY <1>3, <2>2 DEF SessionInv
  <2>4. CASE x \in sessions
    <3>1. up'[x] = {} /\ ~connected'[x]  BY <1>6, <2>4 DEF SessionInv
    <3> QED  BY <2>2, <2>3, <3>1 DEF SessionInv
  <2>5. CASE x \notin sessions
    <3>1. /\ connected'[x] = connected[x] /\ emitted'[x] = emitted[x]
          /\ up'[x] = up[x] /\ hops'[x] = hops[x] /\ status'[x] = status[x]
      BY <1>3, <1>6, <2>5
    <3> QED  BY <2>2, <2>3, <2>5, <3>1 DEF SessionInv
  <2> QED  BY <2>4, <2>5
<1> QED  BY <1>5, <1>7

\* Requests whose connect is over go.
LEMMA SessionsStay ==
    ASSUME SessionsTypeOK, \A x \in Sessions : SessionInv(x), UNCHANGED <<sessionVars, forgotten>>,
           \A c \in Configs : promise[c] # NoSession /\ step[promise[c]] # "returned"
               => promise'[c] = promise[c]
    PROVE  SessionsTypeOK' /\ \A x \in Sessions : SessionInv(x)'
<1> USE DEF sessionVars, connectionVars, managerVars
<1>1. SessionsTypeOK'  BY DEF SessionsTypeOK
<1>2. ASSUME NEW x \in Sessions PROVE SessionInv(x)'
  <2>1. x # NoSession  BY SessionsAssumption
  <2>2. step[x] = "connecting" /\ (\E c \in Configs : promise[c] = x)
            => \E c \in Configs : promise'[c] = x
    BY <2>1
  <2> QED  BY <2>2 DEF SessionInv, Doomed
<1> QED  BY <1>1, <1>2

-----------------------------------------------------------------------------
(* The bookkeeping of the daemon *)

LEMMA MapDropped ==
    ASSUME NEW map \in [Configs -> MaybeSession], NEW s, dropFromMap(map, s)
    PROVE  /\ sessionMap' \in [Configs -> MaybeSession]
           /\ \A c \in Configs : sessionMap'[c] \in {map[c], NoSession}
BY DEF dropFromMap, MaybeSession

LEMMA MapCleaned ==
    ASSUME NEW map \in [Configs -> MaybeSession], NEW D, cleanupSession(map, D)
    PROVE  /\ sessionMap' \in [Configs -> MaybeSession]
           /\ \A c \in Configs : sessionMap'[c] \in {map[c], NoSession}
           /\ forwardManagers' \subseteq forwardManagers
<1>1. CASE D = {}  BY <1>1 DEF cleanupSession, MaybeSession
<1>2. CASE D # {}  BY <1>2, MapDropped DEF cleanupSession
<1> QED  BY <1>1, <1>2

\* The registrations after a step that adds none, in a daemon that is not stopped.
LEMMA RegistrationsKeep ==
    ASSUME IInv, daemon' = daemon, daemon # "stopped",
           \A c \in Configs : sessionMap'[c] \in {sessionMap[c], NoSession},
           \A s \in Sessions : step[s] = "returned" => step'[s] = "returned"
    PROVE  DaemonInv'
BY DEF IInv, DaemonInv, TypeOK, MaybeSession

\* A session is given up, whether its connect is over or not.
LEMMA SessionGivenUp ==
    ASSUME IInv, NEW s \in sessions, daemon # "stopped",
           disconnect({s}), UNCHANGED <<promise, daemon>>,
           forgotten \subseteq forgotten', forgotten' \subseteq Sessions,
           step[s] = "connecting" /\ hop[s] = 1 => s \in forgotten',
           sessionMap' \in [Configs -> MaybeSession],
           \A c \in Configs : sessionMap'[c] \in {sessionMap[c], NoSession},
           forwardManagers' \subseteq forwardManagers
    PROVE  IInv'
<1>1. SessionsTypeOK /\ \A x \in Sessions : SessionInv(x)  BY DEF IInv, TypeOK
<1>2. PromisesStand  BY DEF PromisesStand
<1>3. /\ {s} \in SUBSET sessions
      /\ \A x \in {s} : step[x] = "connecting" /\ hop[x] = 1 => x \in forgotten'
  OBVIOUS
<1>4. SessionsTypeOK' /\ \A x \in Sessions : SessionInv(x)'
  BY <1>1, <1>2, <1>3, DisconnectKeeps
<1>5. step' = step  BY DEF disconnect
<1>6. DaemonInv'  BY <1>5, RegistrationsKeep
<1>7. TypeOK'  BY <1>4 DEF IInv, TypeOK
<1> QED  BY <1>4, <1>6, <1>7 DEF IInv

LEMMA SessionDropped ==
    ASSUME IInv, NEW s \in Sessions, drop(s)
    PROVE  IInv'
<1>1. /\ s \in sessions /\ daemon # "stopped"
      /\ disconnect({s}) /\ UNCHANGED <<promise, daemon>>
      /\ forgotten \subseteq forgotten' /\ forgotten' \subseteq Sessions
      /\ step[s] = "connecting" /\ hop[s] = 1 => s \in forgotten'
  BY DEF drop, MayName, Forgets, IInv, TypeOK
<1>2. /\ sessionMap' \in [Configs -> MaybeSession]
      /\ \A c \in Configs : sessionMap'[c] \in {sessionMap[c], NoSession}
      /\ forwardManagers' \subseteq forwardManagers
  BY MapCleaned DEF drop, IInv, TypeOK
<1> QED  BY <1>1, <1>2, SessionGivenUp

-----------------------------------------------------------------------------
(* Connect requests *)

\* What every connect request does to the bookkeeping: the session it may disconnect
\* has been returned by an earlier connect.
LEMMA RequestCleans ==
    ASSUME IInv, NEW c \in Configs, ConnectRequest(c)
    PROVE  /\ Stale(c) \in SUBSET sessions /\ \A x \in Stale(c) : step[x] = "returned"
           /\ sessionMap' \in [Configs -> MaybeSession]
           /\ \A d \in Configs : sessionMap'[d] \in {sessionMap[d], NoSession}
           /\ forwardManagers' \subseteq forwardManagers
           /\ daemon # "stopped" /\ daemon' = daemon
           /\ forgotten' = forgotten /\ forgotten \subseteq Sessions
<1>1. Stale(c) \in SUBSET sessions /\ \A x \in Stale(c) : step[x] = "returned"
  BY SessionsAssumption DEF Stale, IInv, DaemonInv, TypeOK, SessionsTypeOK
<1> DEFINE map == [sessionMap EXCEPT ![c] = NoSession]
<1>2. map \in [Configs -> MaybeSession] /\ \A d \in Configs : map[d] \in {sessionMap[d], NoSession}
  BY DEF IInv, TypeOK, MaybeSession
<1>3. /\ cleanupSession(map, Stale(c)) /\ daemon # "stopped" /\ daemon' = daemon
      /\ forgotten' = forgotten /\ forgotten \subseteq Sessions
  BY DEF ConnectRequest, IInv, TypeOK
<1> HIDE DEF map
<1>4. /\ sessionMap' \in [Configs -> MaybeSession]
      /\ \A d \in Configs : sessionMap'[d] \in {map[d], NoSession}
      /\ forwardManagers' \subseteq forwardManagers
  BY <1>2, <1>3, MapCleaned
<1> QED  BY <1>1, <1>2, <1>3, <1>4

LEMMA RequestWithoutSession ==
    ASSUME IInv, NEW c \in Configs, ConnectWithoutSession(c)
    PROVE  IInv'
<1>1. ConnectRequest(c) /\ disconnect(Stale(c)) /\ promise' = promise
  BY DEF ConnectWithoutSession
<1>2. SessionsTypeOK /\ \A x \in Sessions : SessionInv(x)  BY DEF IInv, TypeOK
<1>3. PromisesStand  BY <1>1 DEF PromisesStand
<1>4. SessionsTypeOK' /\ \A x \in Sessions : SessionInv(x)'
  BY <1>1, <1>2, <1>3, RequestCleans, DisconnectKeeps
<1>5. step' = step  BY <1>1 DEF disconnect
<1>6. DaemonInv'  BY <1>1, <1>5, RequestCleans, RegistrationsKeep
<1>7. TypeOK'  BY <1>1, <1>4, RequestCleans DEF IInv, TypeOK
<1> QED  BY <1>4, <1>6, <1>7 DEF IInv

LEMMA RequestWithSession ==
    ASSUME IInv, NEW c \in Configs, NEW s \in Sessions, ConnectTo(c, s)
    PROVE  IInv'
<1> DEFINE k == ChainOf[c]  D == Stale(c)
<1>1. ConnectRequest(c) /\ connect(k, s, D)
  BY DEF ConnectTo
<1>2. SessionsTypeOK /\ \A x \in Sessions : SessionInv(x)  BY DEF IInv, TypeOK
<1>3. /\ promise' \in [Configs -> MaybeSession] /\ promise'[c] = s
      /\ PromisesStand
  BY DEF ConnectTo, PromisesStand, IInv, TypeOK, MaybeSession
<1>4. k \in Chains  BY ConfigsAssumption
<1>5. /\ D \in SUBSET sessions /\ \A x \in D : step[x] = "returned"
      /\ forgotten' = forgotten
  BY <1>1, RequestCleans
<1> HIDE DEF k, D
<1>6. /\ SessionsTypeOK' /\ \A x \in Sessions : SessionInv(x)'
      /\ \A x \in Sessions : step[x] = "returned" => step'[x] = "returned"
  <2>1. CASE disconnect(D)
    <3>1. SessionsTypeOK' /\ \A x \in Sessions : SessionInv(x)'
      BY <1>2, <1>3, <1>5, <2>1, DisconnectKeeps
    <3>2. step' = step  BY <2>1 DEF disconnect
    <3> QED  BY <3>1, <3>2
  <2>2. CASE FindSession(k, D) = NoSession /\ createSession(s, k, D)
    <3>1. SessionsTypeOK' /\ \A x \in Sessions : SessionInv(x)'
      BY <1>2, <1>3, <1>4, <1>5, <2>2, CreateKeeps
    <3>2. step[s] = "unused" /\ step' = [step EXCEPT ![s] = "connecting"]
      BY <2>2 DEF createSession
    <3>3. \A x \in Sessions : step[x] = "returned" => step'[x] = "returned"
      BY <1>2, <3>2 DEF SessionsTypeOK
    <3> QED  BY <3>1, <3>3
  <2> QED  BY <1>1, <2>1, <2>2 DEF connect
<1>7. DaemonInv'  BY <1>1, <1>6, RequestCleans, RegistrationsKeep
<1>8. TypeOK'  BY <1>1, <1>3, <1>6, RequestCleans DEF IInv, TypeOK
<1> QED  BY <1>6, <1>7, <1>8 DEF IInv

-----------------------------------------------------------------------------
(* Connects and connections *)

LEMMA HopStepKeeps ==
    ASSUME IInv, NEW s \in Sessions, HopStep(s)
    PROVE  IInv'
<1>1. SessionsTypeOK /\ \A x \in Sessions : SessionInv(x)  BY DEF IInv, TypeOK
<1>2. CASE HopReady(s) /\ UNCHANGED daemonVars
  <2>1. /\ UNCHANGED <<promise, sessionMap, forwardManagers, daemon, forgotten>>
        /\ step[s] = "connecting" /\ step' = step
    BY <1>2 DEF daemonVars, HopReady, HopComesUp, MayComeUp, managerVars
  <2>2. SessionsTypeOK' /\ \A x \in Sessions : SessionInv(x)'
    BY <1>1, <1>2, <2>1, HopReadyKeeps
  <2>3. daemon # "stopped"  BY <2>1 DEF IInv, DaemonInv
  <2>4. DaemonInv'  BY <2>1, <2>3, RegistrationsKeep
  <2>5. TypeOK'  BY <2>1, <2>2 DEF IInv, TypeOK
  <2> QED  BY <2>2, <2>4, <2>5 DEF IInv
<1>3. CASE LastHopReady(s) /\ UNCHANGED daemonVars
  <2>1. /\ UNCHANGED <<promise, sessionMap, forwardManagers, daemon, forgotten>>
        /\ step[s] = "connecting" /\ step' = [step EXCEPT ![s] = "returned"]
    BY <1>3 DEF daemonVars, LastHopReady, HopComesUp, MayComeUp
  <2>2. SessionsTypeOK' /\ \A x \in Sessions : SessionInv(x)'
    BY <1>1, <1>3, <2>1, LastHopKeeps
  <2>3. daemon # "stopped"  BY <2>1 DEF IInv, DaemonInv
  <2>4. \A x \in Sessions : step[x] = "returned" => step'[x] = "returned"
    BY <1>1, <2>1 DEF SessionsTypeOK
  <2>5. DaemonInv'  BY <2>1, <2>3, <2>4, RegistrationsKeep
  <2>6. TypeOK'  BY <2>1, <2>2 DEF IInv, TypeOK
  <2> QED  BY <2>2, <2>5, <2>6 DEF IInv
<1>4. CASE ConnectFails(s)
  <2>1. /\ UNCHANGED <<sessionMap, forwardManagers, daemon, forgotten>> /\ HopFails(s)
        /\ step[s] = "connecting" /\ step' = [step EXCEPT ![s] = "failed"]
    BY <1>4 DEF ConnectFails, HopFails
  <2>2. promise' = Without(promise, {s}) /\ promise \in [Configs -> MaybeSession]
    BY <1>4 DEF ConnectFails, IInv, TypeOK
  <2>3. /\ promise' \in [Configs -> MaybeSession]
        /\ \A c \in Configs : promise[c] # s => promise'[c] = promise[c]
    BY <2>2, WithoutValues
  <2>4. SessionsTypeOK' /\ \A x \in Sessions : SessionInv(x)'
    BY <1>1, <2>1, <2>3, HopFailsKeeps
  <2>5. daemon # "stopped"  BY <2>1 DEF IInv, DaemonInv
  <2>6. \A x \in Sessions : step[x] = "returned" => step'[x] = "returned"
    BY <1>1, <2>1 DEF SessionsTypeOK
  <2>7. DaemonInv'  BY <2>1, <2>5, <2>6, RegistrationsKeep
  <2>8. TypeOK'  BY <2>1, <2>3, <2>4 DEF IInv, TypeOK
  <2> QED  BY <2>4, <2>7, <2>8 DEF IInv
<1> QED  BY <1>2, <1>3, <1>4 DEF HopStep

LEMMA ReturnKeeps ==
    ASSUME IInv, NEW c \in Configs, ConnectReturns(c)
    PROVE  IInv'
<1>1. /\ UNCHANGED <<sessionVars, forwardManagers, daemon, forgotten>> /\ UNCHANGED <<step, up>>
      /\ promise[c] # NoSession /\ step[promise[c]] = "returned"
      /\ sessionMap' = [sessionMap EXCEPT ![c] = promise[c]]
      /\ promise' = [promise EXCEPT ![c] = NoSession]
  BY DEF ConnectReturns, sessionVars, connectionVars, managerVars
<1>2. SessionsTypeOK /\ \A x \in Sessions : SessionInv(x)  BY DEF IInv, TypeOK
<1>3. \A d \in Configs : promise[d] # NoSession /\ step[promise[d]] # "returned"
          => promise'[d] = promise[d]
  BY <1>1 DEF IInv, TypeOK
<1>4. SessionsTypeOK' /\ \A x \in Sessions : SessionInv(x)'
  BY <1>1, <1>2, <1>3, SessionsStay
<1>5. DaemonInv'  BY <1>1 DEF IInv, DaemonInv, TypeOK
<1>6. TypeOK'  BY <1>1, <1>4 DEF IInv, TypeOK, MaybeSession
<1> QED  BY <1>4, <1>5, <1>6 DEF IInv

LEMMA LostKeeps ==
    ASSUME IInv, NEW s \in Sessions, Lost(s)
    PROVE  IInv'
<1>1. PICK i \in up[s] : HopLost(s, i) /\ UNCHANGED daemonVars  BY DEF Lost
<1>2. /\ UNCHANGED <<promise, sessionMap, forwardManagers, daemon, forgotten>> /\ step' = step
  BY <1>1 DEF daemonVars, HopLost
<1>3. SessionsTypeOK /\ \A x \in Sessions : SessionInv(x)  BY DEF IInv, TypeOK
<1>4. SessionsTypeOK' /\ \A x \in Sessions : SessionInv(x)'
  BY <1>1, <1>2, <1>3, HopLostKeeps
<1>5. \A x \in Sessions : up'[x] \subseteq up[x]
  BY <1>1, <1>3 DEF HopLost, SessionsTypeOK
<1>6. DaemonInv'  BY <1>2, <1>5 DEF IInv, DaemonInv
<1>7. TypeOK'  BY <1>2, <1>4 DEF IInv, TypeOK
<1> QED  BY <1>4, <1>6, <1>7 DEF IInv

LEMMA DisconnectRequestKeeps ==
    ASSUME IInv, NEW s \in Sessions, handleDisconnect(s)
    PROVE  IInv'
<1>1. /\ s \in sessions /\ daemon # "stopped"
      /\ disconnect({s}) /\ UNCHANGED <<promise, forwardManagers, daemon>>
      /\ forgotten \subseteq forgotten' /\ forgotten' \subseteq Sessions
      /\ step[s] = "connecting" /\ hop[s] = 1 => s \in forgotten'
  BY DEF handleDisconnect, MayName, Forgets, IInv, TypeOK
<1>2. /\ sessionMap' \in [Configs -> MaybeSession]
      /\ \A c \in Configs : sessionMap'[c] \in {sessionMap[c], NoSession}
  BY MapDropped DEF handleDisconnect, IInv, TypeOK
<1> QED  BY <1>1, <1>2, SessionGivenUp

LEMMA SweepKeeps ==
    ASSUME IInv, NEW s \in Sessions, sweepIdle(s)
    PROVE  IInv'
<1>1. /\ s \in sessions /\ status[s] = "connected" /\ daemon # "stopped"
      /\ disconnect({s}) /\ UNCHANGED <<promise, daemon>>
      /\ forgotten' = forgotten /\ forgotten \subseteq Sessions
  BY DEF sweepIdle, IInv, TypeOK
<1>2. step[s] = "returned"  BY <1>1 DEF IInv, SessionInv
<1>3. /\ sessionMap' \in [Configs -> MaybeSession]
      /\ \A c \in Configs : sessionMap'[c] \in {sessionMap[c], NoSession}
      /\ forwardManagers' \subseteq forwardManagers
  BY MapCleaned DEF sweepIdle, IInv, TypeOK
<1> QED  BY <1>1, <1>2, <1>3, SessionGivenUp

\* Steps that change nothing of the sessions, the requests and the registrations.
LEMMA BookkeepingKeeps ==
    ASSUME IInv, UNCHANGED <<sessionVars, promise, sessionMap, forgotten>>,
           forwardManagers' \subseteq Sessions,
           daemon' \in {"running", "stopping", "stopped"}, daemon' # "stopped" \/ daemon' = daemon
    PROVE  IInv'
<1>1. UNCHANGED <<step, up>>  BY DEF sessionVars, connectionVars, managerVars
<1>2. SessionsTypeOK /\ \A x \in Sessions : SessionInv(x)  BY DEF IInv, TypeOK
<1>3. SessionsTypeOK' /\ \A x \in Sessions : SessionInv(x)'
  BY <1>2, SessionsStay
<1>4. DaemonInv'  BY <1>1 DEF IInv, DaemonInv
<1>5. TypeOK'  BY <1>3 DEF IInv, TypeOK
<1> QED  BY <1>3, <1>4, <1>5 DEF IInv

LEMMA StopKeeps ==
    ASSUME IInv, StopDisconnects
    PROVE  IInv'
<1>1. /\ disconnectAll /\ UNCHANGED <<promise, sessionMap, forgotten>> /\ daemon' = "stopped"
      /\ forwardManagers' = {} /\ step' = step
      /\ \A c \in Configs : promise[c] = NoSession
  BY DEF StopDisconnects, disconnectAll
<1>2. SessionsTypeOK /\ \A x \in Sessions : SessionInv(x)  BY DEF IInv, TypeOK
<1>3. \A x \in Sessions : step[x] # "connecting"
  BY <1>1, <1>2, SessionsAssumption DEF SessionInv
<1>4. /\ SessionsTypeOK' /\ \A x \in Sessions : SessionInv(x)'
      /\ \A x \in Sessions : step'[x] # "connecting" /\ (up'[x] # {} => x \in forgotten')
  BY <1>1, <1>2, <1>3, DisconnectAllKeeps
<1>5. DaemonInv'  BY <1>1, <1>4 DEF IInv, DaemonInv
<1>6. TypeOK'  BY <1>1, <1>4 DEF IInv, TypeOK
<1> QED  BY <1>4, <1>5, <1>6 DEF IInv

-----------------------------------------------------------------------------
(* The invariant and what follows from it *)

LEMMA InitIInv == Init => IInv
<1> SUFFICES ASSUME Init PROVE IInv  OBVIOUS
<1> USE DEF Init, SessionsInit
<1>1. TypeOK
  BY DEF TypeOK, SessionsTypeOK, MaybeSession, Steps, Statuses
<1>2. ASSUME NEW s \in Sessions PROVE SessionInv(s)
  BY DEF SessionInv
<1>3. DaemonInv  BY DEF DaemonInv
<1> QED  BY <1>1, <1>2, <1>3 DEF IInv

LEMMA NextIInv == IInv /\ [Next]_vars => IInv'
<1> SUFFICES ASSUME IInv, [Next]_vars PROVE IInv'  OBVIOUS
<1>1. ASSUME NEW c \in Configs, ConnectWithoutSession(c) PROVE IInv'
  BY <1>1, RequestWithoutSession
<1>2. ASSUME NEW c \in Configs, NEW s \in Sessions, ConnectTo(c, s) PROVE IInv'
  BY <1>2, RequestWithSession
<1>3. ASSUME NEW s \in Sessions, HopStep(s) PROVE IInv'
  BY <1>3, HopStepKeeps
<1>4. ASSUME NEW c \in Configs, ConnectReturns(c) PROVE IInv'
  BY <1>4, ReturnKeeps
<1>5. ASSUME NEW s \in Sessions, handleDisconnect(s) PROVE IInv'
  BY <1>5, DisconnectRequestKeeps
<1>6. ASSUME NEW s \in Sessions, sweepIdle(s) PROVE IInv'
  BY <1>6, SweepKeeps
<1>7. ASSUME NEW s \in Sessions, Lost(s) PROVE IInv'
  BY <1>7, LostKeeps
<1>8. ASSUME NEW s \in Sessions,
             \/ handleExec(s) \/ handleTransfer(s) \/ handleSetCwd(s) \/ handleBgExec(s)
             \/ PortForwardFails(s)
      PROVE IInv'
  <2>1. drop(s)
    BY <1>8 DEF handleExec, handleTransfer, handleSetCwd, handleBgExec, PortForwardFails
  <2> QED  BY <2>1, SessionDropped
<1>9. ASSUME NEW s \in Sessions, handlePortForward(s) PROVE IInv'
  <2>1. /\ UNCHANGED <<sessionVars, promise, sessionMap, daemon, forgotten>>
        /\ forwardManagers' \subseteq Sessions
    BY <1>9 DEF handlePortForward, IInv, TypeOK
  <2>2. daemon \in {"running", "stopping", "stopped"}  BY DEF IInv, TypeOK
  <2> QED  BY <2>1, <2>2, BookkeepingKeeps
<1>10. CASE Stop
  <2>1. /\ UNCHANGED <<sessionVars, promise, sessionMap, forwardManagers, forgotten>>
        /\ daemon' = "stopping" /\ forwardManagers \subseteq Sessions
    BY <1>10 DEF Stop, IInv, TypeOK
  <2> QED  BY <2>1, BookkeepingKeeps
<1>11. CASE StopDisconnects
  BY <1>11, StopKeeps
<1>12. CASE UNCHANGED vars
  <2>1. UNCHANGED <<sessionVars, promise, sessionMap, forwardManagers, daemon, forgotten>>
    BY <1>12 DEF vars, daemonVars
  <2>2. daemon \in {"running", "stopping", "stopped"} /\ forwardManagers \subseteq Sessions
    BY DEF IInv, TypeOK
  <2> QED  BY <2>1, <2>2, BookkeepingKeeps
<1> QED
  BY <1>1, <1>2, <1>3, <1>4, <1>5, <1>6, <1>7, <1>8, <1>9, <1>10, <1>11, <1>12
  DEF Next, Finished

LEMMA Invariance == Spec => []IInv
<1>1. IInv /\ [Next]_vars => IInv'  BY NextIInv
<1> QED  BY <1>1, InitIInv, PTL DEF Spec

\* The values of the sessions and of the daemon's bookkeeping keep their types.
THEOREM TypeCorrect == Spec => []TypeOK
<1>1. IInv => TypeOK  BY DEF IInv
<1> QED  BY <1>1, Invariance, PTL

\* The only transports that outlive the session that could close them are those of
\* sessions disconnected before their first hop came up: whatever hops come up, break
\* off or time out, createSession and disconnect leave no others behind.
THEOREM NoOrphans == Spec => []NoOrphanTransport
<1>1. IInv => NoOrphanTransport  BY DEF IInv, SessionInv, NoOrphanTransport
<1> QED  BY <1>1, Invariance, PTL

\* When stop() is through no connect is under way, since some request waits for each and
\* stop() waits for the requests, and only forgotten sessions have a transport open.
THEOREM CleanShutdown == Spec => []NoConnectionPastShutdown
<1>1. IInv => NoConnectionPastShutdown  BY DEF IInv, DaemonInv, NoConnectionPastShutdown
<1> QED  BY <1>1, Invariance, PTL

\* Concurrent requests of a chain share its connection: a session that connects is the one
\* they wait for, one that is connected and not forgotten is registered for the chain.
THEOREM ConnectionsShared == Spec => []OneConnectionPerChain
<1>1. IInv => OneConnectionPerChain
  <2> SUFFICES ASSUME IInv, NEW s \in Sessions, NEW r \in Sessions,
                      chain[s] = chain[r],
                      step[s] = "connecting" \/ connected[s],
                      step[r] = "connecting" \/ connected[r],
                      ~(s \in forgotten /\ step[s] = "returned"),
                      ~(r \in forgotten /\ step[r] = "returned")
               PROVE  s = r
    BY DEF OneConnectionPerChain
  <2>1. \A x \in {s, r} :
          \/ step[x] = "connecting" /\ pendingConnects[chain[x]] = x
                                    /\ sessionsByProfile[chain[x]] \in {x, NoSession}
          \/ sessionsByProfile[chain[x]] = x
    BY DEF IInv, SessionInv
  <2>2. s # NoSession /\ r # NoSession  BY SessionsAssumption
  <2> QED  BY <2>1, <2>2
<1> QED  BY <1>1, Invariance, PTL
=============================================================================
