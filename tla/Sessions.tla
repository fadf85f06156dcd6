------------------------------ MODULE Sessions ------------------------------
(* The sessions of one process: SSHSessionManager (session-manager.ts) and   *)
(* the SSHConnection of each session (connection.ts).                        *)
(*                                                                           *)
(* A session connects through the hops of a chain, one after the other; each *)
(* hop is awaited, and until the last one is up other requests, lost hops    *)
(* and a shutdown come in between. What follows an await without waiting for *)
(* anything (the code after a resolved promise) belongs to the same step.    *)
(* The operators here leave the next-state relation to the modules that      *)
(* extend this one: the daemon and the MCP server use the manager            *)
(* differently. Both connect with openShell = false and allow reuse.         *)
EXTENDS Naturals, FiniteSets

CONSTANTS
    Sessions,       \* session ids, in the order of use: randomUUID
    Chains,         \* config hashes of the manager: hops and credentials
    Length,         \* number of hops of each chain
    MaxSessions,    \* maxSessions
    NoSession, NoChain

ASSUME SessionsAssumption ==
    /\ IsFiniteSet(Sessions) /\ NoSession \notin Sessions /\ NoChain \notin Chains
    /\ Length \in [Chains -> Nat \ {0}]
    /\ MaxSessions \in Nat

VARIABLES
    chain,              \* the chain a session was created for
    step,               \* progress of createSession
    hop,                \* the hop SSHConnection.connect is waiting for
    up,                 \* hops whose transport is open
    hops,               \* SSHConnection.hops
    connected,          \* SSHConnection.connected
    emitted,            \* SSHConnection.disconnectedEmitted
    status,             \* session.status
    sessions,           \* keys of SSHSessionManager.sessions
    sessionsByProfile,  \* session registered for a chain
    pendingConnects     \* session being created for a chain

connectionVars == <<hop, up, hops, connected, emitted>>
managerVars == <<chain, step, status, sessions, sessionsByProfile, pendingConnects>>
sessionVars == <<connectionVars, managerVars>>

Steps == {"unused", "connecting", "returned", "failed"}
Statuses == {"connecting", "connected", "disconnected", "error", "closed"}
MaybeSession == Sessions \cup {NoSession}

SessionsTypeOK ==
    /\ chain \in [Sessions -> Chains \cup {NoChain}]
    /\ step \in [Sessions -> Steps]
    /\ hop \in [Sessions -> Nat \ {0}]
    /\ up \in [Sessions -> SUBSET (Nat \ {0})]
    /\ hops \in [Sessions -> SUBSET (Nat \ {0})]
    /\ connected \in [Sessions -> BOOLEAN]
    /\ emitted \in [Sessions -> BOOLEAN]
    /\ status \in [Sessions -> Statuses]
    /\ sessions \subseteq Sessions
    /\ sessionsByProfile \in [Chains -> MaybeSession]
    /\ pendingConnects \in [Chains -> MaybeSession]

SessionsInit ==
    /\ chain = [s \in Sessions |-> NoChain]
    /\ step = [s \in Sessions |-> "unused"]
    /\ hop = [s \in Sessions |-> 1]
    /\ up = [s \in Sessions |-> {}]
    /\ hops = [s \in Sessions |-> {}]
    /\ connected = [s \in Sessions |-> FALSE]
    /\ emitted = [s \in Sessions |-> FALSE]
    /\ status = [s \in Sessions |-> "connecting"]
    /\ sessions = {}
    /\ sessionsByProfile = [k \in Chains |-> NoSession]
    /\ pendingConnects = [k \in Chains |-> NoSession]

-----------------------------------------------------------------------------
(* Helpers *)

\* f with the value v for the sessions (or keys) of D.
With(f, D, v) == [x \in DOMAIN f |-> IF x \in D THEN v ELSE f[x]]

\* A map without its entries for the sessions of D.
Without(map, D) == [x \in DOMAIN map |-> IF map[x] \in D THEN NoSession ELSE map[x]]

ActiveStatus == {"connecting", "connected"}

\* Sessions that count against the quota once those of D are disconnected.
getActiveSessionCount(D) ==
    Cardinality({s \in sessions \ D : status[s] \in ActiveStatus})

-----------------------------------------------------------------------------
(* SSHConnection.disconnect of the connections of D: cleanup() destroys the  *)
(* hops the connection knows of. A hop that is still being connected is not  *)
(* among them.                                                               *)
disconnectConnections(D) ==
    /\ connected' = With(connected, {s \in D : ~emitted[s]}, FALSE)
    /\ emitted' = With(emitted, D, TRUE)
    /\ up' = [s \in Sessions |-> IF s \in D THEN up[s] \ hops[s] ELSE up[s]]
    /\ hops' = With(hops, D, {})

\* SSHSessionManager.disconnect for the sessions of D, all registered.
disconnect(D) ==
    /\ disconnectConnections(D)
    /\ status' = With(status, D, "closed")
    /\ sessions' = sessions \ D
    /\ sessionsByProfile' = Without(sessionsByProfile, D)
    /\ UNCHANGED <<chain, step, hop, pendingConnects>>

disconnectAll ==
    /\ disconnectConnections(sessions)
    /\ status' = With(status, sessions, "closed")
    /\ sessions' = {}
    /\ sessionsByProfile' = [k \in Chains |-> NoSession]
    /\ pendingConnects' = [k \in Chains |-> NoSession]
    /\ UNCHANGED <<chain, step, hop>>

(* The session connect() answers with, after the sessions of D were          *)
(* disconnected: a connected one of the same chain, else the one being       *)
(* created for it, else NoSession for a new one.                             *)
\* Fault: concurrent requests do not look for a pending connect.
FindSessionNotPending(k, D) ==
    LET s == sessionsByProfile[k]
    IN IF s \in sessions \ D /\ status[s] = "connected" THEN s ELSE NoSession

FindSession(k, D) ==
    LET s == sessionsByProfile[k]
    IN IF s \in sessions \ D /\ status[s] = "connected" THEN s ELSE pendingConnects[k]

\* The check of connect(), before it looks for a session to use again.
WithinQuota(D) == getActiveSessionCount(D) < MaxSessions

\* connect() creates session s for chain k, after the disconnect of D.
createSession(s, k, D) ==
    /\ step[s] = "unused"
    /\ disconnectConnections(D)
    /\ chain' = [chain EXCEPT ![s] = k]
    /\ step' = [step EXCEPT ![s] = "connecting"]
    /\ status' = [With(status, D, "closed") EXCEPT ![s] = "connecting"]
    /\ sessions' = (sessions \ D) \cup {s}
    /\ sessionsByProfile' = [Without(sessionsByProfile, D) EXCEPT ![k] = s]
    /\ pendingConnects' = [pendingConnects EXCEPT ![k] = s]
    /\ UNCHANGED hop

\* connect() for chain k, after the disconnect of D, works on session s.
connect(k, s, D) ==
    /\ WithinQuota(D)
    /\ \/ s # NoSession /\ s = FindSession(k, D) /\ disconnect(D)
       \/ FindSession(k, D) = NoSession /\ createSession(s, k, D)

-----------------------------------------------------------------------------
(* Steps of a connection. A hop after the first is reached through a tunnel  *)
(* of the one before it, and cannot come up once that one is gone.           *)
MayComeUp(s) == step[s] = "connecting" /\ (hop[s] = 1 \/ hop[s] - 1 \in up[s])

HopComesUp(s) ==
    /\ MayComeUp(s)
    /\ up' = [up EXCEPT ![s] = @ \cup {hop[s]}]
    /\ hops' = [hops EXCEPT ![s] = @ \cup {hop[s]}]

HopReady(s) ==
    /\ HopComesUp(s)
    /\ hop[s] < Length[chain[s]]
    /\ hop' = [hop EXCEPT ![s] = @ + 1]
    /\ UNCHANGED <<connected, emitted, managerVars>>

\* The last hop is up: connect() and createSession() return.
LastHopReady(s) ==
    /\ HopComesUp(s)
    /\ hop[s] = Length[chain[s]]
    /\ connected' = [connected EXCEPT ![s] = TRUE]
    /\ emitted' = [emitted EXCEPT ![s] = FALSE]
    /\ status' = [status EXCEPT ![s] = "connected"]
    /\ step' = [step EXCEPT ![s] = "returned"]
    /\ pendingConnects' = Without(pendingConnects, {s})
    /\ UNCHANGED <<hop, chain, sessions, sessionsByProfile>>

(* A hop is refused, breaks off or times out. connect() reports the error    *)
(* and cleans up, createSession() disconnects once more and removes the      *)
(* session.                                                                  *)
\* Fault: the hops that did come up are not destroyed.
HopFailsWithoutCleanup(s) ==
    /\ step[s] = "connecting"
    /\ connected' = [connected EXCEPT ![s] = FALSE]
    /\ emitted' = [emitted EXCEPT ![s] = TRUE]
    /\ status' = [status EXCEPT ![s] = IF emitted[s] THEN "error" ELSE "disconnected"]
    /\ step' = [step EXCEPT ![s] = "failed"]
    /\ sessions' = sessions \ {s}
    /\ sessionsByProfile' = Without(sessionsByProfile, {s})
    /\ pendingConnects' = Without(pendingConnects, {s})
    /\ UNCHANGED <<hop, chain, up, hops>>

HopFails(s) ==
    /\ step[s] = "connecting"
    /\ disconnectConnections({s})
    /\ status' = [status EXCEPT ![s] = IF emitted[s] THEN "error" ELSE "disconnected"]
    /\ step' = [step EXCEPT ![s] = "failed"]
    /\ sessions' = sessions \ {s}
    /\ sessionsByProfile' = Without(sessionsByProfile, {s})
    /\ pendingConnects' = Without(pendingConnects, {s})
    /\ UNCHANGED <<hop, chain>>

(* A hop that was up breaks off, and with it the hops tunnelled through it.  *)
(* The first "close" or "error" of a connection is its "disconnected" event; *)
(* the hops before it stay open.                                             *)
HopLost(s, i) ==
    /\ i \in up[s]
    /\ up' = [up EXCEPT ![s] = {j \in @ : j < i}]
    /\ connected' = [connected EXCEPT ![s] = @ /\ emitted[s]]
    /\ emitted' = [emitted EXCEPT ![s] = TRUE]
    /\ status' = [status EXCEPT ![s] = IF emitted[s] THEN @ ELSE "disconnected"]
    /\ UNCHANGED <<hop, hops, chain, step, sessions, sessionsByProfile, pendingConnects>>

=============================================================================
