------------------------------ MODULE TaskBoard ------------------------------
(***************************************************************************)
(* What the task scheduler promises to the agents that share its hosts,    *)
(* without hosts, queues, indices, lock tables or loops: a task is         *)
(* submitted once, runs at most once, runs only while no other task holds  *)
(* the claim it makes (a host for itself, or a directory to change), and   *)
(* ends once.  Scheduler implements this specification.                    *)
(***************************************************************************)

CONSTANTS
    Tasks,
    Claims,    \* what a task may need for itself
    NoClaim

VARIABLES
    phase,     \* how far each task is
    claim      \* the claim of each task, fixed when it is submitted

boardVars == <<phase, claim>>

Ended == {"completed", "failed", "cancelled"}

BoardInit ==
    /\ phase = [t \in Tasks |-> "none"]
    /\ claim = [t \in Tasks |-> NoClaim]

\* Nobody else holds the claim c now.
Free(t, c) ==
    c # NoClaim => \A u \in Tasks \ {t} : phase[u] = "running" => claim[u] # c

\* A new task waits, is refused, or fails when it is started at once.
Submit(t, c) ==
    /\ phase[t] = "none"
    /\ claim' = [claim EXCEPT ![t] = c]
    /\ \E p \in {"queued", "cancelled", "failed"} : phase' = [phase EXCEPT ![t] = p]

\* A new task is started at once.
SubmitRunning(t, c) ==
    /\ phase[t] = "none"
    /\ Free(t, c)
    /\ claim' = [claim EXCEPT ![t] = c]
    /\ phase' = [phase EXCEPT ![t] = "running"]

StartWaiting(t) ==
    /\ phase[t] = "queued"
    /\ Free(t, claim[t])
    /\ phase' = [phase EXCEPT ![t] = "running"]
    /\ claim' = claim

\* A waiting task is taken back, dropped, or fails as it is started.
EndWaiting(t) ==
    /\ phase[t] = "queued"
    /\ \E p \in {"cancelled", "failed"} : phase' = [phase EXCEPT ![t] = p]
    /\ claim' = claim

EndRunning(t) ==
    /\ phase[t] = "running"
    /\ \E p \in Ended : phase' = [phase EXCEPT ![t] = p]
    /\ claim' = claim

BoardNext ==
    \E t \in Tasks :
        \/ \E c \in Claims \cup {NoClaim} : Submit(t, c) \/ SubmitRunning(t, c)
        \/ StartWaiting(t) \/ EndWaiting(t) \/ EndRunning(t)

BoardSpec == BoardInit /\ [][BoardNext]_boardVars
=============================================================================
