------------------------- MODULE MCSchedulerRestart -------------------------
(* Small instances of SchedulerRestart for TLC.                            *)
EXTENDS SchedulerRestart, TLC

CONSTANTS h1, w1

Req(cost, mutates) ==
    [host |-> h1, cost |-> cost, mutates |-> mutates, cwd |-> w1,
     bypass |-> FALSE, background |-> FALSE, ifBusy |-> "queue"]

Exclusive == Req("exclusive", TRUE)
Large     == Req("large", FALSE)
MutatingBg == [Req("medium", TRUE) EXCEPT !.background = TRUE]
MutatingBypass == [Req("small", TRUE) EXCEPT !.bypass = TRUE]

RestartRequests == {Exclusive, MutatingBg, MutatingBypass}
OnlyExclusive == {Exclusive}
OnlyLarge == {Large}
TaskSymmetry == Permutations(Tasks)
=============================================================================
