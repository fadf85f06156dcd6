---------------------------- MODULE MCScheduler ----------------------------
(* Small instances of Scheduler for TLC.                                   *)
EXTENDS Scheduler, TLC

CONSTANTS h1, h2, w1

\* A request on h1 in w1 that is queued when the host is busy.
Req(cost, mutates) ==
    [host |-> h1, cost |-> cost, mutates |-> mutates, cwd |-> w1,
     bypass |-> FALSE, background |-> FALSE, ifBusy |-> "queue"]

Exclusive     == Req("exclusive", TRUE)
Large         == Req("large", FALSE)
Small         == Req("small", FALSE)
MutatingBg    == [Req("medium", TRUE) EXCEPT !.background = TRUE]
MutatingBypass == [Req("small", TRUE) EXCEPT !.bypass = TRUE]
TinyDefault   == [Req("tiny", FALSE) EXCEPT !.cwd = NoCwd, !.ifBusy = "default"]
LargeFails    == [Req("large", TRUE) EXCEPT !.ifBusy = "fail"]
LargeAnyway   == [Req("large", TRUE) EXCEPT !.ifBusy = "run_anyway"]
OtherHost     == [MutatingBg EXCEPT !.host = h2]

\* Task ids are interchangeable: a request picks any unused one.
TaskSymmetry == Permutations(Tasks)

CoreRequests ==
    {Exclusive, MutatingBg, MutatingBypass, Small, TinyDefault, Large, LargeFails,
     LargeAnyway, OtherHost}
LiveRequests == {Exclusive, MutatingBg, MutatingBypass, Large}
ExclusiveAndSmall == {Exclusive, Small}
MutatingRequests == {MutatingBg, MutatingBypass, Small}
OnlyExclusive == {Exclusive}
=============================================================================
