------------------------- MODULE MCSchedulerStores -------------------------
(* The two streams are alike: one has more than its file holds, one little. *)
EXTENDS SchedulerStores

Made == [s \in Streams |-> IF s = "stdout" THEN 3 ELSE 1]
=============================================================================
