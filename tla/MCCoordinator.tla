--------------------------- MODULE MCCoordinator ---------------------------
(* The tasks of one daemon, in workspaces that overlap: one in the foreground *)
(* with a long lease, one in the background with the shortest.               *)
EXTENDS Coordinator

CONSTANTS a, b, d1

MCOwner == [t \in Tasks |-> d1]
MCWorkspace == (a :> <<"srv", "app">>) @@ (b :> <<"srv", ".", "x", "..", "app", "api">>)

\* The second task gave a timeout below the interval of the heartbeats.
MCTtl == (a :> 7) @@ (b :> 2)

\* One of the tasks has no directory.
RootWorkspace == (a :> <<>>) @@ (b :> <<"srv">>)
=============================================================================
