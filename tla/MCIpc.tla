-------------------------------- MODULE MCIpc --------------------------------
(* Small instances of Ipc for TLC.                                         *)
EXTENDS Ipc, TLC

CONSTANTS a, b, r1, r2, r3

\* a asks for something light and runs a command whose frame may be longer than the
\* limit; it may connect twice. b runs a command.
MCClientOf == r1 :> a @@ r2 :> a @@ r3 :> b
MCLaneOf == r1 :> "light" @@ r2 :> "exec" @@ r3 :> "exec"
MCLengths == r1 :> {1} @@ r2 :> {1, 4} @@ r3 :> {1}
MCLaneLimit == "exec" :> 1 @@ "transfer" :> 1 @@ "wait" :> 1
MCMaxLinks == a :> 2 @@ b :> 1
=============================================================================
