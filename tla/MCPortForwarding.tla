-------------------------- MODULE MCPortForwarding --------------------------
(* Small instances of PortForwarding for TLC.                              *)
EXTENDS PortForwarding, TLC

CONSTANTS l1, r1, r2, r3, r4, b1, b0

\* A local and two remote forwards want the same bind: the remote ones clash on the
\* server. Other remote forwards want any port.
TwoBinds == [f \in Forwards |-> IF f \in {r3, r4} THEN b0 ELSE b1]

\* Forwards of one kind and bind can be exchanged.
RouteSymmetry ==
    Permutations({r1, r2}) \cup Permutations({r3, r4})
=============================================================================
