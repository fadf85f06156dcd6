-------------------------- MODULE MCDaemonSessions --------------------------
(* Small instances of DaemonSessions for TLC.                              *)
EXTENDS DaemonSessions, TLC

CONSTANTS k1, k2, c1, c2, c3

\* k1 goes through a jump host, k2 is direct; c1 and c2 differ in options that are no
\* part of the chain.
TwoChains == k1 :> 2 @@ k2 :> 1
OneChain  == k1 :> 2
ThreeConfigs == c1 :> k1 @@ c2 :> k1 @@ c3 :> k2
TwoConfigs == c1 :> k1 @@ c2 :> k1

SessionSymmetry == Permutations(Sessions)
=============================================================================
