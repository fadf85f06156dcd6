---------------------------- MODULE MCMcpSessions ---------------------------
(* Small instances of McpSessions for TLC.                                 *)
EXTENDS McpSessions, TLC

CONSTANTS k1, p1, p2

\* One chain with a jump host; p2 names the same host as the default profile.
OneChain == k1 :> 2
TwoProfiles == p1 :> k1 @@ p2 :> k1
OneProfile == p1 :> k1
=============================================================================
