------------------------------ MODULE MCRunner ------------------------------
(* Runner needs no more than its kinds; this module names the instances.   *)
EXTENDS Runner

BackgroundOnly == {"background"}
ProbeOnly == {"probe"}
=============================================================================
