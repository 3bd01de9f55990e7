----------------------------- MODULE MCProcPool ------------------------------
(* Instances of ProcPool for TLC.                                          *)
EXTENDS ProcPool

\* Whatever may fail fails.
EveryFault == FaultKind

=============================================================================
