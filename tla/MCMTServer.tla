----------------------------- MODULE MCMTServer ------------------------------
(* Instances of MTServer for TLC.                                          *)
EXTENDS MTServer

\* Whatever may fail fails, and the server may be stopped.
EveryFault == {"get_fail", "accept_fail", "select_intr", "shutdown"}

=============================================================================
