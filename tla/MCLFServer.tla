----------------------------- MODULE MCLFServer ------------------------------
(* Instances of LFServer for TLC.                                          *)
EXTENDS LFServer

\* Whatever may fail fails, and the server may be stopped.
EveryFault == {"get_fail", "accept_fail", "select_intr", "shutdown"}

=============================================================================
