---------------------------- MODULE MCInetServer -----------------------------
(* Instances of InetServer for TLC.                                        *)
EXTENDS InetServer

\* Whatever may fail fails, and the server may be stopped.
EveryFault == {"get_fail", "accept_fail", "worker_exit", "shutdown"}

=============================================================================
