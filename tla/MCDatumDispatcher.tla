-------------------------- MODULE MCDatumDispatcher --------------------------
(* Instances of DatumDispatcher for TLC.                                   *)
EXTENDS DatumDispatcher

\* Whatever may fail fails; poll() and SIGPIPE behave either way.
EveryFault == {"get_fail", "worker_exit", "torn", "thread_fail"}
Either == {TRUE, FALSE}

=============================================================================
