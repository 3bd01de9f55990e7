----------------------------- MODULE BaseServer ------------------------------
(* SP_ProcBaseServer: the arguments of a server.                           *)
EXTENDS Integers

CONSTANTS ArgMinIdle, ArgMaxIdle, ArgMaxProc   \* what setArgs() was given

ASSUME ArgsAssumption == {ArgMinIdle, ArgMaxIdle, ArgMaxProc} \subseteq Int

\* setArgs()
MinIdleProc == IF ArgMinIdle <= 0 THEN 1 ELSE ArgMinIdle
MaxIdleProc == IF ArgMaxIdle < MinIdleProc THEN MinIdleProc ELSE ArgMaxIdle
MaxProc == IF ArgMaxProc <= 0 THEN MaxIdleProc ELSE ArgMaxProc

\* The most processes a server has.
ProcBound == IF MinIdleProc > MaxProc THEN MinIdleProc ELSE MaxProc

=============================================================================
