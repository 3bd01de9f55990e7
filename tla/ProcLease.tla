----------------------------- MODULE ProcLease ------------------------------
(***************************************************************************)
(* What SP_ProcPool promises its callers: get() lends a process to one     *)
(* thread at a time, save() gives it back to the idle ones or retires it,  *)
(* ensureIdleProc() makes idle ones in advance.  Nothing is said of how    *)
(* processes are made.                                                     *)
(***************************************************************************)
EXTENDS Integers, FiniteSets

CONSTANTS Thread, Conn, MaxRequestsPerProc, MaxIdleProc, NoConn

VARIABLES
    idle,   \* processes in the pool
    lease,  \* the process each thread has been lent
    uses    \* how often a process of the pool or of a thread has been lent

vars == <<idle, lease, uses>>

Lent == {lease[t] : t \in Thread} \ {NoConn}

Init ==
    /\ idle = {}
    /\ lease = [t \in Thread |-> NoConn]
    /\ uses = [c \in Conn |-> 0]

MayLend(c) == MaxRequestsPerProc > 0 => uses[c] < MaxRequestsPerProc

MayKeep == MaxIdleProc > 0 => Cardinality(idle) < MaxIdleProc

\* get() returns an idle process, or one made for the call.
Lend(t, c) ==
    /\ lease[t] = NoConn
    /\ c \notin Lent
    /\ MayLend(c)
    /\ idle' = idle \ {c}
    /\ lease' = [lease EXCEPT ![t] = c]
    /\ uses' = [uses EXCEPT ![c] = @ + 1]

GiveBack(t) ==
    /\ lease[t] # NoConn
    /\ MayLend(lease[t])
    /\ MayKeep
    /\ idle' = idle \cup {lease[t]}
    /\ lease' = [lease EXCEPT ![t] = NoConn]
    /\ UNCHANGED uses

\* save() over a limit, or erase().
Retire(t) ==
    /\ lease[t] # NoConn
    /\ lease' = [lease EXCEPT ![t] = NoConn]
    /\ uses' = [uses EXCEPT ![lease[t]] = 0]
    /\ UNCHANGED idle

\* get() finds that the process of an idle entry does not exist.
Discard(c) ==
    /\ c \in idle
    /\ idle' = idle \ {c}
    /\ uses' = [uses EXCEPT ![c] = 0]
    /\ UNCHANGED lease

\* ensureIdleProc() adds a process nobody has used.
Prefork(c) ==
    /\ c \notin idle \cup Lent
    /\ uses[c] = 0
    /\ MayKeep
    /\ idle' = idle \cup {c}
    /\ UNCHANGED <<lease, uses>>

\* The pool is destroyed, or its process ends with it.
Shut ==
    /\ idle' = {}
    /\ lease' = [t \in Thread |-> NoConn]
    /\ uses' = [c \in Conn |-> 0]

Next ==
    \/ \E t \in Thread :
          \/ \E c \in Conn : Lend(t, c)
          \/ GiveBack(t)
          \/ Retire(t)
    \/ \E c \in Conn : Discard(c) \/ Prefork(c)
    \/ Shut

Spec == Init /\ [][Next]_vars

=============================================================================
