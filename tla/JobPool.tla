------------------------------ MODULE JobPool -------------------------------
(***************************************************************************)
(* What SP_ProcThreadPool promises the one thread that gives it jobs:      *)
(* after wait4idler() a job has a thread at once, a thread is made only    *)
(* when none is idle, and the full callback comes with the last thread     *)
(* that gets idle.                                                         *)
(***************************************************************************)
EXTENDS Integers

CONSTANT MaxThreads

VARIABLE crew   \* how many threads there are, how many are idle, and whether
                \* the callback has come since the last job was given

Empty == [idle |-> 0, total |-> 0, told |-> FALSE]

Room    == crew.idle > 0 \/ crew.total < MaxThreads
AllIdle == crew.idle >= crew.total
Given   == crew.total - crew.idle

\* The crew with one more job, and with one less.
Taken ==
    IF crew.idle > 0
      THEN [idle |-> crew.idle - 1, total |-> crew.total, told |-> FALSE]
      ELSE [idle |-> crew.idle, total |-> crew.total + 1, told |-> FALSE]

Rested == [idle |-> crew.idle + 1, total |-> crew.total,
           told |-> crew.idle + 1 >= crew.total]

Give == Room /\ crew' = Taken
Rest == Given > 0 /\ crew' = Rested
Shut == AllIdle /\ crew' = Empty

Spec == crew = Empty /\ [][Give \/ Rest \/ Shut]_crew

=============================================================================
