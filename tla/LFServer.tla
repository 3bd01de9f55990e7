------------------------------ MODULE LFServer -------------------------------
(***************************************************************************)
(* SP_ProcLFServer: a master that forks workers and counts the idle ones,  *)
(* workers that take turns in accept().                                    *)
(*                                                                         *)
(* A worker tells the master what it does by one byte on its pipe; the     *)
(* master gets rid of a worker by one byte (a pod) on a pipe that all of   *)
(* them read.  The pool is used for get() and erase() only: a process is   *)
(* named by its entry, whose name is free again when both are gone; it is  *)
(* "leave" when it is out of its loop and "closed" when its entry is       *)
(* erased before it ends.                                                  *)
(***************************************************************************)
EXTENDS BaseServer, FiniteSets, Sequences, SequencesExt

CONSTANTS
    Proc,                          \* names of worker processes
    MaxRequestsPerProc,
    LockKind,                      \* what setAcceptLock() was given
    Faults,                        \* failures that may happen
    ConnectBound,                  \* how many clients come
    DeathBound,                    \* how many workers die, cannot accept or
                                   \* are interrupted in accept()
    NoProc

ASSUME LFAssumption ==
    /\ MaxRequestsPerProc \in Nat
    /\ LockKind \in {"none", "file", "thread"}
    /\ Faults \subseteq {"get_fail", "accept_fail", "select_intr", "shutdown"}
    /\ ConnectBound \in Nat /\ DeathBound \in Nat
    /\ NoProc \notin Proc

VARIABLES
    mpc,        \* where the master is
    procList,
    isIdle,     \* mIsIdle of an entry
    idleCount,
    rset,       \* entries reported by select() and not yet looked at
    failed,     \* the last get() returned NULL
    stop,       \* mIsStop
    pods,       \* bytes in the pod pipe
    wpc,        \* where each worker is
    requests,   \* its mRequests
    pipe,       \* what it wrote and the master has not read
    lock,       \* who has the accept lock
    backlog,    \* connections nobody has accepted
    connects, deaths

masterVars == <<mpc, procList, isIdle, idleCount, rset, failed>>
workerVars == <<wpc, requests, lock>>
envVars    == <<connects, deaths>>
vars == <<masterVars, stop, pods, workerVars, pipe, backlog, envVars>>

Busy == "B"
Idle == "I"
Exit == "X"

Init ==
    /\ mpc = "start"
    /\ procList = <<>>
    /\ isIdle = [p \in Proc |-> FALSE]
    /\ idleCount = 0
    /\ rset = {}
    /\ failed = FALSE
    /\ stop = FALSE
    /\ pods = 0
    /\ wpc = [p \in Proc |-> "none"]
    /\ requests = [p \in Proc |-> 0]
    /\ pipe = [p \in Proc |-> <<>>]
    /\ lock = NoProc
    /\ backlog = 0
    /\ connects = 0 /\ deaths = 0

-----------------------------------------------------------------------------
(* The master, SP_ProcLFServer::start().                                   *)

\* get() makes a process; its entry is idle.  Of the free names it takes one,
\* no matter which.
Get(p) ==
    /\ wpc[p] = "none"
    /\ p = CHOOSE q \in Proc : wpc[q] = "none"
    /\ wpc' = [wpc EXCEPT ![p] = "top"]
    /\ requests' = [requests EXCEPT ![p] = 0]
    /\ procList' = Append(procList, p)
    /\ isIdle' = [isIdle EXCEPT ![p] = TRUE]
    /\ idleCount' = idleCount + 1
    /\ failed' = FALSE

GetNull ==
    /\ "get_fail" \in Faults
    /\ failed' = TRUE
    /\ UNCHANGED <<wpc, requests, procList, isIdle, idleCount>>

StartGet ==
    /\ mpc = "start" /\ Len(procList) < MinIdleProc
    /\ \/ (\E p \in Proc : Get(p)) /\ UNCHANGED mpc
       \/ GetNull /\ mpc' = "select"
    /\ UNCHANGED <<rset, stop, pods, pipe, lock, backlog, envVars>>

StartEnd ==
    /\ mpc = "start" /\ Len(procList) = MinIdleProc
    /\ mpc' = "select"
    /\ UNCHANGED <<procList, isIdle, idleCount, rset, failed, stop, pods, workerVars,
                   pipe, backlog, envVars>>

\* Mutant of Ready: the end of a worker is no event.
ReadyBytes(p) == pipe[p] # <<>>

Ready(p) == pipe[p] # <<>> \/ wpc[p] = "gone"

Select ==
    /\ mpc = "select"
    /\ \E p \in ToSet(procList) : Ready(p)
    /\ rset' = {p \in ToSet(procList) : Ready(p)}
    /\ mpc' = "recv"
    /\ UNCHANGED <<procList, isIdle, idleCount, failed, stop, pods, workerVars, pipe,
                   backlog, envVars>>

\* An interrupted select() leaves all entries in the set.
SelectIntr ==
    /\ mpc = "select"
    /\ "select_intr" \in Faults
    /\ rset' = ToSet(procList)
    /\ mpc' = "recv"
    /\ UNCHANGED <<procList, isIdle, idleCount, failed, stop, pods, workerVars, pipe,
                   backlog, envVars>>

\* Mutant of RemoveEntry: erased, but not taken out of the list.
RemoveErased(p) ==
    /\ idleCount' = IF isIdle[p] THEN idleCount - 1 ELSE idleCount
    /\ isIdle' = [isIdle EXCEPT ![p] = FALSE]
    /\ wpc' = [wpc EXCEPT ![p] = "none"]
    /\ UNCHANGED procList

\* procList.takeItem( i )
TakeItem(p) ==
    \E i \in 1..Len(procList) :
       procList[i] = p /\ procList' = RemoveAt(procList, i)

\* Mutant of RemoveEntry: an idle worker that ends is not counted out.
RemoveUncounted(p) ==
    /\ TakeItem(p)
    /\ isIdle' = [isIdle EXCEPT ![p] = FALSE]
    /\ wpc' = [wpc EXCEPT ![p] = "none"]
    /\ UNCHANGED idleCount

\* The entry is erased and its pipe closed, also when the process still runs.
RemoveEntry(p) ==
    /\ TakeItem(p)
    /\ idleCount' = IF isIdle[p] THEN idleCount - 1 ELSE idleCount
    /\ isIdle' = [isIdle EXCEPT ![p] = FALSE]
    /\ wpc' = [wpc EXCEPT ![p] = IF @ = "gone" THEN "none" ELSE "closed"]

\* The last byte says what the worker does now.
SetIdle(p, b) ==
    /\ idleCount' = CASE b /\ ~isIdle[p] -> idleCount + 1
                      [] ~b /\ isIdle[p] -> idleCount - 1
                      [] OTHER -> idleCount
    /\ isIdle' = [isIdle EXCEPT ![p] = b]
    /\ UNCHANGED <<procList, wpc>>

\* Mutant of Told: the first byte instead of the last.
ToldFirst(p) == Head(pipe[p])

Told(p) == Last(pipe[p])

\* The last entry of the list that is still to be looked at.
Latest(p) ==
    \E i \in 1..Len(procList) :
       /\ procList[i] = p /\ p \in rset
       /\ \A j \in (i + 1)..Len(procList) : procList[j] \notin rset

\* recv() of all that is in the pipe.  It does not wait: nothing in the pipe of
\* a living worker is no news.
RecvFrom(p) ==
    /\ mpc = "recv" /\ Latest(p)
    /\ rset' = rset \ {p}
    /\ pipe' = [pipe EXCEPT ![p] = <<>>]
    /\ \/ pipe[p] # <<>> /\ Told(p) = Idle /\ SetIdle(p, TRUE)
       \/ pipe[p] # <<>> /\ Told(p) = Busy /\ SetIdle(p, FALSE)
       \/ pipe[p] # <<>> /\ Told(p) = Exit /\ RemoveEntry(p)
       \/ pipe[p] = <<>> /\ wpc[p] = "gone" /\ RemoveEntry(p)
       \/ pipe[p] = <<>> /\ wpc[p] # "gone"
          /\ UNCHANGED <<procList, isIdle, idleCount, wpc>>
    /\ UNCHANGED <<mpc, failed, stop, pods, requests, lock, backlog, envVars>>

Recv == \E p \in Proc : RecvFrom(p)

\* The first entry that is marked idle, if there is one.
FirstIdle ==
    {p \in Proc : \E i \in 1..Len(procList) :
                     /\ procList[i] = p /\ isIdle[p]
                     /\ \A j \in 1..(i - 1) : ~isIdle[procList[j]]}

\* Mutant of Trim: the entry that was marked is still counted.
TrimUncounted ==
    /\ mpc = "recv" /\ rset = {}
    /\ IF idleCount > MaxIdleProc
         THEN /\ pods' = pods + 1
              /\ isIdle' = [p \in Proc |-> isIdle[p] /\ p \notin FirstIdle]
         ELSE UNCHANGED <<pods, isIdle>>
    /\ mpc' = "fork"
    /\ UNCHANGED <<procList, idleCount, rset, failed, stop, workerVars, pipe, backlog, envVars>>

\* One pod at a time.  The first idle entry is counted out, whoever takes the
\* pod.
Trim ==
    /\ mpc = "recv" /\ rset = {}
    /\ IF idleCount > MaxIdleProc
         THEN /\ pods' = pods + 1
              /\ isIdle' = [p \in Proc |-> isIdle[p] /\ p \notin FirstIdle]
              /\ idleCount' = idleCount - Cardinality(FirstIdle)
         ELSE UNCHANGED <<pods, isIdle, idleCount>>
    /\ mpc' = "fork"
    /\ UNCHANGED <<procList, rset, failed, stop, workerVars, pipe, backlog, envVars>>

\* Mutant of Short: off by one.
ShortLate == idleCount < MinIdleProc /\ Len(procList) <= MaxProc

Short == idleCount < MinIdleProc /\ Len(procList) < MaxProc

\* One new process at a time, then the loop starts again.
Fork ==
    /\ mpc = "fork"
    /\ IF Short
         THEN (\E p \in Proc : Get(p)) \/ GetNull
         ELSE UNCHANGED <<procList, isIdle, idleCount, failed, wpc, requests>>
    /\ mpc' = IF stop THEN "done" ELSE "select"
    /\ UNCHANGED <<rset, stop, pods, pipe, lock, backlog, envVars>>

Shutdown ==
    /\ "shutdown" \in Faults
    /\ ~stop /\ mpc \notin {"start", "done"}
    /\ stop' = TRUE
    /\ UNCHANGED <<masterVars, pods, workerVars, pipe, backlog, envVars>>

-----------------------------------------------------------------------------
(* A worker, SP_ProcWorkerLFAdapter::process().                            *)

Goes(p, from, to) == wpc[p] = from /\ wpc' = [wpc EXCEPT ![p] = to]

Says(p, b) == pipe' = [pipe EXCEPT ![p] = Append(@, b)]

MayServe(p) == MaxRequestsPerProc = 0 \/ requests[p] < MaxRequestsPerProc

\* Without a lock all wait in accept() together.
TakeLock(p) ==
    IF LockKind = "none" THEN UNCHANGED lock ELSE lock = NoProc /\ lock' = p

Unlock == lock' = NoProc

Lock(p) ==
    /\ MayServe(p)
    /\ Goes(p, "top", "accept")
    /\ TakeLock(p)
    /\ UNCHANGED <<masterVars, stop, pods, requests, pipe, backlog, envVars>>

\* The loop ends after mMaxRequestsPerProc requests, without a word.
Leave(p) ==
    /\ ~MayServe(p)
    /\ Goes(p, "top", "leave")
    /\ UNCHANGED <<masterVars, stop, pods, requests, lock, pipe, backlog, envVars>>

\* workerEnd() returns and the process ends, with or without its entry.
End(p) ==
    /\ Goes(p, "leave", "gone") \/ Goes(p, "closed", "none")
    /\ UNCHANGED <<masterVars, stop, pods, requests, lock, pipe, backlog, envVars>>

\* accept() and unlock().
Accept(p) ==
    /\ backlog > 0
    /\ Goes(p, "accept", "accepted")
    /\ backlog' = backlog - 1
    /\ Unlock
    /\ UNCHANGED <<masterVars, stop, pods, requests, pipe, envVars>>

\* accept() fails: the error of an aborted connection is ignored, with any
\* other the worker leaves.
AcceptFail(p) ==
    /\ "accept_fail" \in Faults /\ backlog > 0
    /\ \/ Goes(p, "accept", "served") /\ backlog' = backlog - 1 /\ UNCHANGED pipe
          /\ UNCHANGED deaths
       \/ Goes(p, "accept", "leave") /\ Says(p, Exit) /\ UNCHANGED backlog
          /\ deaths < DeathBound /\ deaths' = deaths + 1
    /\ Unlock
    /\ UNCHANGED <<masterVars, stop, pods, requests, connects>>

\* accept() is interrupted, with or without a client: the error is ignored.
AcceptIntr(p) ==
    /\ "accept_fail" \in Faults
    /\ deaths < DeathBound /\ deaths' = deaths + 1
    /\ Goes(p, "accept", "served")
    /\ Unlock
    /\ UNCHANGED <<masterVars, stop, pods, requests, pipe, backlog, connects>>

SayBusy(p) ==
    /\ Goes(p, "accepted", "handle")
    /\ Says(p, Busy)
    /\ UNCHANGED <<masterVars, stop, pods, requests, lock, backlog, envVars>>

\* handle() returns.
SayIdle(p) ==
    /\ Goes(p, "handle", "served")
    /\ Says(p, Idle)
    /\ requests' = [requests EXCEPT ![p] = @ + 1]
    /\ UNCHANGED <<masterVars, stop, pods, lock, backlog, envVars>>

\* Only a worker that comes from a request looks for a pod.
TakePod(p) ==
    /\ IF pods > 0
         THEN Goes(p, "served", "leave") /\ Says(p, Exit) /\ pods' = pods - 1
         ELSE Goes(p, "served", "top") /\ UNCHANGED <<pipe, pods>>
    /\ UNCHANGED <<masterVars, stop, requests, lock, backlog, envVars>>

\* Mutant of Die: the lock file outlives its owner's lock.
DieLocked(p) ==
    /\ deaths < DeathBound
    /\ wpc[p] \notin {"none", "gone", "closed"}
    /\ wpc' = [wpc EXCEPT ![p] = "gone"]
    /\ deaths' = deaths + 1
    /\ UNCHANGED <<masterVars, stop, pods, requests, lock, pipe, backlog, connects>>

\* The kernel releases a file lock with its owner, not a mutex in shared memory.
Die(p) ==
    /\ deaths < DeathBound
    /\ wpc[p] \notin {"none", "gone", "closed"}
    /\ wpc' = [wpc EXCEPT ![p] = "gone"]
    /\ lock' = IF LockKind = "file" /\ lock = p THEN NoProc ELSE lock
    /\ deaths' = deaths + 1
    /\ UNCHANGED <<masterVars, stop, pods, requests, pipe, backlog, connects>>

\* The manager ends after the server and takes the workers along.
Killed(p) ==
    /\ mpc = "done" /\ wpc[p] # "none"
    /\ wpc' = [wpc EXCEPT ![p] = "none"]
    /\ UNCHANGED <<masterVars, stop, pods, requests, lock, pipe, backlog, envVars>>

Connect ==
    /\ connects < ConnectBound
    /\ connects' = connects + 1
    /\ backlog' = backlog + 1
    /\ UNCHANGED <<masterVars, stop, pods, workerVars, pipe, deaths>>

-----------------------------------------------------------------------------
MasterStep == StartGet \/ StartEnd \/ Select \/ Recv \/ Trim \/ Fork

WorkerStep(p) ==
    \/ Lock(p) \/ Leave(p) \/ End(p) \/ Accept(p) \/ AcceptFail(p)
    \/ SayBusy(p) \/ SayIdle(p) \/ TakePod(p) \/ Killed(p)

Next ==
    \/ MasterStep
    \/ SelectIntr \/ Shutdown
    \/ \E p \in Proc : WorkerStep(p) \/ AcceptIntr(p) \/ Die(p)
    \/ Connect

Spec == Init /\ [][Next]_vars

\* Processes are scheduled and handle() returns; a lock that is released again
\* and again is given to each of those that wait for it.
Fairness ==
    /\ WF_vars(MasterStep)
    /\ \A p \in Proc : SF_vars(WorkerStep(p))

FairSpec == Spec /\ Fairness

-----------------------------------------------------------------------------
(* Properties.                                                             *)

\* The variables have their types, and a process is an entry of the list from
\* get() to erase().
TypeOK ==
    /\ mpc \in {"start", "select", "recv", "fork", "done"}
    /\ procList \in Seq(Proc) /\ IsInjective(procList)
    /\ isIdle \in [Proc -> BOOLEAN]
    /\ idleCount \in Nat
    /\ rset \subseteq ToSet(procList)
    /\ failed \in BOOLEAN /\ stop \in BOOLEAN
    /\ pods \in Nat
    /\ wpc \in [Proc -> {"none", "top", "accept", "accepted", "handle", "served", "leave",
                     "gone", "closed"}]
    /\ mpc # "done" =>
          ToSet(procList) = {p \in Proc : wpc[p] \notin {"none", "closed"}}
    /\ requests \in [Proc -> Nat]
    /\ pipe \in [Proc -> Seq({Busy, Idle, Exit})]
    /\ lock \in Proc \cup {NoProc}
    /\ connects \in 0..ConnectBound /\ backlog \in 0..connects
    /\ deaths \in 0..DeathBound

\* idleCount, kept up to date by hand in five places, is the number of entries
\* that are marked idle.
CountExact == idleCount = Cardinality({p \in ToSet(procList) : isIdle[p]})

\* When the master has read all that a worker wrote, it does not take a worker
\* that is in handle() for an idle one, however many bytes came together.
IdleHonest ==
    mpc # "done" =>
       \A p \in ToSet(procList) : isIdle[p] /\ pipe[p] = <<>> => wpc[p] # "handle"

\* There are never more workers than mMaxProc or those of the start, and the
\* master waits in select() with at least one, however many left together: only
\* a get() that fails leaves it waiting for nobody.
ProcLimit  == Len(procList) <= ProcBound
NeverAlone == mpc = "select" /\ procList = <<>> => failed

\* A worker that nothing keeps from its next step but a client or handle().
Able(p) ==
    /\ wpc[p] # "gone"
    /\ wpc[p] = "top" /\ MayServe(p) /\ LockKind # "none" => lock = NoProc

\* While clients wait, either the master has something to read or a worker can
\* go on: they do not all wait for each other, for a lock that nobody gives
\* back or for a byte that nobody writes.  The mutex of a worker that died is
\* the exception.
NeverStuck ==
    mpc = "select" /\ backlog > 0 /\ (LockKind = "thread" => deaths = 0) =>
       procList = <<>> \/ \E p \in ToSet(procList) : Ready(p) \/ Able(p)

\* There are enough workers and not too many, and they get on.
Workforce == ProcLimit /\ NeverAlone /\ NeverStuck

\* Every client is accepted, whatever workers leave, die or are sent away,
\* until the server is stopped or waits in select() with no worker.
AllAccepted ==
    backlog > 0 ~> backlog = 0 \/ stop \/ (mpc = "select" /\ procList = <<>>)

=============================================================================
