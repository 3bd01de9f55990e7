------------------------------ MODULE MTServer -------------------------------
(***************************************************************************)
(* SP_ProcMTServer: the master of LFServer with workers that accept in     *)
(* their main thread and serve in the threads of a pool.                   *)
(*                                                                         *)
(* Two threads of a worker write to its pipe: the main thread says 'B'     *)
(* before it gives a connection to the pool, the last thread that gets     *)
(* idle says 'I'.  The thread pool is the abstract one of JobPool; what     *)
(* JobPool does in one step while it has mMainMutex is two here, because    *)
(* wait4idler() looks at the pool without that mutex.                       *)
(***************************************************************************)
EXTENDS Integers, FiniteSets, Sequences, SequencesExt

CONSTANTS
    Proc, ArgMinIdle, ArgMaxIdle, ArgMaxProc, MaxRequestsPerProc, LockKind,
    Faults, ConnectBound, DeathBound, NoProc,   \* as in LFServer
    ArgThreads                     \* what setThreadsPerProc() was given

ASSUME MTAssumption == ArgThreads \in Int /\ NoProc \notin Proc

\* setThreadsPerProc()
ThreadsPerProc == IF ArgThreads <= 0 THEN 1 ELSE ArgThreads

VARIABLES
    mpc, procList, isIdle, idleCount, rset, failed, stop, pods,   \* of the master
    wpc,        \* where the main thread of each worker is
    requests, pipe, lock, backlog, connects, deaths,
    crew,       \* the threads of each worker
    calling,    \* workers with a thread in the full callback, which has mMainMutex
    unsaid,     \* entries marked busy that no byte of the worker makes idle
    served,     \* clients whose handle() has returned
    lost        \* clients lost with a worker or the connection, or for want of a thread

LF == INSTANCE LFServer

\* The thread pool c of a worker.
Jobs(c) == INSTANCE JobPool WITH MaxThreads <- ThreadsPerProc, crew <- c

masterVars == <<mpc, procList, isIdle, idleCount, rset, failed>>
clientVars == <<served, lost>>
poolVars   == <<crew, calling, unsaid, clientVars>>
vars == <<masterVars, stop, pods, wpc, requests, lock, pipe, backlog, connects,
          deaths, poolVars>>

Given(p) == Jobs(crew[p])!Given

\* The clients that are lost when worker p ends: those its threads have, and the
\* one its main thread has accepted.
InHand(p) == Given(p) + (IF wpc[p] = "dispatch" THEN 1 ELSE 0)

NoThread == Jobs(<<>>)!Empty

Init ==
    /\ LF!Init
    /\ crew = [p \in Proc |-> NoThread]
    /\ calling = {} /\ unsaid = {}
    /\ served = 0 /\ lost = 0

-----------------------------------------------------------------------------
(* The master, SP_ProcMTServer::start(): the loop of the LF server.        *)

StartGet   == LF!StartGet /\ UNCHANGED poolVars
StartEnd   == LF!StartEnd /\ UNCHANGED poolVars
Select     == LF!Select /\ UNCHANGED poolVars
SelectIntr == LF!SelectIntr /\ UNCHANGED poolVars
Fork       == LF!Fork /\ UNCHANGED poolVars

\* Bound: it comes after the last client, and where mIsStop is looked at next.
Shutdown == connects = ConnectBound /\ mpc = "fork" /\ LF!Shutdown /\ UNCHANGED poolVars

\* A worker that said it exits is erased while threads of it still serve.
Recv ==
    /\ LF!Recv
    /\ unsaid' = {p \in unsaid : p \in ToSet(procList') /\ (isIdle'[p] => pipe'[p] # <<>>)}
    /\ UNCHANGED <<crew, calling, clientVars>>

\* The entry that is counted out for the pod belongs to a worker that is idle.
Trim ==
    /\ LF!Trim
    /\ unsaid' = unsaid \cup {p \in Proc : isIdle[p] /\ ~isIdle'[p]}
    /\ UNCHANGED <<crew, calling, clientVars>>

-----------------------------------------------------------------------------
(* The main thread of a worker, SP_ProcWorkerMTAdapter::process().         *)

\* Mutant of Lock: the worker does not call wait4idler().
LockAtOnce(p) ==
    /\ LF!MayServe(p)
    /\ LF!Goes(p, "top", "accept")
    /\ LF!TakeLock(p)
    /\ UNCHANGED <<masterVars, stop, pods, requests, pipe, backlog, connects, deaths,
                   poolVars>>

\* wait4idler() and lock(): nothing is accepted that has to wait for a thread.  A
\* thread that is listed is seen before its callback has ended.
Lock(p) ==
    /\ LF!MayServe(p)
    /\ Jobs(crew[p])!Room
    /\ LF!Goes(p, "top", "accept")
    /\ LF!TakeLock(p)
    /\ UNCHANGED <<masterVars, stop, pods, requests, pipe, backlog, connects, deaths,
                   poolVars>>

Leave(p) ==
    /\ ~LF!MayServe(p)
    /\ LF!Goes(p, "top", "delete")
    /\ UNCHANGED <<masterVars, stop, pods, requests, lock, pipe, backlog, connects,
                   deaths, poolVars>>

\* accept(), unlock() and the 'B'.
Accept(p) ==
    /\ backlog > 0
    /\ LF!Goes(p, "accept", "dispatch")
    /\ backlog' = backlog - 1
    /\ LF!Unlock
    /\ LF!Says(p, LF!Busy)
    /\ UNCHANGED <<masterVars, stop, pods, requests, connects, deaths, poolVars>>

\* Mutant of AcceptFail: the error path returns with the lock.
AcceptFailLocked(p) ==
    /\ "accept_fail" \in Faults /\ backlog > 0
    /\ deaths < DeathBound /\ deaths' = deaths + 1
    /\ \/ /\ LF!Goes(p, "accept", "served")
          /\ backlog' = backlog - 1 /\ lost' = lost + 1
          /\ UNCHANGED pipe
       \/ /\ LF!Goes(p, "accept", "delete")
          /\ LF!Says(p, LF!Exit)
          /\ UNCHANGED <<backlog, lost>>
    /\ UNCHANGED <<masterVars, stop, pods, requests, lock, connects, crew, calling, unsaid,
                   served>>

\* The error of an aborted connection is ignored; with any other the worker
\* says that it exits, and has its threads to wait for.
AcceptFail(p) ==
    /\ "accept_fail" \in Faults /\ backlog > 0
    /\ deaths < DeathBound /\ deaths' = deaths + 1
    /\ \/ /\ LF!Goes(p, "accept", "served")
          /\ backlog' = backlog - 1 /\ lost' = lost + 1
          /\ UNCHANGED pipe
       \/ /\ LF!Goes(p, "accept", "delete")
          /\ LF!Says(p, LF!Exit)
          /\ UNCHANGED <<backlog, lost>>
    /\ LF!Unlock
    /\ UNCHANGED <<masterVars, stop, pods, requests, connects, crew, calling, unsaid, served>>

\* accept() is interrupted, with or without a client.
AcceptIntr(p) == LF!AcceptIntr(p) /\ UNCHANGED poolVars

\* Mutant of Dispatch: every job gets a new thread.
DispatchNew(p) ==
    /\ LF!Goes(p, "dispatch", "served")
    /\ crew' = [crew EXCEPT ![p].total = @ + 1]
    /\ requests' = [requests EXCEPT ![p] = @ + 1]
    /\ UNCHANGED <<masterVars, stop, pods, lock, pipe, backlog, connects, deaths, calling,
                   unsaid, clientVars>>

\* dispatch() takes mMainMutex.
Dispatch(p) ==
    /\ LF!Goes(p, "dispatch", "served") /\ p \notin calling
    /\ Jobs(crew[p])!Room
    /\ crew' = [crew EXCEPT ![p] = Jobs(@)!Taken]
    /\ requests' = [requests EXCEPT ![p] = @ + 1]
    /\ UNCHANGED <<masterVars, stop, pods, lock, pipe, backlog, connects, deaths, calling,
                   unsaid, clientVars>>

\* The result of dispatch() is not looked at: the connection stays open, and
\* nobody serves it.
DispatchFail(p) ==
    /\ crew[p].idle = 0
    /\ deaths < DeathBound /\ deaths' = deaths + 1
    /\ LF!Goes(p, "dispatch", "served") /\ p \notin calling
    /\ requests' = [requests EXCEPT ![p] = @ + 1]
    /\ unsaid' = unsaid \cup {p}
    /\ lost' = lost + 1
    /\ UNCHANGED <<masterVars, stop, pods, lock, pipe, backlog, connects, crew, calling, served>>

TakePod(p) ==
    /\ IF pods > 0
         THEN LF!Goes(p, "served", "delete") /\ pods' = pods - 1
         ELSE LF!Goes(p, "served", "top") /\ UNCHANGED pods
    /\ UNCHANGED <<masterVars, stop, requests, lock, pipe, backlog, connects, deaths,
                   poolVars>>

\* delete threadPool waits for the last thread.  Then the worker says that it
\* exits, perhaps for the second time; the assertion fails when its pipe was
\* closed in the meantime.
SayExit(p) ==
    /\ Jobs(crew[p])!AllIdle /\ p \notin calling
    /\ \/ LF!Goes(p, "delete", "gone") /\ LF!Says(p, LF!Exit)
       \/ LF!Goes(p, "closed", "aborted") /\ UNCHANGED pipe
    /\ crew' = [crew EXCEPT ![p] = NoThread]
    /\ UNCHANGED <<masterVars, stop, pods, requests, lock, backlog, connects, deaths, calling,
                   unsaid, clientVars>>

MainStep(p) ==
    \/ Lock(p) \/ Leave(p) \/ Accept(p) \/ AcceptFail(p)
    \/ Dispatch(p) \/ DispatchFail(p) \/ TakePod(p) \/ SayExit(p)

-----------------------------------------------------------------------------
(* The threads of a worker, workerFunc() and reportFunc().                 *)

\* Mutant of Finish: the callback waits until all threads that may exist are
\* idle.
FinishAll(p) ==
    /\ Given(p) > 0 /\ p \notin calling
    /\ crew' = [crew EXCEPT ![p] = Jobs(@)!Rested]
    /\ calling' = calling \cup {q \in {p} : crew'[p].idle = ThreadsPerProc}
    /\ served' = served + 1
    /\ UNCHANGED <<masterVars, stop, pods, wpc, requests, lock, pipe, backlog, connects,
                   deaths, unsaid, lost>>

\* handle() returns and saveThread() lists the thread; the last one calls
\* mFullCallback, with mMainMutex.
Finish(p) ==
    /\ Given(p) > 0 /\ p \notin calling
    /\ crew' = [crew EXCEPT ![p] = Jobs(@)!Rested]
    /\ calling' = calling \cup {q \in {p} : crew'[p].told}
    /\ served' = served + 1
    /\ UNCHANGED <<masterVars, stop, pods, wpc, requests, lock, pipe, backlog, connects,
                   deaths, unsaid, lost>>

\* The callback writes to the pipe, if it is still there, and mMainMutex is given
\* back.
Report(p) ==
    /\ p \in calling /\ calling' = calling \ {p}
    /\ IF wpc[p] # "closed" THEN LF!Says(p, LF!Idle) ELSE UNCHANGED pipe
    /\ UNCHANGED <<masterVars, stop, pods, wpc, requests, lock, backlog, connects, deaths,
                   crew, unsaid, clientVars>>

ThreadStep(p) == Finish(p) \/ Report(p)

-----------------------------------------------------------------------------
Die(p) ==
    /\ wpc[p] \notin {"closed", "aborted"}
    /\ LF!Die(p)
    /\ crew' = [crew EXCEPT ![p] = NoThread]
    /\ calling' = calling \ {p}
    /\ lost' = lost + InHand(p)
    /\ UNCHANGED <<unsaid, served>>

\* The manager ends after the server and takes the workers along.
Killed(p) ==
    /\ LF!Killed(p)
    /\ crew' = [crew EXCEPT ![p] = NoThread]
    /\ calling' = calling \ {p}
    /\ lost' = lost + InHand(p)
    /\ UNCHANGED <<unsaid, served>>

\* A worker that has failed its assertion is no more, and its name is free.
Aborted(p) ==
    /\ LF!Goes(p, "aborted", "none")
    /\ UNCHANGED <<masterVars, stop, pods, requests, lock, pipe, backlog, connects, deaths,
                   poolVars>>

Connect == LF!Connect /\ UNCHANGED poolVars

MasterStep == StartGet \/ StartEnd \/ Select \/ Recv \/ Trim \/ Fork

Next ==
    \/ MasterStep
    \/ SelectIntr \/ Shutdown
    \/ \E p \in Proc :
          \/ MainStep(p) \/ AcceptIntr(p) \/ ThreadStep(p)
          \/ Die(p) \/ Killed(p) \/ Aborted(p)
    \/ Connect

Spec == Init /\ [][Next]_vars

\* As for LFServer; handle() returns in each thread.
Fairness ==
    /\ WF_vars(MasterStep)
    /\ \A p \in Proc :
          /\ SF_vars(MainStep(p))
          /\ WF_vars(ThreadStep(p))
          /\ WF_vars(Killed(p)) /\ WF_vars(Aborted(p))

FairSpec == Spec /\ Fairness

-----------------------------------------------------------------------------
(* Properties.                                                             *)

\* The variables have their types; a worker has at most mThreadsPerProc
\* threads, and holds the lock when it is in accept().
TypeOK ==
    /\ wpc \in [Proc -> {"none", "top", "accept", "dispatch", "served", "delete",
                         "gone", "closed", "aborted"}]
    /\ procList \in Seq(Proc) /\ IsInjective(procList)
    /\ mpc # "done" =>
          ToSet(procList) = {p \in Proc : wpc[p] \notin {"none", "closed", "aborted"}}
    /\ idleCount = Cardinality({p \in ToSet(procList) : isIdle[p]})
    /\ crew \in [Proc -> [idle : 0..ThreadsPerProc, total : 0..ThreadsPerProc,
                          told : BOOLEAN]]
    /\ calling \subseteq Proc /\ unsaid \subseteq Proc
    /\ served \in Nat /\ lost \in Nat
    /\ \A p \in Proc : wpc[p] = "accept" /\ LockKind # "none" => lock = p

AtWork(p) == wpc[p] \in {"top", "accept", "served"}

\* The master is told that a worker is idle: one that has no connection and no
\* callback to end, and whose bytes were all read, is marked busy only when it was
\* counted out for a pod another worker took, or had no thread for its last
\* connection.
IdleHeard ==
    mpc # "done" =>
       \A p \in ToSet(procList) \ (unsaid \cup calling) :
          AtWork(p) /\ Given(p) = 0 /\ pipe[p] = <<>> => isIdle[p]

\* A worker accepts no connection that would have to wait for a thread while
\* another worker could take it: after wait4idler() dispatch() does not block,
\* whatever its threads do in between.
RoomToServe ==
    \A p \in Proc :
       wpc[p] \in {"accept", "dispatch"} => Jobs(crew[p])!Room

\* Every client that came is served to the end, by workers that leave for a pod
\* or after mMaxRequestsPerProc requests too.  The exceptions are counted in lost:
\* a connection that is aborted before accept() returns it, the clients of a worker
\* that dies, and one for which dispatch() finds no thread, whose connection the
\* code neither serves nor closes (spprocmtsvr.cpp:150).  It ends when the server is
\* stopped, or waits in select() with no worker because it could not make one.
AllServed ==
    connects > served + lost ~>
       connects = served + lost \/ stop \/ (mpc = "select" /\ procList = <<>>)

\* assert( write( CHAR_EXIT ) > 0 ), spprocmtsvr.cpp:170: the last word of a
\* worker reaches the master.
LastWord == \A p \in Proc : wpc[p] # "aborted"

=============================================================================
