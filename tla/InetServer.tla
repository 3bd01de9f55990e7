----------------------------- MODULE InetServer ------------------------------
(***************************************************************************)
(* SP_ProcInetServer: one process accepts the clients and passes each to a *)
(* worker of the pool; the worker says when it is free again.              *)
(*                                                                         *)
(* The pool is the abstract one of ProcLease, a lease named by the process *)
(* that is lent.                                                           *)
(***************************************************************************)
EXTENDS BaseServer, FiniteSets, Sequences, SequencesExt

CONSTANTS
    Client,
    Conn,                \* pipes to worker processes
    MaxRequestsPerProc,
    Faults,              \* failures that may happen
    FaultBound,          \* how many
    Listen,              \* the listening socket in a set of descriptors
    NoConn, NoClient

ASSUME InetAssumption ==
    /\ MaxRequestsPerProc \in Nat
    /\ FaultBound \in Nat
    /\ Faults \subseteq {"get_fail", "accept_fail", "worker_exit", "shutdown"}
    /\ NoConn \notin Conn /\ Listen \notin Conn
    /\ NoClient \notin Client

VARIABLES
    idle, lease, uses,  \* the pool
    mpc,                \* where start() is
    rset,               \* descriptors waited for, then those with an event
    forced,             \* the set was never filled in by select()
    info,               \* the process that get() returned
    client,             \* the client that was accepted
    busyList,
    stop,               \* mIsStop
    worker,             \* the worker process of a pipe
    inbox, outbox,      \* clients sent to it, and its answers
    fate,               \* what became of a client
    faults

poolVars   == <<idle, lease, uses>>
loopVars   == <<rset, forced, info, client, busyList>>
workerVars == <<worker, inbox, outbox>>
vars == <<poolVars, mpc, loopVars, stop, workerVars, fate, faults>>

Pool == INSTANCE ProcLease WITH Thread <- Conn

Init ==
    /\ Pool!Init
    /\ mpc = "start"
    /\ rset = {} /\ forced = FALSE
    /\ info = NoConn /\ client = NoClient
    /\ busyList = <<>>
    /\ stop = FALSE
    /\ worker = [c \in Conn |-> "none"]
    /\ inbox = [c \in Conn |-> <<>>]
    /\ outbox = [c \in Conn |-> <<>>]
    /\ fate = [k \in Client |-> "new"]
    /\ faults = 0

Pending == {k \in Client : fate[k] = "pending"}

Fault(f) == f \in Faults /\ faults < FaultBound /\ faults' = faults + 1

\* The server has its end of the pipe open.
Open(c) == mpc # "done" /\ (c \in idle \/ lease[c] # NoConn)

-----------------------------------------------------------------------------
(* The pool.                                                               *)

\* One turn of ensureIdleProc(): of the free pipes it takes one, no matter
\* which.
NewIdle ==
    \E c \in Conn :
       /\ worker[c] = "none"
       /\ c = CHOOSE d \in Conn : worker[d] = "none"
       /\ Pool!Prefork(c)
       /\ worker' = [worker EXCEPT ![c] = "up"]
       /\ UNCHANGED <<inbox, outbox, faults>>

\* create() fails, at the latest when there is no pipe left.
NoProcess ==
    /\ \/ Fault("get_fail")
       \/ (\A c \in Conn : worker[c] # "none") /\ UNCHANGED faults
    /\ UNCHANGED <<poolVars, workerVars>>

\* The pipe is closed with the info.
Close(c) ==
    /\ worker' = [worker EXCEPT ![c] = IF @ = "dead" THEN "none" ELSE @]
    /\ outbox' = [outbox EXCEPT ![c] = <<>>]
    /\ UNCHANGED inbox

Save(c) ==
    IF Pool!MayLend(c) /\ Pool!MayKeep
      THEN Pool!GiveBack(c) /\ UNCHANGED <<worker, inbox>>
      ELSE Pool!Retire(c) /\ Close(c)

Erase(c) == Pool!Retire(c) /\ Close(c)

-----------------------------------------------------------------------------
(* SP_ProcInetServer::start()                                              *)

StartEnsure ==
    /\ mpc = "start" /\ Cardinality(idle) < MinIdleProc
    /\ \/ NewIdle /\ UNCHANGED mpc
       \/ NoProcess /\ mpc' = "top"
    /\ UNCHANGED <<loopVars, stop, fate>>

StartEnd ==
    /\ mpc = "start" /\ Cardinality(idle) >= MinIdleProc
    /\ mpc' = "top"
    /\ UNCHANGED <<poolVars, loopVars, stop, workerVars, fate, faults>>

\* Mutant of MayAccept: off by one.
MayAcceptLate == Len(busyList) <= MaxProc

\* With mMaxProc busy processes clients have to wait: asked before select() and
\* again behind it.
MayAccept == Len(busyList) < MaxProc

Top ==
    /\ mpc = "top" /\ ~stop
    /\ rset' = ToSet(busyList) \cup (IF MayAccept THEN {Listen} ELSE {})
    /\ forced' = FALSE
    /\ mpc' = "select"
    /\ UNCHANGED <<poolVars, info, client, busyList, stop, workerVars, fate, faults>>

Stopped ==
    /\ mpc = "top" /\ stop
    /\ mpc' = "done"
    /\ UNCHANGED <<poolVars, loopVars, stop, workerVars, fate, faults>>

\* Mutant of Ready: the end of a worker is no event.
ReadyAnswer(x) ==
    \/ x = Listen /\ Pending # {}
    \/ x \in Conn /\ outbox[x] # <<>>

Ready(x) ==
    \/ x = Listen /\ Pending # {}
    \/ x \in Conn /\ (outbox[x] # <<>> \/ worker[x] = "dead")

LookAt(set) == IF Listen \in set /\ MayAccept THEN "get" ELSE "scan"

Select ==
    /\ mpc = "select"
    /\ \E x \in rset : Ready(x)
    /\ rset' = {x \in rset : Ready(x)}
    /\ mpc' = LookAt(rset')
    /\ UNCHANGED <<poolVars, forced, info, client, busyList, stop, workerVars, fate, faults>>

\* mIsStop was set before the wait, or a signal ended the wait: the loop goes
\* on with all descriptors in the set.
SelectStop ==
    /\ mpc = "select" /\ stop
    /\ forced' = TRUE
    /\ mpc' = LookAt(rset)
    /\ UNCHANGED <<poolVars, rset, info, client, busyList, stop, workerVars, fate, faults>>

\* The event of the listening socket is done with; when it was the only one the
\* loop starts again.
AfterListen ==
    /\ rset' = rset \ {Listen}
    /\ mpc' = IF rset = {Listen} /\ ~forced THEN "top" ELSE "scan"
    /\ info' = NoConn /\ client' = NoClient
    /\ UNCHANGED forced

\* get() returns an idle process, which may be a zombie, or a new one.
Get(c) ==
    /\ mpc = "get"
    /\ Pool!Lend(c, c)
    /\ IF c \in idle
         THEN UNCHANGED worker
         ELSE /\ idle = {} /\ worker[c] = "none"
              /\ c = CHOOSE d \in Conn : worker[d] = "none"
              /\ worker' = [worker EXCEPT ![c] = "up"]
    /\ info' = c
    /\ mpc' = "accept"
    /\ UNCHANGED <<rset, forced, client, busyList, stop, inbox, outbox, fate, faults>>

\* get() drops an idle process that does not exist.
GetDrop(c) ==
    /\ mpc = "get"
    /\ worker[c] = "dead"
    /\ Pool!Discard(c)
    /\ worker' = [worker EXCEPT ![c] = "none"]
    /\ UNCHANGED <<mpc, loopVars, stop, inbox, outbox, fate, faults>>

\* The client is left in the backlog.
GetNull ==
    /\ mpc = "get" /\ idle = {}
    /\ NoProcess
    /\ AfterListen
    /\ UNCHANGED <<busyList, stop, fate>>

\* accept() waits when nobody is there.
Accept(k) ==
    /\ mpc = "accept" /\ k \in Pending
    /\ client' = k
    /\ fate' = [fate EXCEPT ![k] = "accepted"]
    /\ mpc' = "send"
    /\ UNCHANGED <<poolVars, rset, forced, info, busyList, stop, workerVars, faults>>

\* Mutant of AcceptFail: the process is not given back.
AcceptFailKeep ==
    /\ mpc = "accept"
    /\ Fault("accept_fail")
    /\ \/ UNCHANGED fate
       \/ \E k \in Pending : fate' = [fate EXCEPT ![k] = "lost"]
    /\ AfterListen
    /\ UNCHANGED <<poolVars, workerVars, busyList, stop>>

\* The client is gone again, or stays in the backlog: a signal, or no descriptor
\* is free.  The process is given back.
AcceptFail ==
    /\ mpc = "accept"
    /\ Fault("accept_fail")
    /\ \/ UNCHANGED fate
       \/ \E k \in Pending : fate' = [fate EXCEPT ![k] = "lost"]
    /\ Save(info) /\ UNCHANGED outbox
    /\ AfterListen
    /\ UNCHANGED <<busyList, stop>>

SendFd ==
    /\ mpc = "send" /\ worker[info] # "dead"
    /\ inbox' = [inbox EXCEPT ![info] = Append(@, client)]
    /\ busyList' = Append(busyList, info)
    /\ AfterListen
    /\ UNCHANGED <<poolVars, stop, worker, outbox, fate, faults>>

\* The worker has died since get() looked for it: its client is lost with it.
SendFail ==
    /\ mpc = "send" /\ worker[info] = "dead"
    /\ Erase(info)
    /\ fate' = [fate EXCEPT ![client] = "lost"]
    /\ AfterListen
    /\ UNCHANGED <<busyList, stop, faults>>

\* busyList.takeItem( i )
Unbusy(c) ==
    \E i \in 1..Len(busyList) :
       busyList[i] = c /\ busyList' = RemoveAt(busyList, i)

\* The last busy process with an event.
Latest(c) ==
    \E i \in 1..Len(busyList) :
       /\ busyList[i] = c /\ c \in rset
       /\ \A j \in (i + 1)..Len(busyList) : busyList[j] \notin rset

\* Mutant of Scan: the process is given back and its answer not read.
ScanUnread(c) ==
    /\ mpc = "scan" /\ Latest(c)
    /\ \/ outbox[c] # <<>> /\ Save(c) /\ UNCHANGED outbox
       \/ outbox[c] = <<>> /\ worker[c] = "dead" /\ Erase(c)
    /\ Unbusy(c)
    /\ rset' = rset \ {c}
    /\ UNCHANGED <<mpc, forced, info, client, stop, fate, faults>>

\* Mutant of Scan: the answer of a dead process is waited for.
ScanAnswer(c) ==
    /\ mpc = "scan" /\ Latest(c)
    /\ outbox[c] # <<>> /\ Save(c) /\ outbox' = [outbox EXCEPT ![c] = <<>>]
    /\ Unbusy(c)
    /\ rset' = rset \ {c}
    /\ UNCHANGED <<mpc, forced, info, client, stop, fate, faults>>

\* The busy processes with an event are looked at from the end of the list.
\* Without an event read_pdu() waits for one.
Scan(c) ==
    /\ mpc = "scan" /\ Latest(c)
    /\ \/ outbox[c] # <<>> /\ Save(c) /\ outbox' = [outbox EXCEPT ![c] = <<>>]
       \/ outbox[c] = <<>> /\ worker[c] = "dead" /\ Erase(c)
    /\ Unbusy(c)
    /\ rset' = rset \ {c}
    /\ UNCHANGED <<mpc, forced, info, client, stop, fate, faults>>

\* One idle process is added per turn.
Ensure ==
    /\ mpc = "scan" /\ rset \subseteq {Listen}
    /\ IF Cardinality(idle) < MinIdleProc /\ Cardinality(idle) + Len(busyList) < MaxProc
         THEN NewIdle \/ NoProcess
         ELSE UNCHANGED <<poolVars, workerVars, faults>>
    /\ mpc' = "top"
    /\ UNCHANGED <<loopVars, stop, fate>>

Shutdown ==
    /\ "shutdown" \in Faults
    /\ ~stop /\ mpc # "start"
    /\ stop' = TRUE
    /\ UNCHANGED <<poolVars, mpc, loopVars, workerVars, fate, faults>>

-----------------------------------------------------------------------------
(* A worker, SP_ProcWorkerInetAdapter::process().                          *)

\* handle() returns; the answer is read by the server or, after its end, by
\* nobody: with SIGPIPE ignored send_pdu() does not return.
WorkerServe(c) ==
    /\ worker[c] = "up" /\ inbox[c] # <<>>
    /\ inbox' = [inbox EXCEPT ![c] = Tail(@)]
    /\ fate' = [fate EXCEPT ![Head(inbox[c])] = "served"]
    /\ IF Open(c)
         THEN outbox' = [outbox EXCEPT ![c] = Append(@, c)] /\ UNCHANGED worker
         ELSE worker' = [worker EXCEPT ![c] = "stuck"] /\ UNCHANGED outbox
    /\ UNCHANGED <<poolVars, mpc, loopVars, stop, faults>>

WorkerEof(c) ==
    /\ worker[c] = "up" /\ inbox[c] = <<>> /\ ~Open(c)
    /\ worker' = [worker EXCEPT ![c] = "none"]
    /\ UNCHANGED <<poolVars, mpc, loopVars, stop, inbox, outbox, fate, faults>>

WorkerDie(c) ==
    /\ worker[c] = "up" /\ Open(c)
    /\ Fault("worker_exit")
    /\ worker' = [worker EXCEPT ![c] = "dead"]
    /\ inbox' = [inbox EXCEPT ![c] = <<>>]
    /\ fate' = [k \in Client |-> IF k \in ToSet(inbox[c]) THEN "lost" ELSE fate[k]]
    /\ UNCHANGED <<poolVars, mpc, loopVars, stop, outbox>>

Connect(k) ==
    /\ fate[k] = "new"
    /\ fate' = [fate EXCEPT ![k] = "pending"]
    /\ UNCHANGED <<poolVars, mpc, loopVars, stop, workerVars, faults>>

-----------------------------------------------------------------------------
ServerStep ==
    \/ StartEnsure \/ StartEnd \/ Top \/ Stopped \/ Select
    \/ \E c \in Conn : Get(c) \/ GetDrop(c) \/ Scan(c)
    \/ GetNull
    \/ \E k \in Client : Accept(k)
    \/ SendFd \/ SendFail \/ Ensure

WorkerStep(c) == WorkerServe(c) \/ WorkerEof(c)

Next ==
    \/ ServerStep
    \/ SelectStop \/ AcceptFail \/ Shutdown
    \/ \E c \in Conn : WorkerStep(c) \/ WorkerDie(c)
    \/ \E k \in Client : Connect(k)

Spec == Init /\ [][Next]_vars

\* The server and its workers are scheduled, handle() returns.  A signal need
\* not come, and a call need not fail.
FairSpec ==
    /\ Spec
    /\ WF_vars(ServerStep)
    /\ \A c \in Conn : WF_vars(WorkerStep(c))

-----------------------------------------------------------------------------
(* Properties.                                                             *)

\* The variables have their types, and a process that is lent is in busyList or
\* in the hands of the loop.
TypeOK ==
    /\ mpc \in {"start", "top", "select", "get", "accept", "send", "scan", "done"}
    /\ idle \subseteq Conn /\ lease \in [Conn -> Conn \cup {NoConn}]
    /\ busyList \in Seq(Conn) /\ IsInjective(busyList)
    /\ rset \subseteq ToSet(busyList) \cup {Listen}
    /\ {c \in Conn : lease[c] # NoConn} = ToSet(busyList) \cup ({info} \ {NoConn})
    /\ info \notin ToSet(busyList)
    /\ worker \in [Conn -> {"none", "up", "dead", "stuck"}]
    /\ fate \in [Client -> {"new", "pending", "accepted", "served", "lost"}]
    /\ faults \in 0..FaultBound

\* A process in busyList has a client, an answer or an end of file to be heard
\* of, so that it comes back; one in the pool has none, so that its next answer
\* is the one to its next client.
BusyHeard ==
    mpc # "done" =>
       \A c \in ToSet(busyList) :
          Len(inbox[c]) + Len(outbox[c]) = 1 \/ worker[c] = "dead"
IdleEmpty == \A c \in idle : inbox[c] = <<>> /\ outbox[c] = <<>>

\* The server never has more processes than mMaxProc, or mMinIdleProc when that
\* is more: the ones in the pool, the busy ones and the one get() returned.
ProcLimit == Cardinality({c \in Conn : c \in idle \/ lease[c] # NoConn}) <= ProcBound

\* A client that was accepted is in one place: with the loop, which is about to
\* pass it on, or alone in the pipe of one worker that runs; and nobody else is
\* in the pipes.  accept(), send_fd(), save() and the death of a worker neither
\* drop it nor let two of them work for it.
Placed ==
    /\ \A k \in Client : fate[k] = "accepted" =>
          \/ mpc = "send" /\ client = k
          \/ \E c \in Conn : inbox[c] = <<k>>
    /\ \A c \in Conn : inbox[c] # <<>> =>
          /\ worker[c] = "up"
          /\ \E k \in Client : inbox[c] = <<k>> /\ fate[k] = "accepted"
    /\ \A c, d \in Conn : inbox[c] # <<>> /\ inbox[c] = inbox[d] => c = d
    /\ mpc = "send" => fate[client] = "accepted" /\ \A c \in Conn : inbox[c] # <<client>>

\* The books of the server are right: which processes are busy, which are free,
\* how many there are, and who has which client.
Books == BusyHeard /\ IdleEmpty /\ ProcLimit /\ Placed

\* What became of a client is settled once: one that was served is not lost
\* later, nor one that was lost served, and neither comes back.
SettledOnce ==
    [][\A k \in Client : fate[k] \in {"served", "lost"} => fate'[k] = fate[k]]_vars

\* A client that has connected is served, also when it has to wait for a
\* process; or it is lost with the worker it was given to, or in accept() when
\* its connection is gone.  accept() that fails otherwise leaves it its turn.
AllServed ==
    \A k \in Client :
       fate[k] \in {"pending", "accepted"} ~> fate[k] \in {"served", "lost"} \/ stop

\* The server waits in select() without an event, or in accept() behind it
\* without a client.
Waiting ==
    \/ mpc = "select" /\ \A x \in rset : ~Ready(x)
    \/ mpc = "accept" /\ Pending = {}

\* After shutdown() the server ends with the next event: it does not unless
\* from some time on there is none, neither a client nor an answer.
StopEnds == stop ~> mpc = "done" \/ []Waiting

=============================================================================
