-------------------------- MODULE DatumDispatcher ---------------------------
(***************************************************************************)
(* SP_ProcDatumDispatcher: callers send requests to worker processes of    *)
(* the pool; one reply thread polls the pipes of the busy ones and hands   *)
(* replies to the handler.                                                 *)
(*                                                                         *)
(* The pool is the abstract one of ProcLease: a process is named by its    *)
(* connection, and a lease by the process, because a process taken by      *)
(* dispatch() is given back by the reply thread.                           *)
(***************************************************************************)
EXTENDS Integers, FiniteSets, Sequences, SequencesExt

CONSTANTS
    Caller,              \* threads that call dispatch()
    Req,                 \* requests, each dispatched once
    Conn,                \* pipes to worker processes
    MaxProc,             \* mMaxProc
    MaxRequestsPerProc, MaxIdleProc,   \* limits of the pool
    HupIn,               \* may poll() report POLLIN with a hang-up, or not
    SigpipeIgnored,      \* may the application ignore SIGPIPE, or not
    Faults,              \* failures that may happen
    NoConn, NoReq,
    Torn                 \* a reply cut short by the death of its worker

ASSUME DatumAssumption ==
    /\ MaxProc \in Nat
    /\ MaxRequestsPerProc \in Nat
    /\ MaxIdleProc \in Nat
    /\ HupIn \in (SUBSET BOOLEAN) \ {{}}
    /\ SigpipeIgnored \in (SUBSET BOOLEAN) \ {{}}
    /\ Faults \subseteq {"get_fail", "worker_exit", "torn", "thread_fail"}
    /\ NoConn \notin Conn
    /\ NoReq \notin Req /\ Torn \notin Req
    /\ IsFiniteSet(Caller) /\ Caller # {}

VARIABLES
    idle, lease, uses,  \* the pool
    busy,               \* mBusyList
    stop,               \* mIsStop
    app,                \* the application is up, or a signal has ended it
    cpc,                \* where each caller is
    creq,               \* its request
    cconn,              \* the process it was given
    rpc,                \* where the reply thread is, if there is one
    pfd,                \* pipes with events that it has not handled yet
    rconn,              \* the process it has taken from the busy list
    dpc,                \* where the destructor is
    worker,             \* the worker process of a pipe
    inbox, outbox,      \* what is in the pipe to the worker and from it
    asked,              \* the last request sent on a pipe
    outcome             \* what became of a request

poolVars   == <<idle, lease, uses>>
callVars   == <<cpc, creq, cconn>>
replyVars  == <<rpc, pfd, rconn>>
workerVars == <<worker, inbox, outbox, asked>>
vars == <<poolVars, busy, stop, app, callVars, replyVars, dpc, workerVars, outcome>>

Pool == INSTANCE ProcLease WITH Thread <- Conn

Settled == {"replied", "torn", "error", "lost"}
Outcome == {"new", "calling", "refused", "sent"} \cup Settled

\* The application has its end of the pipe open.
Open(c) == app = "up" /\ (c \in idle \/ lease[c] # NoConn)

\* The constructor makes the reply thread; that it could not is logged only.
Init ==
    /\ Pool!Init
    /\ busy = <<>>
    /\ stop = FALSE
    /\ app = "up"
    /\ cpc = [d \in Caller |-> "out"]
    /\ creq = [d \in Caller |-> NoReq]
    /\ cconn = [d \in Caller |-> NoConn]
    /\ rpc = "loop" \/ (rpc = "none" /\ "thread_fail" \in Faults)
    /\ pfd = {}
    /\ rconn = NoConn
    /\ dpc = "none"
    /\ worker = [c \in Conn |-> "none"]
    /\ inbox = [c \in Conn |-> <<>>]
    /\ outbox = [c \in Conn |-> <<>>]
    /\ asked = [c \in Conn |-> NoReq]
    /\ outcome = [r \in Req |-> "new"]

-----------------------------------------------------------------------------
(* dispatch()                                                              *)

Refuse(d) ==
    /\ cpc' = [cpc EXCEPT ![d] = "out"]
    /\ creq' = [creq EXCEPT ![d] = NoReq]
    /\ outcome' = [outcome EXCEPT ![creq[d]] = "refused"]

\* Of the requests that were not dispatched it is one, no matter which.
Dispatch(d, r) ==
    /\ app = "up" /\ dpc = "none"
    /\ cpc[d] = "out"
    /\ outcome[r] = "new" /\ r = CHOOSE q \in Req : outcome[q] = "new"
    /\ outcome' = [outcome EXCEPT ![r] = "calling"]
    /\ creq' = [creq EXCEPT ![d] = r]
    /\ cpc' = [cpc EXCEPT ![d] = "test"]
    /\ UNCHANGED <<poolVars, busy, stop, app, cconn, replyVars, dpc, workerVars>>

\* Mutant of BelowLimit: off by one.
BelowLimitLate == Len(busy) <= MaxProc

BelowLimit == Len(busy) < MaxProc

\* The length of the busy list is read without its mutex.
TestLimit(d) ==
    /\ app = "up" /\ cpc[d] = "test"
    /\ IF BelowLimit
         THEN cpc' = [cpc EXCEPT ![d] = "get"] /\ UNCHANGED <<creq, outcome>>
         ELSE Refuse(d)
    /\ UNCHANGED <<poolVars, busy, stop, app, cconn, replyVars, dpc, workerVars>>

Unused == {c \in Conn : worker[c] = "none"}

\* Of the pipes that are not in use create() gets one, no matter which.
NewConn == IF Unused = {} THEN NoConn ELSE CHOOSE c \in Unused : TRUE

\* SP_ProcPool::get() returns an idle process, which may be a zombie, or a new
\* one.
GetProc(d, c) ==
    /\ app = "up" /\ cpc[d] = "get"
    /\ Pool!Lend(c, c)
    /\ IF c \in idle
         THEN UNCHANGED worker
         ELSE c = NewConn /\ worker' = [worker EXCEPT ![c] = "up"]
    /\ cconn' = [cconn EXCEPT ![d] = c]
    /\ cpc' = [cpc EXCEPT ![d] = "send"]
    /\ UNCHANGED <<busy, stop, app, creq, replyVars, dpc, inbox, outbox, asked, outcome>>

\* get() drops an idle process that does not exist.
GetDrop(d, c) ==
    /\ app = "up" /\ cpc[d] = "get"
    /\ worker[c] = "dead"
    /\ Pool!Discard(c)
    /\ worker' = [worker EXCEPT ![c] = "none"]
    /\ UNCHANGED <<busy, stop, app, callVars, replyVars, dpc, inbox, outbox, asked, outcome>>

\* Mutant of GetFail: the NULL is not noticed.
GetFailUnseen(d) ==
    /\ app = "up" /\ cpc[d] = "get"
    /\ "get_fail" \in Faults \/ Unused = {}
    /\ cpc' = [cpc EXCEPT ![d] = "send"]
    /\ UNCHANGED <<poolVars, busy, stop, app, creq, cconn, replyVars, dpc, workerVars,
                   outcome>>

\* get() fails, at the latest when there is no pipe left.
GetFail(d) ==
    /\ app = "up" /\ cpc[d] = "get"
    /\ "get_fail" \in Faults \/ Unused = {}
    /\ Refuse(d)
    /\ UNCHANGED <<poolVars, busy, stop, app, cconn, replyVars, dpc, workerVars>>

\* getProcPool()->ensureIdleProc() of the application.
EnsureIdle(c) ==
    /\ app = "up" /\ dpc = "none"
    /\ c = NewConn
    /\ Pool!Prefork(c)
    /\ worker' = [worker EXCEPT ![c] = "up"]
    /\ UNCHANGED <<busy, stop, app, callVars, replyVars, dpc, inbox, outbox, asked, outcome>>

\* The process is in the hands of the reply thread as soon as it is in the
\* busy list; send_pdu() never returns an error.
Send(d) ==
    /\ app = "up" /\ cpc[d] = "send"
    /\ worker[cconn[d]] # "dead"
    /\ inbox' = [inbox EXCEPT ![cconn[d]] = Append(@, creq[d])]
    /\ asked' = [asked EXCEPT ![cconn[d]] = creq[d]]
    /\ cpc' = [cpc EXCEPT ![d] = "append"]
    /\ UNCHANGED <<poolVars, busy, stop, app, creq, cconn, replyVars, dpc, worker,
                   outbox, outcome>>

\* The worker has died since get() looked for it: SIGPIPE ends the application
\* or, when it is ignored, writen() never returns.
SendBroken(d) ==
    /\ app = "up" /\ cpc[d] = "send"
    /\ worker[cconn[d]] = "dead"
    /\ \/ /\ TRUE \in SigpipeIgnored
          /\ cpc' = [cpc EXCEPT ![d] = "stuck"] /\ UNCHANGED app
       \/ /\ FALSE \in SigpipeIgnored /\ \A e \in Caller : cpc[e] # "stuck"
          /\ app' = "gone" /\ UNCHANGED cpc
    /\ UNCHANGED <<poolVars, busy, stop, creq, cconn, replyVars, dpc, workerVars, outcome>>

AppendBusy(d) ==
    /\ app = "up" /\ cpc[d] = "append"
    /\ busy' = Append(busy, cconn[d])
    /\ outcome' = [outcome EXCEPT ![creq[d]] = "sent"]
    /\ cpc' = [cpc EXCEPT ![d] = "out"]
    /\ creq' = [creq EXCEPT ![d] = NoReq]
    /\ cconn' = [cconn EXCEPT ![d] = NoConn]
    /\ UNCHANGED <<poolVars, stop, app, replyVars, dpc, workerVars>>

-----------------------------------------------------------------------------
(* checkReply()                                                            *)

Ready(c) == outbox[c] # <<>> \/ worker[c] = "dead"

\* conv2pollfd() copies the list, poll() finds the pipes with events; without
\* any the loop starts again, after a timeout at most.
Poll ==
    /\ app = "up" /\ rpc = "loop"
    /\ \E c \in ToSet(busy) : Ready(c)
    /\ pfd' = {c \in ToSet(busy) : Ready(c)}
    /\ rpc' = "next"
    /\ UNCHANGED <<poolVars, busy, stop, app, callVars, rconn, dpc, workerVars, outcome>>

\* The copy has the order of the list, which grows at the end only.
First(c) ==
    c \in pfd /\ \A i, j \in 1..Len(busy) : busy[i] = c /\ j < i => busy[j] \notin pfd

\* Mutant of TakeBusy: the process stays in the busy list.
TakeBusyKept ==
    /\ app = "up" /\ rpc = "next"
    /\ \E c \in Conn :
          /\ First(c)
          /\ rconn' = c
          /\ pfd' = pfd \ {c}
    /\ rpc' = "read"
    /\ UNCHANGED <<poolVars, busy, stop, app, callVars, dpc, workerVars, outcome>>

\* takeByPipeFd(); "found a not exists fd" when another has taken the process.
TakeBusy ==
    /\ app = "up" /\ rpc = "next"
    /\ \E c \in Conn :
          /\ First(c)
          /\ IF c \in ToSet(busy)
               THEN /\ \E i \in 1..Len(busy) : busy[i] = c /\ busy' = RemoveAt(busy, i)
                    /\ rconn' = c /\ rpc' = "read"
               ELSE UNCHANGED <<busy, rconn, rpc>>
          /\ pfd' = pfd \ {c}
    /\ UNCHANGED <<poolVars, stop, app, callVars, dpc, workerVars, outcome>>

NextTurn ==
    /\ app = "up" /\ rpc = "next" /\ pfd = {}
    /\ rpc' = "loop"
    /\ UNCHANGED <<poolVars, busy, stop, app, callVars, pfd, rconn, dpc, workerVars, outcome>>

\* Mutant of ReadReply: the reply of an earlier call is left in the pipe.
ReadReplyKept ==
    /\ app = "up" /\ rpc = "read"
    /\ outbox[rconn] # <<>>
    /\ outcome' = [outcome EXCEPT ![asked[rconn]] =
                     IF Head(outbox[rconn]) = Torn THEN "torn" ELSE "replied"]
    /\ rpc' = "save"
    /\ UNCHANGED <<poolVars, busy, stop, app, callVars, pfd, rconn, dpc, workerVars>>

\* read_pdu() > 0, also for a reply cut short: onReply() is called.
ReadReply ==
    /\ app = "up" /\ rpc = "read"
    /\ outbox[rconn] # <<>>
    /\ outbox' = [outbox EXCEPT ![rconn] = Tail(@)]
    /\ outcome' = [outcome EXCEPT ![asked[rconn]] =
                     IF Head(outbox[rconn]) = Torn THEN "torn" ELSE "replied"]
    /\ rpc' = "save"
    /\ UNCHANGED <<poolVars, busy, stop, app, callVars, pfd, rconn, dpc, worker,
                   inbox, asked>>

\* End of file.  With POLLIN there is nothing to read and the process is erased
\* without a word; without, onError() is called first.
ReadEnd ==
    /\ app = "up" /\ rpc = "read"
    /\ outbox[rconn] = <<>>
    /\ \E in \in HupIn :
          outcome' = [outcome EXCEPT ![asked[rconn]] = IF in THEN "lost" ELSE "error"]
    /\ rpc' = "erase"
    /\ UNCHANGED <<poolVars, busy, stop, app, callVars, pfd, rconn, dpc, workerVars>>

\* The pipe of a process is closed: a dead one is no more, another leaves when
\* it reads the end of its input.
Close(c) ==
    /\ worker' = [worker EXCEPT ![c] = IF @ = "dead" THEN "none" ELSE @]
    /\ outbox' = [outbox EXCEPT ![c] = <<>>]
    /\ asked' = [asked EXCEPT ![c] = NoReq]
    /\ UNCHANGED inbox

\* Mutant of Save: a process that may not be kept stays leased.
SaveLost ==
    /\ app = "up" /\ rpc = "save"
    /\ IF Pool!MayLend(rconn) /\ Pool!MayKeep
         THEN Pool!GiveBack(rconn)
         ELSE UNCHANGED poolVars
    /\ rpc' = "next"
    /\ rconn' = NoConn
    /\ UNCHANGED <<busy, stop, app, callVars, pfd, dpc, workerVars, outcome>>

\* SP_ProcPool::save()
Save ==
    /\ app = "up" /\ rpc = "save"
    /\ IF Pool!MayLend(rconn) /\ Pool!MayKeep
         THEN Pool!GiveBack(rconn) /\ UNCHANGED workerVars
         ELSE Pool!Retire(rconn) /\ Close(rconn)
    /\ rpc' = "next"
    /\ rconn' = NoConn
    /\ UNCHANGED <<busy, stop, app, callVars, pfd, dpc, outcome>>

\* SP_ProcPool::erase()
Erase ==
    /\ app = "up" /\ rpc = "erase"
    /\ Pool!Retire(rconn) /\ Close(rconn)
    /\ rpc' = "next"
    /\ rconn' = NoConn
    /\ UNCHANGED <<busy, stop, app, callVars, pfd, dpc, outcome>>

\* Mutant of ReplyExit: the loop ends as soon as mIsStop is set.
ReplyExitEarly ==
    /\ app = "up" /\ rpc = "loop"
    /\ stop
    /\ rpc' = "gone"
    /\ dpc' = IF dpc = "wait" THEN "woken" ELSE dpc
    /\ UNCHANGED <<poolVars, busy, stop, app, callVars, pfd, rconn, workerVars, outcome>>

\* Mutant of ReplyExit: mCond is signalled without mMutex, perhaps before the
\* destructor waits.
ReplyExitUnlocked ==
    /\ app = "up" /\ rpc = "loop"
    /\ stop /\ busy = <<>>
    /\ rpc' = "gone"
    /\ dpc' \in {dpc, "woken"}
    /\ UNCHANGED <<poolVars, busy, stop, app, callVars, pfd, rconn, workerVars, outcome>>

\* The loop ends and mCond is signalled.
ReplyExit ==
    /\ app = "up" /\ rpc = "loop"
    /\ stop /\ busy = <<>>
    /\ rpc' = "gone"
    /\ dpc' = IF dpc = "wait" THEN "woken" ELSE dpc
    /\ UNCHANGED <<poolVars, busy, stop, app, callVars, pfd, rconn, workerVars, outcome>>

-----------------------------------------------------------------------------
(* ~SP_ProcDatumDispatcher                                                 *)

\* mMutex is held from mIsStop = 1 to the wait.  No dispatch() is in progress.
Destroy ==
    /\ app = "up" /\ dpc = "none"
    /\ \A d \in Caller : cpc[d] = "out"
    /\ stop' = TRUE
    /\ dpc' = "wait"
    /\ UNCHANGED <<poolVars, busy, app, callVars, replyVars, workerVars, outcome>>

\* The pool is deleted and with it the pipes of the idle processes.
DestroyEnd ==
    /\ app = "up" /\ dpc = "woken"
    /\ dpc' = "done"
    /\ Pool!Shut
    /\ worker' = [c \in Conn |-> IF worker[c] = "dead" THEN "none" ELSE worker[c]]
    /\ UNCHANGED <<busy, stop, app, callVars, replyVars, inbox, outbox, asked, outcome>>

-----------------------------------------------------------------------------
(* The worker process of a pipe.                                           *)

WorkerRead(c) ==
    /\ worker[c] = "up" /\ inbox[c] # <<>>
    /\ worker' = [worker EXCEPT ![c] = "work"]
    /\ UNCHANGED <<poolVars, busy, stop, app, callVars, replyVars, dpc, inbox, outbox,
                   asked, outcome>>

\* Mutant of WorkerReply: no reply is sent when handle() has none to give.
WorkerReplyNone(c) ==
    /\ worker[c] = "work"
    /\ inbox' = [inbox EXCEPT ![c] = Tail(@)]
    /\ worker' = [worker EXCEPT ![c] = IF Open(c) THEN "up" ELSE "none"]
    /\ UNCHANGED <<poolVars, busy, stop, app, callVars, replyVars, dpc, outbox, asked, outcome>>

\* handle() returns and the reply is sent.  Nobody reads it when the pipe was
\* closed: the worker ends.
WorkerReply(c) ==
    /\ worker[c] = "work"
    /\ inbox' = [inbox EXCEPT ![c] = Tail(@)]
    /\ IF Open(c)
         THEN /\ outbox' = [outbox EXCEPT ![c] = Append(@, Head(inbox[c]))]
              /\ worker' = [worker EXCEPT ![c] = "up"]
         ELSE worker' = [worker EXCEPT ![c] = "none"] /\ UNCHANGED outbox
    /\ UNCHANGED <<poolVars, busy, stop, app, callVars, replyVars, dpc, asked, outcome>>

\* Mutant of WorkerEof: the worker reads on.
WorkerEofIgnored(c) ==
    /\ worker[c] = "up" /\ inbox[c] = <<>> /\ ~Open(c)
    /\ UNCHANGED vars

WorkerEof(c) ==
    /\ worker[c] = "up" /\ inbox[c] = <<>> /\ ~Open(c)
    /\ worker' = [worker EXCEPT ![c] = "none"]
    /\ UNCHANGED <<poolVars, busy, stop, app, callVars, replyVars, dpc, inbox, outbox,
                   asked, outcome>>

\* The worker dies, perhaps in the middle of a reply.
WorkerDie(c) ==
    /\ "worker_exit" \in Faults
    /\ worker[c] \in {"up", "work"} /\ Open(c)
    /\ worker' = [worker EXCEPT ![c] = "dead"]
    /\ inbox' = [inbox EXCEPT ![c] = <<>>]
    /\ \/ UNCHANGED outbox
       \/ /\ "torn" \in Faults /\ worker[c] = "work"
          /\ outbox' = [outbox EXCEPT ![c] = Append(@, Torn)]
    /\ UNCHANGED <<poolVars, busy, stop, app, callVars, replyVars, dpc, asked, outcome>>

-----------------------------------------------------------------------------
CallerStep(d) ==
    \/ TestLimit(d)
    \/ (\E c \in Conn : GetProc(d, c) \/ GetDrop(d, c)) \/ GetFail(d)
    \/ Send(d) \/ SendBroken(d) \/ AppendBusy(d)

ReplyStep ==
    \/ Poll \/ TakeBusy \/ NextTurn
    \/ ReadReply \/ ReadEnd
    \/ Save \/ Erase \/ ReplyExit

WorkerStep(c) == WorkerRead(c) \/ WorkerReply(c) \/ WorkerEof(c)

Next ==
    \/ \E d \in Caller : CallerStep(d) \/ \E r \in Req : Dispatch(d, r)
    \/ ReplyStep
    \/ Destroy
    \/ DestroyEnd
    \/ \E c \in Conn : EnsureIdle(c) \/ WorkerStep(c) \/ WorkerDie(c)

Spec == Init /\ [][Next]_vars

\* Calls, the reply thread and the destructor go on, and handle() returns.
Fairness ==
    /\ \A d \in Caller : WF_vars(CallerStep(d))
    /\ WF_vars(ReplyStep)
    /\ WF_vars(DestroyEnd)
    /\ \A c \in Conn : WF_vars(WorkerStep(c))

FairSpec == Spec /\ Fairness

-----------------------------------------------------------------------------
(* Properties.                                                             *)

InHand == {d \in Caller : cpc[d] \in {"send", "append", "stuck"}}

PoolType ==
    /\ idle \subseteq Conn
    /\ lease \in [Conn -> Conn \cup {NoConn}]
    /\ uses \in [Conn -> Nat]

CallType ==
    /\ cpc \in [Caller -> {"out", "test", "get", "send", "append", "stuck"}]
    /\ creq \in [Caller -> Req \cup {NoReq}]
    /\ cconn \in [Caller -> Conn \cup {NoConn}]
    /\ \A d \in Caller : (creq[d] = NoReq) = (cpc[d] = "out")
    /\ \A d \in Caller : (cconn[d] = NoConn) = (d \notin InHand)
    /\ outcome \in [Req -> Outcome]

ReplyType ==
    /\ busy \in Seq(Conn) /\ pfd \subseteq Conn
    /\ rpc \in {"none", "loop", "next", "read", "save", "erase", "gone"}
    /\ rconn \in Conn \cup {NoConn}
    /\ (rconn = NoConn) = (rpc \notin {"read", "save", "erase"})

WorkerType ==
    /\ worker \in [Conn -> {"none", "up", "work", "dead"}]
    /\ inbox \in [Conn -> Seq(Req)]
    /\ outbox \in [Conn -> Seq(Req \cup {Torn})]
    /\ asked \in [Conn -> Req \cup {NoReq}]

\* The variables have their types, and a thread holds a process exactly where
\* its code has one in a variable.
TypeOK ==
    /\ PoolType /\ CallType /\ ReplyType /\ WorkerType
    /\ stop \in BOOLEAN
    /\ app \in {"up", "gone"}
    /\ dpc \in {"none", "wait", "woken", "done"}

\* A leased process is in one place: with a caller of dispatch(), in the busy
\* list or with the reply thread.  So the reply thread never takes one that is
\* still being sent to, no process is lost between the two, and each pipe that
\* poll() reported is still in the list when its turn comes.
Owned ==
    /\ \A c \in Conn : lease[c] \in {c, NoConn}
    /\ Pool!Lent = {cconn[d] : d \in InHand} \cup ToSet(busy) \cup ({rconn} \ {NoConn})
    /\ \A d, e \in InHand : cconn[d] = cconn[e] => d = e
    /\ \A d \in InHand : cconn[d] \notin ToSet(busy) \cup {rconn}
    /\ rconn \notin ToSet(busy)
    /\ IsInjective(busy)
    /\ pfd \subseteq ToSet(busy)
    /\ idle \cap Pool!Lent = {}

\* The worker of a pipe has the request last sent on it and is going to answer.
Answering(c) == worker[c] \in {"up", "work"} /\ inbox[c] = <<asked[c]>>

\* Nothing in a PDU names its request.  A reply belongs to the request that was
\* last sent on its pipe, because a process that goes back to the pool has
\* nothing left to read or to say.  And for each pipe of the busy list poll()
\* has something to wait for: its request is with a worker that lives, its
\* reply is in the pipe, or the worker is dead.
ReplyMatches ==
    /\ \A c \in Conn : Open(c) => ToSet(outbox[c]) \subseteq {asked[c], Torn}
    /\ \A c \in Conn : Open(c) => Len(inbox[c]) + Len(outbox[c]) <= 1
    /\ app = "up" =>
          \A c \in idle : inbox[c] = <<>> /\ outbox[c] = <<>> /\ worker[c] # "work"
    /\ \A i \in 1..Len(busy) : outcome[asked[busy[i]]] = "sent"
    /\ app = "up" => \A c \in ToSet(busy) : Ready(c) \/ Answering(c)

\* dispatch() tests mMaxProc before it takes a process: every caller but one
\* may exceed it, and no more than that.
BusyBound ==
    Len(busy) + Cardinality({d \in Caller : cpc[d] \notin {"out", "test"}})
        <= MaxProc - 1 + Cardinality(Caller)

\* When the destructor goes on, every request that was sent has had its reply
\* or its error and no process is left out of the pool that is deleted; while
\* it waits, the reply thread is there to wake it, if there ever was one.
DrainedOnDelete ==
    /\ dpc \in {"woken", "done"} =>
          /\ busy = <<>> /\ Pool!Lent = {}
          /\ \A r \in Req : outcome[r] # "sent"
    /\ dpc = "wait" => rpc # "gone"

\* A request comes to one end: what onReply() or onError() was told of it, or
\* dispatch() returned, is never taken back.
SettledOnce ==
    [][\A r \in Req : outcome[r] \in Settled \cup {"refused"} => outcome'[r] = outcome[r]]_vars

\* A request for which dispatch() returned a pid comes to an end, also when its
\* worker dies; only an application that is gone, or that got no reply thread from
\* the constructor, does not see it.
Settles ==
    \A r \in Req :
       outcome[r] = "sent" ~> outcome[r] \in Settled \/ app = "gone" \/ rpc = "none"

\* The reply thread's signal is not lost: the destructor holds mMutex from
\* mIsStop = 1 until it waits.  Without a reply thread nobody wakes it.
DestructorEnds == dpc = "wait" ~> dpc = "done" \/ rpc = "none"

\* The workers of a pool that is deleted, or of an application that is gone,
\* end.
WorkersEnd == (dpc = "done" \/ app = "gone") ~> \A c \in Conn : worker[c] \notin {"up", "work"}

\* checkReply() says "dispatch reply/error": no request ends without one.
ReplyOrError == \A r \in Req : outcome[r] # "lost"

=============================================================================
