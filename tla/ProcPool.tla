------------------------------ MODULE ProcPool ------------------------------
(***************************************************************************)
(* SP_ProcPool and SP_ProcManager: threads of the application borrow       *)
(* worker processes from a pool; a manager process, reached through one    *)
(* Unix-domain channel, forks a worker for every descriptor it receives.   *)
(*                                                                         *)
(* A connection stands for one socketpair(): its app end is pipeFd[1] of   *)
(* SP_ProcPool::create, its worker end pipeFd[0].  An SP_ProcInfo is named *)
(* by the connection it wraps.  Process ids are reused, as the kernel      *)
(* reuses them.                                                            *)
(***************************************************************************)
EXTENDS Integers, FiniteSets, Sequences, SequencesExt

CONSTANTS
    Thread,              \* threads of the application that call the pool
    Conn,                \* socketpairs that can exist at once (descriptor limit)
    Pid,                 \* ids of worker processes (process limit)
    MaxRequestsPerProc,  \* mMaxRequestsPerProc, 0 for unlimited
    MaxIdleProc,         \* mMaxIdleProc, 0 for unlimited
    Wanted,              \* arguments the application gives to ensureIdleProc
    Faults,              \* the failures of the environment a run admits
    SigpipeIgnored,      \* the application ignores SIGPIPE (inherited by fork)
    SaRestart,           \* signal() restarts an interrupted recvmsg()
    RequestBound,        \* no get() starts once an info has counted so many
    NoThread, NoConn, NoPid,
    ForkError            \* mSrcPid of a PDU that reports an errno

FaultKind == {"socketpair_fail", "fork_fail", "worker_exit", "mgr_kill",
              "app_exit", "destroy"}

ASSUME ConstantAssumption ==
    /\ MaxRequestsPerProc \in Nat
    /\ MaxIdleProc \in Nat
    /\ RequestBound \in Nat
    /\ Wanted \subseteq Nat
    /\ Faults \subseteq FaultKind
    /\ SigpipeIgnored \in BOOLEAN
    /\ SaRestart \in BOOLEAN

ASSUME NullAssumption ==
    /\ NoThread \notin Thread
    /\ NoConn \notin Conn
    /\ NoPid \notin Pid
    /\ ForkError \notin Pid
    /\ ForkError # NoPid

VARIABLES
    app,       \* the application: the pool is usable, destroyed, or exited
    mutex,     \* the thread that holds mMutex
    list,      \* mList, the idle infos in the order they were appended
    requests,  \* SP_ProcInfo::mRequests
    pid,       \* SP_ProcInfo::mPid
    open,      \* connections whose app end is open in the application
    ends,      \* connections whose worker end is open in the application
    pc,        \* where each thread is
    held,      \* the connection in a thread's local variables
    todo,      \* processes ensureIdleProc still has to create; 0 inside get()
    fdQ,       \* descriptors sent to the manager and not yet received
    pduQ,      \* replies of the manager not yet read
    mgr,       \* where the manager process is
    mgrFd,     \* the worker end it received
    mgrOpen,   \* worker ends that are open in the manager
    mgrPdu,    \* mSrcPid of the reply it prepares
    eintr,     \* errno of the manager is EINTR
    worker,    \* the process forked for a connection
    wpid,      \* the id of that process
    sigchld    \* a SIGCHLD waits to be handled by the manager

appVars  == <<app, mutex, list, requests, pid, open, ends, pc, held, todo>>
chanVars == <<fdQ, pduQ>>
mgrVars  == <<mgr, mgrFd, mgrOpen, mgrPdu, eintr>>
procVars == <<worker, wpid, sigchld>>
vars     == <<appVars, chanVars, mgrVars, procVars>>

AppState  == {"up", "destroyed", "gone"}
Location  == {"out", "get", "take", "make", "connect", "await", "have",
              "save", "ensure", "count"}
MgrState  == {"recv", "fork", "reply", "close", "spin", "dead"}
ProcState == {"none", "live", "zombie"}

-----------------------------------------------------------------------------
(* What the environment shows.                                             *)

\* kill(p, 0) succeeds: some process, be it a zombie, has the id.
Exists(p) == \E c \in Conn : worker[c] # "none" /\ wpid[c] = p

FreePid == {p \in Pid : ~Exists(p)}

InUse == open \cup ends \cup mgrOpen \cup ToSet(fdQ) \cup {held[t] : t \in Thread}

\* Connections no descriptor and no process refers to any more.
FreeConn == {c \in Conn : c \notin InUse /\ worker[c] = "none"}

\* Every copy of the manager's end of the channel is closed: the workers
\* inherited one each and keep it.
ChannelClosed == mgr = "dead" /\ \A c \in Conn : worker[c] # "live"

Listed == ToSet(list)

Held == {held[t] : t \in Thread} \ {NoConn}

\* The infos the application owns or is about to make.
Owned == Listed \cup Held

Goto(t, loc) == pc' = [pc EXCEPT ![t] = loc]

\* delete info: its descriptor is closed, pid and requests are no more.
Delete(infos) ==
    /\ open' = open \ infos
    /\ pid' = [c \in Conn |-> IF c \in infos THEN NoPid ELSE pid[c]]
    /\ requests' = [c \in Conn |-> IF c \in infos THEN 0 ELSE requests[c]]

Init ==
    /\ app = "up"
    /\ mutex = NoThread
    /\ list = <<>>
    /\ requests = [c \in Conn |-> 0]
    /\ pid = [c \in Conn |-> NoPid]
    /\ open = {}
    /\ ends = {}
    /\ pc = [t \in Thread |-> "out"]
    /\ held = [t \in Thread |-> NoConn]
    /\ todo = [t \in Thread |-> 0]
    /\ fdQ = <<>>
    /\ pduQ = <<>>
    /\ mgr = "recv"
    /\ mgrFd = NoConn
    /\ mgrOpen = {}
    /\ mgrPdu = NoPid
    /\ eintr = FALSE
    /\ worker = [c \in Conn |-> "none"]
    /\ wpid = [c \in Conn |-> NoPid]
    /\ sigchld = FALSE

-----------------------------------------------------------------------------
(* SP_ProcPool::get                                                        *)

Get(t) ==
    /\ app = "up"
    /\ pc[t] = "out"
    /\ \A c \in Conn : requests[c] < RequestBound
    /\ Goto(t, "get")
    /\ UNCHANGED <<app, mutex, list, requests, pid, open, ends, held, todo,
                   chanVars, mgrVars, procVars>>

GetLock(t) ==
    /\ pc[t] = "get"
    /\ mutex = NoThread
    /\ mutex' = t
    /\ Goto(t, "take")
    /\ UNCHANGED <<app, list, requests, pid, open, ends, held, todo, chanVars,
                   mgrVars, procVars>>

\* Mutant of TakeLive: the info is looked up with getItem(), not takeItem().
TakeLiveKept(t) ==
    /\ pc[t] = "take"
    /\ list # <<>>
    /\ Exists(pid[Last(list)])
    /\ held' = [held EXCEPT ![t] = Last(list)]
    /\ requests' = [requests EXCEPT ![Last(list)] = @ + 1]
    /\ mutex' = NoThread
    /\ Goto(t, "have")
    /\ UNCHANGED <<app, list, pid, open, ends, todo, chanVars, mgrVars,
                   procVars>>

\* Mutant of TakeLive: get() does not count the request.
TakeLiveUncounted(t) ==
    /\ pc[t] = "take"
    /\ list # <<>>
    /\ Exists(pid[Last(list)])
    /\ list' = Front(list)
    /\ held' = [held EXCEPT ![t] = Last(list)]
    /\ mutex' = NoThread
    /\ Goto(t, "have")
    /\ UNCHANGED <<app, requests, pid, open, ends, todo, chanVars, mgrVars,
                   procVars>>

\* The last idle info is taken and its process exists: it is returned.
TakeLive(t) ==
    /\ pc[t] = "take"
    /\ list # <<>>
    /\ Exists(pid[Last(list)])
    /\ list' = Front(list)
    /\ held' = [held EXCEPT ![t] = Last(list)]
    /\ requests' = [requests EXCEPT ![Last(list)] = @ + 1]
    /\ mutex' = NoThread
    /\ Goto(t, "have")
    /\ UNCHANGED <<app, pid, open, ends, todo, chanVars, mgrVars, procVars>>

\* Its process does not exist: the info is deleted and the loop goes on.
TakeDead(t) ==
    /\ pc[t] = "take"
    /\ list # <<>>
    /\ ~Exists(pid[Last(list)])
    /\ list' = Front(list)
    /\ Delete({Last(list)})
    /\ UNCHANGED <<app, mutex, ends, pc, held, todo, chanVars, mgrVars,
                   procVars>>

TakeNone(t) ==
    /\ pc[t] = "take"
    /\ list = <<>>
    /\ mutex' = NoThread
    /\ Goto(t, "make")
    /\ UNCHANGED <<app, list, requests, pid, open, ends, held, todo, chanVars,
                   mgrVars, procVars>>

-----------------------------------------------------------------------------
(* SP_ProcPool::create, called by get() and by ensureIdleProc().           *)

\* Where the caller continues when create() returned NULL.
AfterFailure(t) == IF todo[t] = 0 THEN "out" ELSE "count"

MakePair(t, c) ==
    /\ pc[t] = "make"
    /\ c \in FreeConn
    /\ open' = open \cup {c}
    /\ ends' = ends \cup {c}
    /\ held' = [held EXCEPT ![t] = c]
    /\ Goto(t, "connect")
    /\ UNCHANGED <<app, mutex, list, requests, pid, todo,
                   chanVars, mgrVars, procVars>>

MakeFail(t) ==
    /\ pc[t] = "make"
    /\ FreeConn = {} \/ "socketpair_fail" \in Faults
    /\ Goto(t, AfterFailure(t))
    /\ todo' = [todo EXCEPT ![t] = 0]
    /\ UNCHANGED <<app, mutex, list, requests, pid, open, ends, held, chanVars,
                   mgrVars, procVars>>

\* Mutant of SendFd: mMutex is released before the reply is read.
SendFdUnlocked(t) ==
    /\ pc[t] = "connect"
    /\ mutex = NoThread
    /\ ~ChannelClosed
    /\ fdQ' = Append(fdQ, held[t])
    /\ Goto(t, "await")
    /\ UNCHANGED <<app, mutex, list, requests, pid, open, ends, held, todo,
                   pduQ, mgrVars, procVars>>

SendFd(t) ==
    /\ pc[t] = "connect"
    /\ mutex = NoThread
    /\ ~ChannelClosed
    /\ mutex' = t
    /\ fdQ' = Append(fdQ, held[t])
    /\ Goto(t, "await")
    /\ UNCHANGED <<app, list, requests, pid, open, ends, held, todo, pduQ,
                   mgrVars, procVars>>

\* Mutant of ReadReply: the test mSrcPid > 0 is missing, an errno is a pid.
ReadReplyUnchecked(t) ==
    /\ pc[t] = "await"
    /\ pduQ # <<>>
    /\ pduQ' = Tail(pduQ)
    /\ pid' = [pid EXCEPT ![held[t]] = Head(pduQ)]
    /\ requests' = [requests EXCEPT ![held[t]] = IF todo[t] = 0 THEN 1 ELSE 0]
    /\ ends' = ends \ {held[t]}
    /\ mutex' = NoThread
    /\ Goto(t, IF todo[t] = 0 THEN "have" ELSE "save")
    /\ UNCHANGED <<app, list, open, held, todo, fdQ, mgrVars, procVars>>

\* Mutant of ReadReply: pipeFd[0] is closed only when there is no process.
ReadReplyKept(t) ==
    /\ pc[t] = "await"
    /\ pduQ # <<>>
    /\ Head(pduQ) \in Pid
    /\ pduQ' = Tail(pduQ)
    /\ pid' = [pid EXCEPT ![held[t]] = Head(pduQ)]
    /\ requests' = [requests EXCEPT ![held[t]] = IF todo[t] = 0 THEN 1 ELSE 0]
    /\ mutex' = NoThread
    /\ Goto(t, IF todo[t] = 0 THEN "have" ELSE "save")
    /\ UNCHANGED <<app, list, open, ends, held, todo, fdQ, mgrVars, procVars>>

\* The reply names a process: a new info, which get() counts as used once, has
\* pipeFd[1]; pipeFd[0] is closed.
ReadReply(t) ==
    /\ pc[t] = "await"
    /\ pduQ # <<>>
    /\ Head(pduQ) \in Pid
    /\ pduQ' = Tail(pduQ)
    /\ pid' = [pid EXCEPT ![held[t]] = Head(pduQ)]
    /\ requests' = [requests EXCEPT ![held[t]] = IF todo[t] = 0 THEN 1 ELSE 0]
    /\ ends' = ends \ {held[t]}
    /\ mutex' = NoThread
    /\ Goto(t, IF todo[t] = 0 THEN "have" ELSE "save")
    /\ UNCHANGED <<app, list, open, held, todo, fdQ, mgrVars, procVars>>

\* Mutant of ReadError: pipeFd[1] is not closed.
ReadErrorLeak(t) ==
    /\ pc[t] = "await"
    /\ \/ pduQ # <<>> /\ Head(pduQ) = ForkError /\ pduQ' = Tail(pduQ)
       \/ pduQ = <<>> /\ ChannelClosed /\ pduQ' = pduQ
    /\ ends' = ends \ {held[t]}
    /\ held' = [held EXCEPT ![t] = NoConn]
    /\ mutex' = NoThread
    /\ Goto(t, AfterFailure(t))
    /\ todo' = [todo EXCEPT ![t] = 0]
    /\ UNCHANGED <<app, list, requests, pid, open, fdQ, mgrVars, procVars>>

\* Mutant of ReadError: the error path returns without unlocking mMutex.
ReadErrorLocked(t) ==
    /\ pc[t] = "await"
    /\ \/ pduQ # <<>> /\ Head(pduQ) = ForkError /\ pduQ' = Tail(pduQ)
       \/ pduQ = <<>> /\ ChannelClosed /\ pduQ' = pduQ
    /\ open' = open \ {held[t]}
    /\ ends' = ends \ {held[t]}
    /\ held' = [held EXCEPT ![t] = NoConn]
    /\ Goto(t, AfterFailure(t))
    /\ todo' = [todo EXCEPT ![t] = 0]
    /\ UNCHANGED <<app, mutex, list, requests, pid, fdQ, mgrVars, procVars>>

\* The reply is an errno, or read_pdu met the end of the channel: both ends
\* of the pair are closed.
ReadError(t) ==
    /\ pc[t] = "await"
    /\ \/ pduQ # <<>> /\ Head(pduQ) = ForkError /\ pduQ' = Tail(pduQ)
       \/ pduQ = <<>> /\ ChannelClosed /\ pduQ' = pduQ
    /\ open' = open \ {held[t]}
    /\ ends' = ends \ {held[t]}
    /\ held' = [held EXCEPT ![t] = NoConn]
    /\ mutex' = NoThread
    /\ Goto(t, AfterFailure(t))
    /\ todo' = [todo EXCEPT ![t] = 0]
    /\ UNCHANGED <<app, list, requests, pid, fdQ, mgrVars, procVars>>

-----------------------------------------------------------------------------
(* SP_ProcPool::save and erase                                             *)

\* The caller of get() is done with its process and gives it back.
Return(t) ==
    /\ pc[t] = "have"
    /\ Goto(t, "save")
    /\ UNCHANGED <<app, mutex, list, requests, pid, open, ends, held, todo,
                   chanVars, mgrVars, procVars>>

\* Mutant of Worn: off by one.
WornLate(c) == MaxRequestsPerProc > 0 /\ requests[c] > MaxRequestsPerProc

Worn(c) == MaxRequestsPerProc > 0 /\ requests[c] >= MaxRequestsPerProc

\* Mutant of EnoughIdle: off by one.
EnoughIdleLate == MaxIdleProc > 0 /\ Len(list) > MaxIdleProc

EnoughIdle == MaxIdleProc > 0 /\ Len(list) >= MaxIdleProc

\* save() was the last statement of the loop body in ensureIdleProc.
SaveDone(t) ==
    /\ held' = [held EXCEPT ![t] = NoConn]
    /\ todo' = [todo EXCEPT ![t] = IF @ = 0 THEN 0 ELSE @ - 1]
    /\ Goto(t, CASE todo[t] = 0 -> "out"
                 [] todo[t] = 1 -> "count"
                 [] OTHER       -> "make")

\* A worn process is removed without taking mMutex.
SaveWorn(t) ==
    /\ pc[t] = "save"
    /\ Worn(held[t])
    /\ Delete({held[t]})
    /\ SaveDone(t)
    /\ UNCHANGED <<app, mutex, list, ends, chanVars, mgrVars, procVars>>

SaveStore(t) ==
    /\ pc[t] = "save"
    /\ ~Worn(held[t])
    /\ mutex = NoThread
    /\ IF EnoughIdle
         THEN Delete({held[t]}) /\ UNCHANGED list
         ELSE list' = Append(list, held[t]) /\ UNCHANGED <<open, pid, requests>>
    /\ SaveDone(t)
    /\ UNCHANGED <<app, mutex, ends, chanVars, mgrVars, procVars>>

Erase(t) ==
    /\ pc[t] = "have"
    /\ Delete({held[t]})
    /\ held' = [held EXCEPT ![t] = NoConn]
    /\ Goto(t, "out")
    /\ UNCHANGED <<app, mutex, list, ends, todo, chanVars, mgrVars, procVars>>

-----------------------------------------------------------------------------
(* SP_ProcPool::ensureIdleProc                                             *)

Clamped(n) == IF n > MaxIdleProc THEN MaxIdleProc ELSE n

EnsureIdle(t, n) ==
    /\ app = "up"
    /\ pc[t] = "out"
    /\ todo' = [todo EXCEPT ![t] = Clamped(n)]
    /\ Goto(t, "ensure")
    /\ UNCHANGED <<app, mutex, list, requests, pid, open, ends, held, chanVars,
                   mgrVars, procVars>>

\* The loop variable starts at mList->getCount(), read without mMutex.
EnsureStart(t) ==
    /\ pc[t] = "ensure"
    /\ LET missing == todo[t] - Len(list)
       IN  IF missing > 0
             THEN todo' = [todo EXCEPT ![t] = missing] /\ Goto(t, "make")
             ELSE todo' = [todo EXCEPT ![t] = 0] /\ Goto(t, "count")
    /\ UNCHANGED <<app, mutex, list, requests, pid, open, ends, held, chanVars,
                   mgrVars, procVars>>

\* getIdleCount() waits for mMutex before the call returns.
EnsureReturn(t) ==
    /\ pc[t] = "count"
    /\ mutex = NoThread
    /\ Goto(t, "out")
    /\ UNCHANGED <<app, mutex, list, requests, pid, open, ends, held, todo,
                   chanVars, mgrVars, procVars>>

-----------------------------------------------------------------------------
(* The end of the application.                                             *)

\* ~SP_ProcPool: the channel is closed and the listed infos are deleted.  No
\* thread may be inside the pool or hold an info it would still save.
Destroy ==
    /\ "destroy" \in Faults
    /\ app = "up"
    /\ \A t \in Thread : pc[t] = "out"
    /\ app' = "destroyed"
    /\ Delete(Listed)
    /\ list' = <<>>
    /\ UNCHANGED <<mutex, ends, pc, held, todo, chanVars, mgrVars, procVars>>

\* The process ends: its threads, its memory and its descriptors are gone.
AppGone ==
    /\ app' = "gone"
    /\ mutex' = NoThread
    /\ list' = <<>>
    /\ Delete(Conn)
    /\ ends' = {}
    /\ pc' = [t \in Thread |-> "out"]
    /\ held' = [t \in Thread |-> NoConn]
    /\ todo' = [t \in Thread |-> 0]

AppExit ==
    /\ "app_exit" \in Faults
    /\ app # "gone"
    /\ AppGone
    /\ UNCHANGED <<chanVars, mgrVars, procVars>>

\* create() finds the channel closed.  sendmsg raises SIGPIPE, whose default
\* action ends the application; if that is ignored send_fd returns -1 and only
\* pipeFd[0] is closed.
SendFdBroken(t) ==
    /\ pc[t] = "connect"
    /\ mutex = NoThread
    /\ ChannelClosed
    /\ IF SigpipeIgnored
         THEN /\ ends' = ends \ {held[t]}
              /\ held' = [held EXCEPT ![t] = NoConn]
              /\ Goto(t, AfterFailure(t))
              /\ todo' = [todo EXCEPT ![t] = 0]
              /\ UNCHANGED <<app, mutex, list, requests, pid, open>>
         ELSE AppGone
    /\ UNCHANGED <<chanVars, mgrVars, procVars>>

-----------------------------------------------------------------------------
(* SP_ProcManager::start, the loop of the manager process.                 *)

RecvFd ==
    /\ mgr = "recv"
    /\ fdQ # <<>>
    /\ mgrFd' = Head(fdQ)
    /\ mgrOpen' = mgrOpen \cup {Head(fdQ)}
    /\ fdQ' = Tail(fdQ)
    /\ mgr' = "fork"
    /\ UNCHANGED <<appVars, pduQ, mgrPdu, eintr, procVars>>

Fork(p) ==
    /\ mgr = "fork"
    /\ p \in FreePid
    /\ worker' = [worker EXCEPT ![mgrFd] = "live"]
    /\ wpid' = [wpid EXCEPT ![mgrFd] = p]
    /\ mgrPdu' = p
    /\ mgr' = "reply"
    /\ UNCHANGED <<appVars, chanVars, mgrFd, mgrOpen, eintr, sigchld>>

\* Mutant of ForkFail: the loop goes on without a reply when fork() fails.
ForkFailSilent ==
    /\ mgr = "fork"
    /\ FreePid = {} \/ "fork_fail" \in Faults
    /\ eintr' = FALSE
    /\ mgr' = "close"
    /\ UNCHANGED <<appVars, chanVars, mgrFd, mgrOpen, mgrPdu, procVars>>

\* The errno of the failed fork() replaces whatever errno was.
ForkFail ==
    /\ mgr = "fork"
    /\ FreePid = {} \/ "fork_fail" \in Faults
    /\ mgrPdu' = ForkError
    /\ eintr' = FALSE
    /\ mgr' = "reply"
    /\ UNCHANGED <<appVars, chanVars, mgrFd, mgrOpen, procVars>>

SendReply ==
    /\ mgr = "reply"
    /\ app = "up"
    /\ pduQ' = Append(pduQ, mgrPdu)
    /\ mgrPdu' = NoPid
    /\ mgr' = "close"
    /\ UNCHANGED <<appVars, fdQ, mgrFd, mgrOpen, eintr, procVars>>

\* The manager process ends: its descriptors are closed, and init collects its
\* zombies from now on.
MgrGone ==
    /\ mgr' = "dead"
    /\ mgrFd' = NoConn
    /\ mgrOpen' = {}
    /\ sigchld' = FALSE
    /\ worker' = [c \in Conn |->
                    IF worker[c] = "zombie" THEN "none" ELSE worker[c]]

\* The application has closed the channel: write() raises SIGPIPE, or, when
\* that is ignored, returns -1 into a size_t and writen() never ends.
SendReplyBroken ==
    /\ mgr = "reply"
    /\ app # "up"
    /\ mgrPdu' = NoPid
    /\ IF SigpipeIgnored
         THEN mgr' = "spin" /\ UNCHANGED <<mgrFd, mgrOpen, worker, sigchld>>
         ELSE MgrGone
    /\ UNCHANGED <<appVars, chanVars, eintr, wpid>>

\* Mutant of CloseFd: the descriptor stays open when the reply is an errno.
CloseFdKept ==
    /\ mgr = "close"
    /\ mgrOpen' = IF worker[mgrFd] = "none" THEN mgrOpen ELSE mgrOpen \ {mgrFd}
    /\ mgrFd' = NoConn
    /\ mgr' = "recv"
    /\ UNCHANGED <<appVars, chanVars, mgrPdu, eintr, procVars>>

CloseFd ==
    /\ mgr = "close"
    /\ mgrOpen' = mgrOpen \ {mgrFd}
    /\ mgrFd' = NoConn
    /\ mgr' = "recv"
    /\ UNCHANGED <<appVars, chanVars, mgrPdu, eintr, procVars>>

\* Mutant of RecvEof: the loop does not break when the channel is closed.
RecvEofIgnored ==
    /\ mgr = "recv"
    /\ fdQ = <<>>
    /\ app # "up"
    /\ mgr' = "spin"
    /\ UNCHANGED <<appVars, chanVars, mgrFd, mgrOpen, mgrPdu, eintr, procVars>>

\* recvmsg returns 0.  errno is not touched by that: were it EINTR, recv_fd
\* would retry for ever.  Otherwise kill(0, SIGUSR1) ends the process group:
\* the manager, its workers and the application.
RecvEof ==
    /\ mgr = "recv"
    /\ fdQ = <<>>
    /\ app # "up"
    /\ IF eintr
         THEN mgr' = "spin" /\ UNCHANGED <<appVars, worker, sigchld>>
         ELSE /\ mgr' = "dead"
              /\ sigchld' = FALSE
              /\ worker' = [c \in Conn |-> "none"]
              /\ AppGone
    /\ UNCHANGED <<chanVars, mgrFd, mgrOpen, mgrPdu, eintr, wpid>>

\* Mutant of Sigchild: one waitpid() per signal.
SigchildOne ==
    /\ mgr # "dead"
    /\ sigchld
    /\ sigchld' = FALSE
    /\ \E c \in Conn : worker[c] = "zombie" /\ worker' = [worker EXCEPT ![c] = "none"]
    /\ eintr' = (eintr \/ (mgr = "recv" /\ ~SaRestart))
    /\ UNCHANGED <<appVars, chanVars, mgr, mgrFd, mgrOpen, mgrPdu, wpid>>

\* SP_ProcManager::sigchild, whatever the manager was doing: signals that came
\* together are one, so all zombies are collected.  Without SA_RESTART an
\* interrupted recvmsg leaves EINTR.
Sigchild ==
    /\ mgr # "dead"
    /\ sigchld
    /\ sigchld' = FALSE
    /\ worker' = [c \in Conn |->
                    IF worker[c] = "zombie" THEN "none" ELSE worker[c]]
    /\ eintr' = (eintr \/ (mgr = "recv" /\ ~SaRestart))
    /\ UNCHANGED <<appVars, chanVars, mgr, mgrFd, mgrOpen, mgrPdu, wpid>>

\* The manager alone is killed.
MgrKill ==
    /\ "mgr_kill" \in Faults
    /\ mgr # "dead"
    /\ MgrGone
    /\ mgrPdu' = NoPid
    /\ UNCHANGED <<appVars, chanVars, eintr, wpid>>

-----------------------------------------------------------------------------
(* The worker process of a connection.                                     *)

\* It is a zombie and the manager gets SIGCHLD; init would collect it at once.
WorkerExit(c) ==
    /\ worker' = [worker EXCEPT ![c] = IF mgr = "dead" THEN "none" ELSE "zombie"]
    /\ sigchld' = (mgr # "dead")
    /\ UNCHANGED <<appVars, chanVars, mgrVars, wpid>>

\* process() returns when the app end of its pipe is closed.
WorkerEof(c) ==
    /\ worker[c] = "live"
    /\ c \notin open
    /\ WorkerExit(c)

\* process() returns by itself, or the process is killed.
WorkerDie(c) ==
    /\ "worker_exit" \in Faults
    /\ worker[c] = "live"
    /\ WorkerExit(c)

-----------------------------------------------------------------------------
\* The steps of a thread inside a call of the pool.
ThreadStep(t) ==
    \/ GetLock(t) \/ TakeLive(t) \/ TakeDead(t) \/ TakeNone(t)
    \/ (\E c \in Conn : MakePair(t, c)) \/ MakeFail(t)
    \/ SendFd(t) \/ SendFdBroken(t)
    \/ ReadReply(t) \/ ReadError(t)
    \/ SaveWorn(t) \/ SaveStore(t)
    \/ EnsureStart(t) \/ EnsureReturn(t)

\* The calls the application may or may not make.
ThreadCall(t) ==
    \/ Get(t)
    \/ Return(t)
    \/ Erase(t)
    \/ \E n \in Wanted : EnsureIdle(t, n)

MgrStep ==
    \/ RecvFd
    \/ (\E p \in Pid : Fork(p))
    \/ ForkFail
    \/ SendReply
    \/ SendReplyBroken
    \/ CloseFd
    \/ RecvEof

Environment ==
    \/ Destroy
    \/ AppExit
    \/ MgrKill
    \/ \E c \in Conn : WorkerDie(c)

Next ==
    \/ \E t \in Thread : ThreadStep(t) \/ ThreadCall(t)
    \/ MgrStep
    \/ Sigchild
    \/ \E c \in Conn : WorkerEof(c)
    \/ Environment

Spec == Init /\ [][Next]_vars

\* Every call that has started goes on (a mutex is eventually granted to each
\* thread that waits for it), the manager and the kernel do their work, and a
\* worker leaves once it can read the end of its pipe.  The application's
\* calls and the faults are not fair: they may never come.
Fairness ==
    /\ \A t \in Thread : SF_vars(ThreadStep(t))
    /\ WF_vars(MgrStep)
    /\ WF_vars(Sigchild)
    /\ \A c \in Conn : WF_vars(WorkerEof(c))

FairSpec == Spec /\ Fairness

-----------------------------------------------------------------------------
(* Properties                                                              *)

\* The variables of the pool, the channel, the manager and the workers have
\* their types, also after a crash of any of them.
TypeOK ==
    /\ app \in AppState
    /\ mutex \in Thread \cup {NoThread}
    /\ list \in Seq(Conn)
    /\ requests \in [Conn -> Nat]
    /\ pid \in [Conn -> Pid \cup {NoPid}]
    /\ open \in SUBSET Conn
    /\ ends \in SUBSET Conn
    /\ pc \in [Thread -> Location]
    /\ held \in [Thread -> Conn \cup {NoConn}]
    /\ todo \in [Thread -> Nat]
    /\ fdQ \in Seq(Conn)
    /\ pduQ \in Seq(Pid \cup {ForkError})
    /\ mgr \in MgrState
    /\ mgrFd \in Conn \cup {NoConn}
    /\ mgrOpen \in SUBSET Conn
    /\ mgrPdu \in Pid \cup {NoPid, ForkError}
    /\ eintr \in BOOLEAN
    /\ worker \in [Conn -> ProcState]
    /\ wpid \in [Conn -> Pid \cup {NoPid}]
    /\ sigchld \in BOOLEAN

\* No process is handed to two threads, and none is both idle and lent: get()
\* takes an info out of mList, create() makes a new one, save() puts back only
\* what its caller holds.
LeaseExclusive ==
    /\ \A i, j \in 1..Len(list) : list[i] = list[j] => i = j
    /\ \A t \in Thread : held[t] \notin Listed
    /\ \A t, u \in Thread : held[t] = held[u] /\ held[t] # NoConn => t = u

Completed(t) == pc[t] \in {"have", "save"}

\* The pid of an info is the pid of the process at the other end of its pipe:
\* create() pairs the reply it reads with the descriptor it sent, whatever
\* other threads create at the same time, although no PDU names a descriptor.
Paired ==
    /\ \A c \in Listed : pid[c] = wpid[c]
    /\ \A t \in Thread : Completed(t) => pid[held[t]] = wpid[held[t]]

\* A create() that waits has its descriptor in the channel, the manager at work
\* on it, or its reply, unless the manager is dead.
Served ==
    \A t \in Thread : pc[t] = "await" =>
       \/ mgr = "dead"
       \/ mgr \in {"recv", "close"} /\ fdQ = <<held[t]>>
       \/ mgr \in {"fork", "reply"} /\ mgrFd = held[t]
       \/ pduQ # <<>>

\* create() gets an answer from every manager that lives, also when fork()
\* fails, and the answer is about the descriptor it sent.
PidPairing == Paired /\ Served

\* setMaxRequestsPerProc: no process is lent more often than the limit, so an
\* idle one has at least one request left.
RequestLimit ==
    MaxRequestsPerProc > 0 =>
        /\ \A c \in Listed : requests[c] < MaxRequestsPerProc
        /\ \A t \in Thread :
              Completed(t) => requests[held[t]] <= MaxRequestsPerProc

\* setMaxIdleProc: save() tests the count and appends in one critical section,
\* so threads that return processes together do not exceed it.
IdleLimit == MaxIdleProc > 0 => Len(list) <= MaxIdleProc

\* Both limits hold whichever threads get, save, erase and ensureIdleProc
\* together.
Limits == RequestLimit /\ IdleLimit

\* The application has pipeFd[1] open for every info and for none besides, on
\* every path through create(), save(), erase() and the probe of get().  The
\* exception is send_fd() that fails (spprocpool.cpp:304), which takes a dead
\* manager and an application that ignores SIGPIPE.
AppEnds ==
    /\ Owned \subseteq open
    /\ open = Owned \/ (mgr = "dead" /\ SigpipeIgnored)

\* The thread has a pair and is between socketpair() and the end of create().
Creating(t) == pc[t] \in {"connect", "await"}

\* pipeFd[0] is open in the application only as long as create() works on the
\* pair, and in the manager only as long as it works on the request.
WorkerEnds ==
    /\ ends = {held[t] : t \in {u \in Thread : Creating(u)}}
    /\ mgrOpen \subseteq {mgrFd}
    /\ mgr \in {"recv", "dead"} => mgrOpen = {}

\* A worker that has ended is collected by the SIGCHLD that is still to come.
Reaped == \A c \in Conn : worker[c] = "zombie" => mgr # "dead" /\ sigchld

\* No descriptor of either end of a pair and no zombie is ever left behind, in
\* the application or in the manager, whatever fails or dies.
NoLeak == AppEnds /\ WorkerEnds /\ Reaped

\* A thread that called get() comes back with a process or with NULL, unless
\* the manager was killed: then a worker that lives holds the channel open and
\* get() waits for a reply nobody sends.
GetReturns ==
    \A t \in Thread :
       pc[t] = "get" ~> \/ pc[t] \in {"have", "out"}
                        \/ mgr = "dead" /\ \E c \in Conn : worker[c] = "live"

\* The loops of the manager that never end: only after the application closed
\* the channel, and only where SIGPIPE is ignored or a signal does not restart
\* recvmsg().
SpinCause == mgr = "spin" => app # "up" /\ (SigpipeIgnored \/ ~SaRestart)

\* When the pool is destroyed or the application is gone, the manager ends
\* and takes the workers with it.
ManagerFollowsApp ==
    app # "up" ~> (mgr = "dead" /\ \A c \in Conn : worker[c] # "live")

-----------------------------------------------------------------------------
(* The inductive invariant behind the safety properties.                   *)

LockInv == \A t \in Thread : mutex = t <=> pc[t] \in {"take", "await"}

HeldInv == \A t \in Thread :
              held[t] # NoConn <=> pc[t] \in {"connect", "await", "have", "save"}

TodoInv == \A t \in Thread :
              pc[t] \in {"out", "get", "take", "have", "count"} => todo[t] = 0

\* A process that has exited holds nothing; a destroyed pool is not entered.
GoneInv == app # "up" => list = <<>> /\ \A t \in Thread : pc[t] = "out"

\* Only infos that were lent have been counted.
CountInv == \A c \in Conn :
               requests[c] # 0 =>
                  \/ c \in Listed
                  \/ \E t \in Thread :
                        Completed(t) /\ todo[t] = 0 /\ held[t] = c

\* While the application lives, whatever is in flight between it and the
\* manager belongs to the one create() that holds mMutex.
ChannelInv ==
    /\ mgr \in {"fork", "reply", "close"} => mgrFd \in Conn
    /\ mgr = "spin" => app # "up"
    /\ mgr = "reply" =>
          /\ mgrPdu # NoPid
          /\ mgrPdu \in Pid => wpid[mgrFd] = mgrPdu
    /\ fdQ # <<>> =>
          \/ app = "gone"
          \/ mgr = "dead"
          \/ \E t \in Thread : pc[t] = "await" /\ fdQ = <<held[t]>>
    /\ mgr \in {"fork", "reply"} =>
          \/ app = "gone"
          \/ /\ fdQ = <<>>
             /\ pduQ = <<>>
             /\ \E t \in Thread : pc[t] = "await" /\ held[t] = mgrFd
    /\ pduQ # <<>> =>
          \/ app = "gone"
          \/ /\ fdQ = <<>>
             /\ mgr \notin {"fork", "reply"}
             /\ \E t \in Thread :
                   /\ pc[t] = "await"
                   /\ \/ pduQ = <<ForkError>>
                      \/ pduQ = <<wpid[held[t]]>>

\* All of it together: every step of get(), create(), save(), erase(), the
\* manager and the workers, and every fault, preserves it.
IInv ==
    /\ TypeOK /\ LockInv /\ HeldInv /\ TodoInv /\ GoneInv
    /\ ChannelInv /\ LeaseExclusive /\ PidPairing /\ CountInv
    /\ RequestLimit /\ IdleLimit /\ NoLeak

-----------------------------------------------------------------------------
(* The pool implements the abstract lending of processes.                  *)

\* The process a caller of get() has.  A new process that ensureIdleProc has
\* not stored yet belongs to nobody.
Lease == [t \in Thread |->
            IF Completed(t) /\ todo[t] = 0 THEN held[t] ELSE NoConn]

Lending == INSTANCE ProcLease WITH idle <- Listed, lease <- Lease, uses <- requests

\* The pool, its manager and the channel do what ProcLease promises: every step
\* of theirs is one of its steps or changes nothing it speaks of.
LendingSpec == Lending!Spec

=============================================================================
