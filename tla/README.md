# Verification of spprocpool

spprocpool is a C++ library of pre-forked worker processes: an application
borrows workers from a pool, a manager process forks them, and three servers and
a request dispatcher are built on top. This directory holds TLA+ models of it,
TLC configurations that check them on small instances, and TLAPS proofs for all
instances. Source references are to `src/`.

## The system

```
 application process                         manager process        worker processes
 +------------------------------------+      +----------------+     +-----------------+
 | callers -> SP_ProcPool  -(channel)-|----->| SP_ProcManager |---->| SP_ProcWorker   |
 |            mList, mMutex  <--PDU---|------| fork, SIGCHLD  |     | process( info ) |
 |      \------------- one pipe per worker --------------------------/               |
 | SP_ProcDatumDispatcher, servers    |      +----------------+     +-----------------+
 +------------------------------------+
```

| part | state | operations | what makes it correct |
|---|---|---|---|
| process pool `spprocpool.cpp` | idle list, `mMutex`, two limits; per process pipe, pid, request count | `get`, `save`, `erase`, `ensureIdleProc`, `create`, destructor | no process lent twice; pid belongs to the pipe; limits hold; neither end of a pair and no zombie is left behind; calls return |
| manager `spprocmanager.cpp` | where its loop is, the descriptor and the reply in hand, errno | receive descriptor, fork, reply, close, reap, end of file | one reply per descriptor, in order; ends with the application and takes the workers along |
| PDU, descriptors `spprocpdu.cpp` | bytes in a socket | `send_fd`, `recv_fd`, `readn`, `writen`, `read_pdu`, `send_pdu` | a PDU arrives whole, or its reader is told that it does not |
| thread pool `spprocthread.cpp` | list of idle threads, `mTotal`, `mIsShutdown`; per thread a mutex, a condition, a job | `dispatch`, `wait4idler`, thread function, `saveThread`, destructor | a job runs once; at most `maxThreads`; callback exactly when all are idle; destructor ends and leaves nobody |
| datum dispatcher `spprocdatum.cpp` | busy list, reply thread, stop flag, `mMaxProc` | `dispatch`, `checkReply`, destructor, worker loop | the reply of a request comes back once, to the request that asked; workers are not lost |
| LF server `spproclfsvr.cpp`, locks `spproclock.cpp` | per worker idle flag and pipe; accept lock | master loop, worker loop, `lock`, `unlock` | between MinIdle and MaxProc workers; one in `accept()` |
| MT server `spprocmtsvr.cpp` | as LF, and a thread pool per worker | master loop, worker loop, thread function, `reportFunc` | the master hears of every idle worker; no accepted connection waits for a thread; every client is served to the end, but for those that are lost with a worker, with their connection or for want of a thread, which are counted |
| inet server `spprocinetsvr.cpp` | busy list, descriptor set, the process and the client in hand | master loop, worker loop | the books are right: busy processes come back, free ones have nothing unread, the limit holds; every client is served, or lost with its worker or its connection |
| base server `spprocserver.cpp` | arguments, stop flag | `setArgs`, `shutdown` | arguments clamped, stop noticed |

The hard behaviours: threads of one process that share the pool; three kinds of
processes that share pipes, one of which may die at any moment; descriptors that
every forked child inherits; replies matched to requests by order alone; pids
that the kernel reuses; condition variables waited for with an `if`; and error
returns kept in unsigned variables. `PROJECT.json` lists each hazard with its
line and the properties that would catch it.

## Modules

| module | stands for | composes |
|---|---|---|
| `ProcPool` | pool, manager, channel and workers (`spprocpool`, `spprocmanager`, the descriptor and PDU steps of `spprocpdu`) | refines `ProcLease` |
| `ProcLease` | what the pool promises a caller (abstract) | |
| `ThreadPool` | the thread pool (`spprocthread`) | refines `JobPool` |
| `JobPool` | what the thread pool promises its one caller (abstract) | |
| `DatumDispatcher` | dispatcher, reply thread, datum workers (`spprocdatum`) | `ProcLease` as its pool |
| `BaseServer` | the arguments of a server, clamped by `setArgs()` (`spprocserver`) | |
| `LFServer` | master, workers, pods and accept lock (`spproclfsvr`, `spproclock`) | extends `BaseServer` |
| `MTServer` | the server whose workers serve in threads (`spprocmtsvr`) | `LFServer` as its master, `JobPool` once per worker |
| `InetServer` | the server that accepts by itself (`spprocinetsvr`) | extends `BaseServer`; `ProcLease` as its pool |
| `Pdu` | `readn`, `writen`, `read_pdu`, `send_pdu` byte by byte (`spprocpdu`) | |
| `MC...` | instances and symmetries for TLC | extend the components |
| `ListLemmas` | facts about lists without repetitions, for the proofs | |
| `ProcPoolProofs`, `ThreadPoolProofs`, `DatumDispatcherProofs`, `LFServerProofs`, `MTServerProofs`, `InetServerProofs`, `PduProofs` | theorems | extend the components |

`PROJECT.json` maps each definition to the lines it translates. Operators whose
comment starts with "Mutant of" are not used by a specification: each is a
plausible mistake in the code, kept next to the definition it alters, and the
property named with it in `PROJECT.json` must fail when it takes that place.

The two abstractions are what makes the composition affordable. `ProcPool`, with
its manager and its channel, is shown to implement `ProcLease`, and the dispatcher
and the inet server are built on `ProcLease`; `ThreadPool`, with its mutexes and
condition variables, is shown to implement `JobPool`, and the MT server is
built on `JobPool`. Both refinements are checked by TLC and proved.

### ProcPool

One connection (`Conn`) is one `socketpair()`; an `SP_ProcInfo` is named by the
connection it wraps. `list`, `mutex`, `requests`, `pid` are the members of the
pool and its infos; `pc`, `held`, `todo` are a thread's place in the code, its
local info, and the rest of its loop in `ensureIdleProc`. `fdQ` and `pduQ` are the
two directions of the channel; `mgr`, `mgrFd`, `mgrPdu`, `eintr` the manager. A pair has
two ends: `open` are the pairs whose `pipeFd[1]` the application has open, `ends` those
whose `pipeFd[0]` it has not closed yet, `mgrOpen` the copies of `pipeFd[0]` that the manager
has. `sigchld` says that a SIGCHLD is to be handled.

* A section under `mMutex` without a system call that waits is one step; `create()`
  is split at `socketpair`, `send_fd` and `read_pdu`, with the mutex held across the
  last two as in the code. The manager is split at every system call.
* `kill( pid, 0 )` succeeds when any process, a zombie included, has the id. Ids
  are reused (`Pid` is small), zombies are reaped by `Sigchild` any time after the
  signal.
* Failures are steps of their own, admitted by `Faults`: `socketpair`, `fork`,
  death of a worker, SIGKILL of the manager, exit of the application,
  destruction of the pool. `SigpipeIgnored` and `SaRestart` are settings of the
  process that decide what a broken pipe and an interrupted call do.
* Workers inherit the manager's end of the channel, so that a dead manager
  alone does not make `read_pdu` return.

### ThreadPool

A slot is an `SP_ProcThread`. `idle` is `mThreadList` up to `mIndex`, `total` is
`mTotal`. `tpc` and `cpc` are the places of threads and callers. Where a caller
needs the mutex of a thread while it holds `mMainMutex` (the signal in `dispatch`
and in the destructor) the step ends and `main` is the holder; every other section
is one step. The waits with an `if` are as in the code: a caller woken in
`dispatch` goes on without a second test, and in between others may have changed
the list.

The MT server has one caller per pool, and for one caller all that matters is the
crew of `JobPool`: how many threads there are, how many are idle, and whether the
callback has come since the last job was given. An idle thread of the crew is a slot in `idle`; a job is
given when `dispatch()` signals or creates its thread and ends when
`saveThread()` lists the thread.

### DatumDispatcher

The pool is an instance of `ProcLease` in which a lease is named by the process
itself, because the caller of `dispatch()` takes it and the reply thread gives it
back. `busy` is `mBusyList`, `pfd` the reported entries that are left to handle (the first
of the list is next), `rconn` the process the reply thread has taken. `inbox` and `outbox` are the contents of a
pipe, one element per PDU; `Torn` is a PDU cut short by the death of its writer,
which `read_pdu` returns as a success (its result is the short count, which is
positive). `asked` and `outcome` record what was asked and what became of it: no
variable of the code has them. Whether `poll()` reports POLLIN with a hang-up is
a choice of the run (`HupIn`); Linux does. A broken pipe in `dispatch()` ends the
application or, with SIGPIPE ignored, never returns from `writen()`. The constructor
may get no reply thread (`"thread_fail"` in `Faults`): then `rpc` is `"none"` for ever, and
requests are sent whose replies nobody reads.

### LFServer

`procList`, `isIdle`, `idleCount`, `rset`, `stop`, `pods` are the variables of `start()`;
`pipe` is what a worker wrote and the master has not read. One turn of the
master's loop is `Select`, a `Recv` per reported entry from the end of the list,
`Trim`, `Fork`. One `recv()` takes as many bytes as it likes; the code looks at the
last of them, and so does `RecvFrom`. A worker goes `top`, `accept` (holding the lock),
`accepted`, `handle`, `served`, and from there round again or, by way of `leave`, away: in
`leave` it is out of its loop and `workerEnd()` runs; `End` is the exit of the process. An entry
that is erased at the byte CHAR_EXIT, before the process ends, leaves it `closed` until
`End`. `accept()` gets a client (`Accept`), fails (`AcceptFail`) or is interrupted, with or without
a client that waits (`AcceptIntr`). The three arguments of `setArgs()` are constants and the clamped values come from `BaseServer`.

### MTServer

The master is the one of the LF server: the two `start()` are the same text but
for the names, so `MTServer` takes each master action from an instance of `LFServer`
and adds what it does to the variables of its own. The main thread of a worker
goes `top` (where it waits for a thread in `wait4idler()`), `accept`, `dispatch`, `served`,
`delete`, and ends `gone`; `closed` and `aborted` are a worker whose pipe the master
has closed, before and after its last `write()`. `crew` is the thread pool of each
worker, an instance of `JobPool`. What `JobPool` does in one step while it has `mMainMutex`
is two steps here, `Finish` (`saveThread()` lists the thread) and `Report` (the callback
writes 'I'), because `wait4idler()` reads `mIndex` without that mutex: the main thread can
be back in `accept()` before the 'I' is written. `calling` are the workers with a thread in
between; `dispatch()` and other threads wait for it. Any step of a thread can fall
between any two steps of the main thread: that is the race between 'B', which the main
thread writes, and 'I', which the last thread writes from the callback.
`unsaid` is a ghost: the entries that are marked busy and that no byte of their
worker will ever mark idle, because the master counted them out for a pod that
another worker took, or because the job found no thread. `served` and `lost` are
ghosts too and count clients: `served` goes up when a `handle()` returns, `lost` for a
connection that is aborted before `accept()` returns it, for the clients a worker has when
it dies, and for one that `dispatch()` refuses, whose connection the code neither serves
nor closes (`spprocmtsvr.cpp:150`). A worker that has failed its assertion (`aborted`) is a
process no more, and `Aborted` gives its name free.

### InetServer

`start()` is split at every system call: `mpc` goes `top`, `select`, `get`, `accept`, `send`,
`scan`. `rset` is the descriptor set before and after `select()`; `forced` says that
`select()` did not fill it in (it returned with an error after a stop), so that the
code takes every member for ready; that it tests `mMaxProc` again before it calls `get()`
(`spprocinetsvr.cpp:164`) is in `LookAt`. `AcceptFail` either loses the client, whose connection
is gone, or leaves it in the backlog (EINTR, EMFILE), and the process goes back. `info` and `client` are the process and the
connection in hand. `inbox` and `outbox` of a process hold the clients sent to it and
its answers; `worker` is the state of the process, where `stuck` is one that does not
return from `send_pdu()` after the end of the server. `fate` is a ghost that follows
each client. `Save` keeps or retires a process as `SP_ProcPool::save()` does, and
`Scan` walks `busyList` from its end.

### Pdu

A byte is `<<i, part, o>>`: the o-th byte of the header or data of PDU i. The socket takes
and gives any number of bytes that fit. The counts of `readn` and `writen` are
unsigned numbers with `SizeValues` values: an interrupted call adds one to what is left and
moves the pointer one back, which is what `nleft -= nread` does with `(size_t)-1`.
What a header says whose bytes have moved is arbitrary (`SizeRead`). The writer may
close at any byte. `results` is what `read_pdu()` returned, each with a ghost that says
whether the PDU in `buf` is whole.

## What the runs show

| run | result | question |
|---|---|---|
| `pool` | holds | two threads, two connections, two reused pids; `socketpair`, `fork` and workers fail, the manager is killed, the pool destroyed, the application gone at any point: leases are exclusive, pids belong to their pipes, a waiting `create()` has its answer under way, both limits hold, no descriptor of either end is left open in the application or the manager and no zombie is left (`NoLeak`), `get()` returns, manager and workers end after the pool, the pool implements `ProcLease` |
| `pool_sigpipe` | **violated** | with SIGPIPE ignored the manager spins in `writen()` when its application is gone |
| `thread_safe` | holds | two callers, `pthread_create` failing: a job runs once, the callback is never early, the destructor drops nothing |
| `thread_live` | holds | one caller: the limit, `wait4idler`, nobody waits for a signal that no thread is going to send, calls, jobs and the destructor end, and the pool implements `JobPool`, which includes that the callback comes |
| `datum` | holds | two callers, three requests, workers that die at any point, a constructor that may get no thread: one owner per process, replies match requests, each pipe in the busy list has an answer to come, how far `mMaxProc` can be exceeded, nothing left at the destructor; every request that was sent ends, the destructor and the workers end, where there is a reply thread |
| `datum_lost` | **violated** | a worker that dies before it answers: neither `onReply` nor `onError` |
| `lf` | holds | exact idle count, no worker too many, none waited for when there are none, not all of them stuck at a lock nobody releases, honest marks, every client accepted, with workers that die, fail or are interrupted in `accept()` or leave slowly |
| `mt` | holds | the master hears of every idle worker, no accepted connection waits for a thread, every client is served to the end or counted as lost |
| `mt_exit` | **violated** | the assertion on the second exit byte of a worker whose `accept()` failed |
| `inet` | holds | the busy list, the free processes and the limit are right on every error path, each accepted client is in one place; every client is served, or lost with its worker or its connection; after `shutdown()` the server ends unless from some time on no event comes any more |
| `pdu` | holds | PDUs that are handed over whole are whole, once and in order, wherever the bytes are cut and whatever calls are interrupted; `read_pdu` returns |
| `pdu_torn` | **violated** | a writer that closes in the middle of a PDU: `read_pdu` returns a positive number for what is no PDU |

### Findings

1. `writen` (`spprocpdu.cpp:209`) keeps the result of `write` in a `size_t`: errors are
   never seen. With SIGPIPE ignored (all three servers ignore it) a reply to an
   application that is gone never ends. Run `pool_sigpipe`.
2. When the writer closes in the middle of a PDU, `read_pdu` returns the count of the
   bytes that came (`spprocpdu.cpp:228` for the header, `233` for the data). It is positive, and
   `spprocpdu.hpp:56` says "> 0 : OK, 0 : connect reset by peer, -1 : error". The callers
   rely on it (`spprocpool.cpp:293`, `spprocdatum.cpp:339`, `spprocinetsvr.cpp:194`): a torn reply
   reaches `onReply()`, and its process goes back to the pool. Run `pdu_torn`. (A header with a
   wrong magic number is a positive result too; no writer of the library sends one.)
3. `checkReply` (`spprocdatum.cpp:343`) forgets `onError` when the end of file comes
   with POLLIN. Run `datum_lost`.
4. A worker of the MT server whose `accept()` fails says CHAR_EXIT twice
   (`spprocmtsvr.cpp:159` and `170`); the master closes the pipe on the first, and the
   `assert` around the second `write()` fails. Run `mt_exit`.

Further facts that the models show and that no run expects. No text of the
repository contradicts them, but for the one about two callers of the thread pool:

* `ensureIdleProc` creates nothing when `mMaxIdleProc` is 0 (`spprocpool.cpp:244`), although
  0 means "unlimited" elsewhere.
* LF server with `LockKind = "thread"`: the mutex is not robust, so after the death
  of a worker in `accept()` nobody accepts any more (`AllAccepted` fails).
* All servers: a master whose last `get()` failed with no worker left waits in
  `select()` for ever. `AllAccepted`, `AllServed` and `Workforce` name this as their
  exception. LF and MT replace one worker per event only.
* MT server: the `IdleHonest` of the LF server does not hold. The 'I' of a thread can
  be written after the 'B' of the next connection, so that the master takes a
  serving worker for an idle one; what holds is `IdleHeard`, the other direction.
* MT server: a worker whose `accept()` failed is erased while its threads still serve,
  so more processes than `mMaxProc` can run.
* `pods` can exceed the number of workers.
* `get()` does not return after the manager was killed while a worker lives, since the
  worker holds the other end of the channel. `GetReturns` names the exception.
* `recv_fd` spins on end of file with a stale EINTR, where a signal does not restart
  the call (`SaRestart = FALSE`, `spprocpdu.cpp:120`).
* `dispatch` of the thread pool (`spprocthread.cpp:114`) waits with an `if`: two callers that
  are woken for one idle thread bring the pool over `mMaxThreads`, the thread that is
  refused stays in `mTotal`, and the callback does not come any more, although
  `spprocthread.hpp:20` has it for when all threads are idle. The servers have
  one caller per pool, and for one caller the callback does come (`LoneReports`); for
  any number it is never early and no job is lost or run twice (`thread_safe`).
* A dispatcher whose constructor got no thread (`spprocdatum.cpp:266`) takes requests that
  never end, and its destructor waits for ever. `Settles` and `DestructorEnds` name the
  exception.
* MT server: a connection that `dispatch()` refuses is neither served nor closed
  (`spprocmtsvr.cpp:150`); it takes a `pthread_create` that fails.
* `tcp_listen` (`spprocpdu.cpp:317`) tests `0 != inet_aton( ... )`, which is its success: a
  server that is given a valid address to bind to does not start. (Read in the
  code; not modelled.)

## Bounds, and why they are enough

* Two callers or threads: each race of this code is between two; a third adds
  no new pair of steps.
* `pool`: two connections and two pids, so that a pid is reused while its old
  connection is still known. `MaxRequestsPerProc = 2`: a process is lent, comes back,
  is lent again and worn. `MaxIdleProc = 1`: reached, and exceeded by concurrent
  calls if the code were wrong (the mutants do). `RequestBound = 9` is larger than
  any count reached, so it cuts nothing.
* `thread_*`: two threads allowed, three slots and three jobs, so that a thread over
  the limit can exist. `TotalBound` bounds `mTotal` where `pthread_create` may fail; it
  bounds the start of new calls, never a call in progress.
* `datum`: three requests with `MaxProc = 1` and two pipes, so that both callers can pass
  the test and a third request meets a process that served before.
* `lf`: three names for at most two workers, so that a worker too many could appear;
  `ConnectBound = 3` clients and `DeathBound = 1`: enough for a pod to be sent, taken, and a
  worker replaced. Each pod needs a client, so `pods` is bounded too. A worker whose entry is
  erased keeps its name until it ends. `DeathBound` counts the deaths, the workers that
  cannot accept and the interrupted calls.
* `mt`: two workers with two threads, `ConnectBound = 3`, `DeathBound = 1`: both threads of a
  worker serve while the main thread is at `wait4idler()`, with another connection left
  for the other worker; `MaxRequestsPerProc = 3` lets a worker leave by count. `Shutdown`
  comes after the last client only: what a client after it would find, the ones
  before it find too. Two names are enough: a worker is `closed` or `aborted` only
  behind an `accept()` that failed, of which `DeathBound` allows one, and its name is free
  again after it, so that the other name or this one is there for its successor.
* `inet`: three clients for at most two processes, so that one has to wait for a
  process; three pipes, so that one can be in the hands of a process that ends;
  `FaultBound = 2`, so that a fault can hit the recovery from another.
* `pdu`: four PDUs, the first and last without data; `Room = 4` is less than any PDU with
  data, so each is cut; `IntrBound = 2`, two interruptions can hit one call;
  `SizeValues = 16` is more than twice what any PDU has. `pdu_torn` has the same PDUs
  and no interruption: what it shows needs none.
* No run checks deadlock: in each the application, the pool, the server or the
  clients may really stop, after which nothing happens. What must not get stuck is
  stated as a liveness property instead.
* Symmetry is used only in `thread_safe`, which has no liveness property.

## Fairness, and why the code justifies it

Calls that were made, threads that exist, the manager, the masters, the reply
thread and the worker processes are scheduled: weak fairness, and strong
fairness where a step takes a mutex or a file lock, because one that is released
again and again is granted to each waiter (glibc and the kernel promise no order,
but starvation for ever is not a schedule we want to count). So: SF of the threads of
`ProcPool` and `ThreadPool`, of the workers of `LFServer` and of the main threads of `MTServer`
(the accept lock); WF of everything else. Handlers and jobs return; that is the
contract of `handle()`. A socket with bytes gives some and one with room takes
some (`Pdu`). What the application does next, the arrival of clients, signals and
every fault are never fair: `SelectIntr` and `AcceptIntr` in `LFServer` and `SelectStop` in
`InetServer` are actions of their own for that reason, since a signal must not be what
wakes a master or gets a worker out of `accept()`.

## What is proved

TLAPS checks these for every value of the constants. The only assumptions are
those named in the modules: limits are natural numbers, arguments are integers,
the null values are no members, and, for the dispatcher, the set of callers is
finite and not empty. Nothing is said about how many threads, processes, clients
or jobs there are. In each module `IInv` is the inductive invariant, `Invariance` says that
it always holds, and the other theorems follow from it.

* `ProcPool`: `TypeCorrect`, `LeaseSafety`, `PairingSafety`, `LimitSafety`, `DescriptorSafety`, and
  `Refinement`: the pool implements `ProcLease`. `PidPairing` is not inductive: a reply names
  no descriptor. `ChannelInv` supplies what is missing: while the application lives,
  at most one of descriptor, fork in progress and reply exists, and it belongs to the
  thread in `read_pdu`, which `LockInv` makes unique. `HeldInv`, `TodoInv`, `GoneInv` say
  what a thread holds at each place, `AppEnds` and `WorkerEnds` which ends are open in the
  application and in the manager, `Reaped` that each zombie has a SIGCHLD to come,
  `CountInv` that only lent processes are counted, which the refinement needs.
  `Served`, a part of `PidPairing`, is the other half: a `create()` in `read_pdu` has its
  descriptor in the channel, the manager at work on it, or its reply, unless the
  manager is dead. `SpinKnown` bounds the finding of `pool_sigpipe`: no other setting than
  an ignored SIGPIPE or an unrestarted `recvmsg` makes the manager loop for ever.
* `ThreadPool`: `TypeCorrect`, `JobSafety`, `CallbackSafety`, `DestructorSafety` for any number
  of callers. `JobOnce` needs `CallInv` (a taken thread is parked or waits and is in
  no list), `ListInv` and `AskedInv`; the callback needs `TotalInv`: `mTotal` counts at
  least the living threads, so that `mIndex = mTotal` means that all are listed.
  `LoneSafety`, `LoneReports` and `JobPoolRefinement` (the pool implements `JobPool`) hold
  for one caller and use `LoneInv`. `LoneReports` is `AllIdleReported`: whenever all
  threads that exist are idle, the callback has been called. Two callers can break it,
  as said above: the assumption is needed. `Awaited`, a part of `LoneSafe`, is the safety half
  of "calls return": whoever waits on a condition has a thread on its way to signal
  it. It needs `AwaitInv`: a thread that sleeps is listed or taken, a caller waits only while
  the list says so, and a thread the destructor has signalled does not sleep.
* `DatumDispatcher`: `TypeCorrect`, `OwnedSafety`, `ReplySafety`, `BoundSafety`, `DrainSafety`,
  `SettledForGood`.
  `ReplyMatches` rests on `PipeInv`: a pipe on which a request was sent holds the request,
  its reply or nothing, and on every other pipe there is nothing to read and nothing
  to come. `AnswerInv` adds that a working pipe is never silent for good: the worker has
  the request, the reply is there, or the worker is dead and `poll()` says so.
  `CallInv` ties each request to the one caller or the one pipe that has it, so that
  its end is never changed by what comes late (`SettledForGood`, an action property);
  `Control` is what the destructor and the reply thread rely on. `BusyBound` counts the callers past the test of `mMaxProc`,
  by cardinalities, which is why the callers must be finite.
* `LFServer`: `TypeCorrect`, `CountSafety`, `RangeSafety`, `HonestSafety`. `IdleHonest` follows from
  `PipeInv`: the last byte in the pipe of a worker in `handle()` is a 'B', and only one that
  is out of its loop said CHAR_EXIT, so that a `recv()` of any number of bytes leaves the right mark.
  `LockInv` says who has the accept lock (a worker in `accept()`, unless one died with the
  mutex); with `Limits` it gives `NeverStuck`, the part of `Workforce` about waiting clients.
* `MTServer`: `TypeCorrect`, `RoomSafety`, `HeardSafety`, `WordHeard`. `RoomToServe` is inductive with
  `CrewInv` (threads only come back between two dispatches of the main thread). For
  `IdleHeard` the invariant `Heard` follows the last byte of the pipe through every order of
  the two writers: of a worker without a connection it is an 'I', or, when the pipe is
  empty, the entry is marked idle. `WordHeard` bounds the finding of `mt_exit`: where no
  `accept()` fails, `LastWord` holds, because a worker says CHAR_EXIT once and its pipe is
  closed after that only (`ExitInv`).
* `InetServer`: `TypeCorrect`, `BookSafety`, `SettledForGood`. `Mail` says of each process, by whose hands it is
  in, what is in its pipes (`Quiet`, `DeadQuiet`, `BusyHeard`, `IdleEmpty`), `Control` what `start()` has
  in hand at each place. `Placed`, a part of `Books`, says where each accepted client is:
  with the loop or alone in the pipe of one running worker (`HeldUp`: a process that
  the server has does not end by itself); that a served or lost client stays what it
  is (`SettledForGood`, an action property) follows.
* `Pdu`: `FramedSafety`, in two parts. `Order` holds whatever calls are interrupted: the
  last byte of a header is written once, because the pointer never moves back from
  the end of a part, so that the bytes in the socket, in `buf` and in the results are in
  the order of the PDUs. Without interruptions `InStep` holds until the end of the file
  (`Over`): the bytes in the socket are one run from the reader's place to the
  writer's, and what is in `buf` is in its place. That a reader at the end of a part
  finds a whole one uses the least counterexample of the well-founded order on the
  natural numbers instead of an induction.

The runs check the properties that follow, on the small instances; the parts that
only strengthen an invariant are proved and are in no configuration.

## What is only model-checked

Liveness (all `~>` properties, `Returns` of `Pdu` among them): TLAPS does not treat
fairness here. Of the properties that the violation runs refute, `LastWord` is proved
where no `accept()` fails.

## What is not modelled, and why

* `tcp_listen`, `print_cpu_time`, `SP_ProcClock`, logging and `dump()`: no state that another part
  uses.
* Sockets and the data of clients: a client is what is accepted and served.
* Spurious wakeups: the thread pool waits without a loop, so a spurious wakeup
  would run a job twice. The model assumes there are none; the hazard is listed.
* The 1024 entries of the dispatcher's poll set and its wait of five seconds for a
  first entry: larger numbers of processes than an instance has.
* The test programs, which use the library; the order in which they call it is what
  the environment of the models does.

## What is left

1. An abstract thread pool for several callers, which would have to allow that two of
   them bring it over its limit.
2. A run of `ProcPool` with `SaRestart = FALSE` and one of `LFServer` with `LockKind = "thread"`,
   should a text of the repository promise what they contradict.
