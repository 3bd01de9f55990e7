----------------------------- MODULE ThreadPool -----------------------------
(***************************************************************************)
(* SP_ProcThreadPool: callers give jobs to a bounded set of threads.  An   *)
(* idle thread sleeps on a condition variable of its own; the pool's state *)
(* is guarded by mMainMutex, each thread structure by a mutex of its own.  *)
(*                                                                         *)
(* A section that takes mMainMutex and waits for nothing inside is one     *)
(* step.  mMainMutex is held across steps only where its holder waits for  *)
(* the mutex of a thread.  No condition variable wakes spuriously.         *)
(***************************************************************************)
EXTENDS Integers, FiniteSets, Sequences, SequencesExt

CONSTANTS
    Caller,       \* threads that call the pool
    Slot,         \* SP_ProcThread structures that can exist at once
    Job,          \* pairs of dispatchFunc and arg
    MaxThreads,   \* mMaxThreads
    CreateFails,  \* pthread_create may fail
    TotalBound,   \* no dispatch() starts once mTotal is so large
    NoCaller, NoSlot, NoJob

ASSUME PoolAssumption ==
    /\ MaxThreads \in Nat \ {0}
    /\ CreateFails \in BOOLEAN
    /\ TotalBound \in Nat
    /\ NoCaller \notin Caller
    /\ NoSlot \notin Slot
    /\ NoJob \notin Job

VARIABLES
    main,      \* the caller that holds mMainMutex across steps
    idle,      \* mThreadList, its first mIndex entries
    total,     \* mTotal
    shutdown,  \* mIsShutdown
    full,      \* mFullCallback was called after the last dispatch
    tpc,       \* where each thread is
    job,       \* mFunc and mArg of a thread
    cpc,       \* where each caller is
    call,      \* the job a caller dispatches; NoJob in the other operations
    target,    \* the thread a dispatch has taken from the list
    signalled, \* how many idle threads the destructor has signalled
    jobs       \* what became of each job

poolVars   == <<main, idle, total, shutdown, full>>
callerVars == <<cpc, call, target, signalled>>
vars       == <<poolVars, tpc, job, callerVars, jobs>>

ThreadState == {"none", "start", "run", "save", "park", "wait", "exit", "gone"}
CallerState == {"idle", "ready", "lock", "blocked", "woken", "signal",
                "del", "waitfull", "fullwoken", "delsignal", "waitempty",
                "emptywoken", "deleted"}
JobState    == {"new", "asked", "given", "running"}

Init ==
    /\ main = NoCaller
    /\ idle = <<>>
    /\ total = 0
    /\ shutdown = FALSE
    /\ full = FALSE
    /\ tpc = [s \in Slot |-> "none"]
    /\ job = [s \in Slot |-> NoJob]
    /\ cpc = [d \in Caller |-> "idle"]
    /\ call = [d \in Caller |-> NoJob]
    /\ target = [d \in Caller |-> NoSlot]
    /\ signalled = 0
    /\ jobs = [j \in Job |-> "new"]

Outside(d) == cpc[d] \in {"idle", "ready"}

\* No destructor has been called.
Usable == \A d \in Caller : Outside(d) \/ cpc[d] \in {"lock", "blocked", "woken", "signal"}

\* The condition on which dispatch() and wait4idler() wait.
Full == idle = <<>> /\ total >= MaxThreads

\* A thread holds its own mutex from the end of its job until it waits.
OwnHeld(s) == tpc[s] \in {"save", "park"}

\* pthread_cond_signal on the condition of a thread.
Woken(s) == [tpc EXCEPT ![s] = IF @ = "wait" THEN "start" ELSE @]

-----------------------------------------------------------------------------
(* dispatch() and wait4idler()                                             *)

Dispatch(d, j) ==
    /\ Usable /\ Outside(d)
    /\ total < TotalBound
    /\ jobs[j] = "new"
    /\ jobs' = [jobs EXCEPT ![j] = "asked"]
    /\ call' = [call EXCEPT ![d] = j]
    /\ cpc' = [cpc EXCEPT ![d] = "lock"]
    /\ UNCHANGED <<poolVars, tpc, job, target, signalled>>

\* The first test reads the counters without mMainMutex and may see old ones.
Wait4idler(d) ==
    /\ Usable /\ Outside(d)
    /\ \/ ~Full /\ cpc' = [cpc EXCEPT ![d] = "ready"]
       \/ cpc' = [cpc EXCEPT ![d] = "lock"]
    /\ UNCHANGED <<poolVars, tpc, job, call, target, signalled, jobs>>

Block(d) ==
    /\ cpc[d] = "lock"
    /\ main = NoCaller
    /\ Full
    /\ cpc' = [cpc EXCEPT ![d] = "blocked"]
    /\ UNCHANGED <<poolVars, tpc, job, call, target, signalled, jobs>>

\* Mutant of Passed: nobody waits for mIdleCond.
PassedAlways(d) ==
    /\ main = NoCaller
    /\ cpc[d] \in {"woken", "lock"}

\* The caller holds mMainMutex behind the wait, which is an if: one that was
\* woken does not test again.
Passed(d) ==
    /\ main = NoCaller
    /\ cpc[d] = "woken" \/ (cpc[d] = "lock" /\ ~Full)

WaitDone(d) ==
    /\ Passed(d)
    /\ call[d] = NoJob
    /\ cpc' = [cpc EXCEPT ![d] = "ready"]
    /\ UNCHANGED <<poolVars, tpc, job, call, target, signalled, jobs>>

Create(d, s) ==
    /\ Passed(d)
    /\ call[d] # NoJob
    /\ idle = <<>>
    /\ tpc[s] = "none"
    /\ tpc' = [tpc EXCEPT ![s] = "start"]
    /\ job' = [job EXCEPT ![s] = call[d]]
    /\ jobs' = [jobs EXCEPT ![call[d]] = "given"]
    /\ total' = total + 1
    /\ full' = FALSE
    /\ cpc' = [cpc EXCEPT ![d] = "idle"]
    /\ call' = [call EXCEPT ![d] = NoJob]
    /\ UNCHANGED <<main, idle, shutdown, target, signalled>>

\* dispatch() returns -1: the job stays with its caller.
CreateFail(d) ==
    /\ Passed(d)
    /\ call[d] # NoJob
    /\ idle = <<>>
    /\ CreateFails \/ \A s \in Slot : tpc[s] # "none"
    /\ jobs' = [jobs EXCEPT ![call[d]] = "new"]
    /\ cpc' = [cpc EXCEPT ![d] = "idle"]
    /\ call' = [call EXCEPT ![d] = NoJob]
    /\ UNCHANGED <<poolVars, tpc, job, target, signalled>>

\* Mutant of Take: the thread is looked up and stays in mThreadList.
TakeKept(d) ==
    /\ Passed(d)
    /\ call[d] # NoJob
    /\ idle # <<>>
    /\ main' = d
    /\ target' = [target EXCEPT ![d] = Last(idle)]
    /\ job' = [job EXCEPT ![Last(idle)] = call[d]]
    /\ jobs' = [jobs EXCEPT ![call[d]] = "given"]
    /\ full' = FALSE
    /\ cpc' = [cpc EXCEPT ![d] = "signal"]
    /\ UNCHANGED <<idle, total, shutdown, tpc, call, signalled>>

Take(d) ==
    /\ Passed(d)
    /\ call[d] # NoJob
    /\ idle # <<>>
    /\ main' = d
    /\ idle' = Front(idle)
    /\ target' = [target EXCEPT ![d] = Last(idle)]
    /\ job' = [job EXCEPT ![Last(idle)] = call[d]]
    /\ jobs' = [jobs EXCEPT ![call[d]] = "given"]
    /\ full' = FALSE
    /\ cpc' = [cpc EXCEPT ![d] = "signal"]
    /\ UNCHANGED <<total, shutdown, tpc, call, signalled>>

\* Mutant of Signal: the condition is signalled without the thread's mutex.
SignalUnlocked(d) ==
    /\ cpc[d] = "signal"
    /\ tpc' = Woken(target[d])
    /\ main' = NoCaller
    /\ cpc' = [cpc EXCEPT ![d] = "idle"]
    /\ call' = [call EXCEPT ![d] = NoJob]
    /\ target' = [target EXCEPT ![d] = NoSlot]
    /\ UNCHANGED <<idle, total, shutdown, full, job, signalled, jobs>>

Signal(d) ==
    /\ cpc[d] = "signal"
    /\ ~OwnHeld(target[d])
    /\ tpc' = Woken(target[d])
    /\ main' = NoCaller
    /\ cpc' = [cpc EXCEPT ![d] = "idle"]
    /\ call' = [call EXCEPT ![d] = NoJob]
    /\ target' = [target EXCEPT ![d] = NoSlot]
    /\ UNCHANGED <<idle, total, shutdown, full, job, signalled, jobs>>

-----------------------------------------------------------------------------
(* wrapperFunc() and saveThread()                                          *)

\* The loop condition of wrapperFunc, then the job.
Test(s) ==
    /\ tpc[s] = "start"
    /\ IF shutdown
         THEN tpc' = [tpc EXCEPT ![s] = "exit"] /\ UNCHANGED jobs
         ELSE /\ tpc' = [tpc EXCEPT ![s] = "run"]
              /\ jobs' = [jobs EXCEPT ![job[s]] = "running"]
    /\ UNCHANGED <<poolVars, job, callerVars>>

\* The job returns and the thread locks its own mutex.
Finish(s) ==
    /\ tpc[s] = "run"
    /\ tpc' = [tpc EXCEPT ![s] = "save"]
    /\ jobs' = [jobs EXCEPT ![job[s]] = "new"]
    /\ UNCHANGED <<poolVars, job, callerVars>>

\* The callers after pthread_cond_signal( &mIdleCond ), which wakes one of
\* those blocked, and, when all are idle, after that of mFullCond.
Signalled(c, allIdle) ==
    [d \in Caller |->
        CASE d = c -> "woken"
          [] allIdle /\ cpc[d] = "waitfull" -> "fullwoken"
          [] OTHER -> cpc[d]]

Blocked == {d \in Caller : cpc[d] = "blocked"}

\* Mutant of Save: mIdleCond is not signalled.
SaveQuiet(s) ==
    /\ tpc[s] = "save"
    /\ main = NoCaller
    /\ Len(idle) < MaxThreads
    /\ idle' = Append(idle, s)
    /\ tpc' = [tpc EXCEPT ![s] = "park"]
    /\ full' = (full \/ Len(idle) + 1 >= total)
    /\ cpc' = Signalled(NoCaller, Len(idle) + 1 >= total)
    /\ UNCHANGED <<main, total, shutdown, job, call, target, signalled, jobs>>

\* Mutant of Save: the test for mFullCallback forgets one thread.
SaveEarly(s) ==
    /\ tpc[s] = "save"
    /\ main = NoCaller
    /\ Len(idle) < MaxThreads
    /\ idle' = Append(idle, s)
    /\ tpc' = [tpc EXCEPT ![s] = "park"]
    /\ LET allIdle == Len(idle) + 2 >= total
       IN  /\ full' = (full \/ allIdle)
           /\ \/ \E c \in Blocked : cpc' = Signalled(c, allIdle)
              \/ Blocked = {} /\ cpc' = Signalled(NoCaller, allIdle)
    /\ UNCHANGED <<main, total, shutdown, job, call, target, signalled, jobs>>

\* Mutant of Save: mFullCallback and mFullCond wait for one thread too many.
SaveLate(s) ==
    /\ tpc[s] = "save"
    /\ main = NoCaller
    /\ Len(idle) < MaxThreads
    /\ idle' = Append(idle, s)
    /\ tpc' = [tpc EXCEPT ![s] = "park"]
    /\ LET allIdle == Len(idle) >= total
       IN  /\ full' = (full \/ allIdle)
           /\ \/ \E c \in Blocked : cpc' = Signalled(c, allIdle)
              \/ Blocked = {} /\ cpc' = Signalled(NoCaller, allIdle)
    /\ UNCHANGED <<main, total, shutdown, job, call, target, signalled, jobs>>

\* Mutant of Save: the test for room in mThreadList is off by one.
SaveOver(s) ==
    /\ tpc[s] = "save"
    /\ main = NoCaller
    /\ Len(idle) <= MaxThreads
    /\ idle' = Append(idle, s)
    /\ tpc' = [tpc EXCEPT ![s] = "park"]
    /\ LET allIdle == Len(idle) + 1 >= total
       IN  /\ full' = (full \/ allIdle)
           /\ \/ \E c \in Blocked : cpc' = Signalled(c, allIdle)
              \/ Blocked = {} /\ cpc' = Signalled(NoCaller, allIdle)
    /\ UNCHANGED <<main, total, shutdown, job, call, target, signalled, jobs>>

\* saveThread() returned 0.
Save(s) ==
    /\ tpc[s] = "save"
    /\ main = NoCaller
    /\ Len(idle) < MaxThreads
    /\ idle' = Append(idle, s)
    /\ tpc' = [tpc EXCEPT ![s] = "park"]
    /\ LET allIdle == Len(idle) + 1 >= total
       IN  /\ full' = (full \/ allIdle)
           /\ \/ \E c \in Blocked : cpc' = Signalled(c, allIdle)
              \/ Blocked = {} /\ cpc' = Signalled(NoCaller, allIdle)
    /\ UNCHANGED <<main, total, shutdown, job, call, target, signalled, jobs>>

\* The list has no room: the thread ends, and mTotal still counts it.
SaveRefused(s) ==
    /\ tpc[s] = "save"
    /\ main = NoCaller
    /\ Len(idle) >= MaxThreads
    /\ tpc' = [tpc EXCEPT ![s] = "none"]
    /\ job' = [job EXCEPT ![s] = NoJob]
    /\ UNCHANGED <<poolVars, callerVars, jobs>>

\* pthread_cond_wait: the thread's mutex is released.
Park(s) ==
    /\ tpc[s] = "park"
    /\ tpc' = [tpc EXCEPT ![s] = "wait"]
    /\ UNCHANGED <<poolVars, job, callerVars, jobs>>

\* Mutant of Exit: mEmptyCond is signalled by the first thread that ends.
ExitFirst(s) ==
    /\ tpc[s] = "exit"
    /\ main = NoCaller
    /\ tpc' = [tpc EXCEPT ![s] = "gone"]
    /\ total' = total - 1
    /\ cpc' = [d \in Caller |->
                 IF cpc[d] = "waitempty" THEN "emptywoken" ELSE cpc[d]]
    /\ UNCHANGED <<main, idle, shutdown, full, job, call, target, signalled, jobs>>

Exit(s) ==
    /\ tpc[s] = "exit"
    /\ main = NoCaller
    /\ tpc' = [tpc EXCEPT ![s] = "gone"]
    /\ total' = total - 1
    /\ cpc' = [d \in Caller |->
                 IF total' <= 0 /\ cpc[d] = "waitempty" THEN "emptywoken" ELSE cpc[d]]
    /\ UNCHANGED <<main, idle, shutdown, full, job, call, target, signalled, jobs>>

-----------------------------------------------------------------------------
(* ~SP_ProcThreadPool                                                      *)

\* No other call is in progress: that is the owner's duty.
Delete(d) ==
    /\ \A e \in Caller : Outside(e)
    /\ cpc' = [cpc EXCEPT ![d] = "del"]
    /\ UNCHANGED <<poolVars, tpc, job, call, target, signalled, jobs>>

DeleteWait(d) ==
    /\ cpc[d] = "del"
    /\ main = NoCaller
    /\ Len(idle) < total
    /\ cpc' = [cpc EXCEPT ![d] = "waitfull"]
    /\ UNCHANGED <<poolVars, tpc, job, call, target, signalled, jobs>>

\* Mutant of DeleteShutdown: the destructor does not wait for mFullCond.
DeleteAtOnce(d) ==
    /\ main = NoCaller
    /\ cpc[d] \in {"del", "fullwoken"}
    /\ shutdown' = TRUE
    /\ main' = d
    /\ cpc' = [cpc EXCEPT ![d] = "delsignal"]
    /\ UNCHANGED <<idle, total, full, tpc, job, call, target, signalled, jobs>>

DeleteShutdown(d) ==
    /\ main = NoCaller
    /\ cpc[d] = "fullwoken" \/ (cpc[d] = "del" /\ Len(idle) >= total)
    /\ shutdown' = TRUE
    /\ main' = d
    /\ cpc' = [cpc EXCEPT ![d] = "delsignal"]
    /\ UNCHANGED <<idle, total, full, tpc, job, call, target, signalled, jobs>>

DeleteSignal(d) ==
    /\ cpc[d] = "delsignal"
    /\ signalled < Len(idle)
    /\ ~OwnHeld(idle[signalled + 1])
    /\ tpc' = Woken(idle[signalled + 1])
    /\ signalled' = signalled + 1
    /\ UNCHANGED <<poolVars, job, cpc, call, target, jobs>>

DeleteWaitEmpty(d) ==
    /\ cpc[d] = "delsignal"
    /\ signalled = Len(idle)
    /\ total > 0
    /\ main' = NoCaller
    /\ cpc' = [cpc EXCEPT ![d] = "waitempty"]
    /\ UNCHANGED <<idle, total, shutdown, full, tpc, job, call, target,
                   signalled, jobs>>

\* The structures of the listed threads are freed.
DeleteFree(d) ==
    /\ \/ cpc[d] = "delsignal" /\ signalled = Len(idle) /\ total <= 0
       \/ cpc[d] = "emptywoken" /\ main = NoCaller
    /\ tpc' = [s \in Slot |-> IF s \in ToSet(idle) /\ tpc[s] = "gone"
                                THEN "none" ELSE tpc[s]]
    /\ idle' = <<>>
    /\ main' = NoCaller
    /\ cpc' = [cpc EXCEPT ![d] = "deleted"]
    /\ UNCHANGED <<total, shutdown, full, job, call, target, signalled, jobs>>

-----------------------------------------------------------------------------
CallerStep(d) ==
    \/ Block(d) \/ WaitDone(d)
    \/ (\E s \in Slot : Create(d, s)) \/ CreateFail(d)
    \/ Take(d) \/ Signal(d)
    \/ DeleteWait(d) \/ DeleteShutdown(d) \/ DeleteSignal(d)
    \/ DeleteWaitEmpty(d) \/ DeleteFree(d)

CallerCall(d) ==
    \/ \E j \in Job : Dispatch(d, j)
    \/ Wait4idler(d)
    \/ Delete(d)

ThreadStep(s) ==
    \/ Test(s) \/ Finish(s) \/ Save(s) \/ SaveRefused(s) \/ Park(s) \/ Exit(s)

Next ==
    \/ \E d \in Caller : CallerStep(d) \/ CallerCall(d)
    \/ \E s \in Slot : ThreadStep(s)

Spec == Init /\ [][Next]_vars

\* A call that was made and a thread that was created go on: jobs return, and
\* a mutex is eventually granted to each thread that waits for it.
Fairness ==
    /\ \A d \in Caller : SF_vars(CallerStep(d))
    /\ \A s \in Slot : SF_vars(ThreadStep(s))

FairSpec == Spec /\ Fairness

-----------------------------------------------------------------------------
(* Properties                                                              *)

\* The variables have their types; mIndex stays within mThreadList, however many
\* threads dispatch() has made.
TypeOK ==
    /\ main \in Caller \cup {NoCaller}
    /\ idle \in Seq(Slot)
    /\ Len(idle) <= MaxThreads   \* the entries of mThreadList
    /\ total \in Int
    /\ shutdown \in BOOLEAN
    /\ full \in BOOLEAN
    /\ tpc \in [Slot -> ThreadState]
    /\ job \in [Slot -> Job \cup {NoJob}]
    /\ cpc \in [Caller -> CallerState]
    /\ call \in [Caller -> Job \cup {NoJob}]
    /\ target \in [Caller -> Slot \cup {NoSlot}]
    /\ signalled \in Nat
    /\ jobs \in [Job -> JobState]

Taken == {target[d] : d \in Caller} \ {NoSlot}

\* Threads that exist.
Alive == {s \in Slot : tpc[s] \notin {"none", "gone"}}

\* Threads that have a job they have not finished.
Busy == {s \in Slot : tpc[s] \in {"start", "run"}} \cup Taken

\* A job that was given is run by exactly one thread, and once: dispatch()
\* never overwrites the mArg of a thread that has not run its last job, and no
\* thread runs a job a second time.
JobOnce ==
    ~shutdown =>
        /\ \A s \in Busy :
              /\ job[s] # NoJob
              /\ jobs[job[s]] = IF tpc[s] = "run" THEN "running" ELSE "given"
        /\ \A s, u \in Busy : job[s] = job[u] => s = u
        /\ \A j \in Job : jobs[j] \in {"given", "running"} =>
                             \E s \in Busy : job[s] = j

\* mFullCallback: "set a callback for when all threads are idle"
\* (spprocthread.hpp:20).  When it has been called since the last dispatch, no
\* job is running or waits for its thread.
FullSound == full => \A j \in Job : jobs[j] \notin {"given", "running"}

\* The destructor sets mIsShutdown when no job is left that a thread would
\* drop at the test of its loop.
ShutdownDrains == shutdown => \A j \in Job : jobs[j] = "new"

\* When the destructor has returned no thread is left that would touch the
\* pool or the structures that were freed.
DeleteSafe ==
    (\E d \in Caller : cpc[d] = "deleted") => \A s \in Slot : tpc[s] = "none"

\* The destructor drops no job and outlives every thread.
DestructorSafe == ShutdownDrains /\ DeleteSafe

-----------------------------------------------------------------------------
(* The inductive invariant behind the safety properties.                   *)

Deleting == {d \in Caller : cpc[d] \in {"del", "waitfull", "fullwoken",
                              "delsignal", "waitempty", "emptywoken", "deleted"}}

ShutdownStates == {"delsignal", "waitempty", "emptywoken", "deleted"}

MainInv == \A d \in Caller : main = d <=> cpc[d] \in {"signal", "delsignal"}

\* A call has its job; while mMainMutex is held for the signal, the thread
\* that was taken is parked or waits, and has been given the job.
CallInv ==
    \A d \in Caller :
        /\ call[d] # NoJob =>
              /\ cpc[d] \in {"lock", "blocked", "woken", "signal"}
              /\ jobs[call[d]] = IF cpc[d] = "signal" THEN "given" ELSE "asked"
        /\ cpc[d] = "signal" =>
              /\ call[d] # NoJob
              /\ target[d] # NoSlot
              /\ job[target[d]] = call[d]
        /\ target[d] # NoSlot =>
              /\ cpc[d] = "signal"
              /\ tpc[target[d]] \in {"park", "wait"}
              /\ target[d] \notin ToSet(idle)

AskedInv ==
    /\ \A d, e \in Caller : call[d] = call[e] /\ call[d] # NoJob => d = e
    /\ \A j \in Job : jobs[j] = "asked" => \E d \in Caller : call[d] = j

ListInv ==
    /\ \A i, k \in 1..Len(idle) : idle[i] = idle[k] => i = k
    /\ ~shutdown =>
          /\ \A s \in ToSet(idle) : tpc[s] \in {"park", "wait"}
          /\ \A s \in Slot : tpc[s] \notin {"exit", "gone"}
    /\ shutdown =>
          \A s \in Slot : tpc[s] \notin {"run", "save"}
                         /\ (tpc[s] # "none" => s \in ToSet(idle))

\* mTotal is never less than the number of threads.
TotalInv == IsFiniteSet(Alive) /\ Cardinality(Alive) <= total

FullInv ==
    /\ full => Alive \subseteq ToSet(idle)
    /\ \A d \in Caller : cpc[d] = "fullwoken" => Alive \subseteq ToSet(idle)

DeleteInv ==
    /\ \A d \in Deleting, e \in Caller : d = e \/ Outside(e)
    /\ shutdown <=> \E d \in Caller : cpc[d] \in ShutdownStates
    /\ \A d \in Caller : cpc[d] = "emptywoken" => total <= 0

\* All of it together: every step of a caller, of the destructor and of a
\* thread preserves it.
IInv ==
    /\ TypeOK /\ MainInv /\ CallInv /\ AskedInv /\ ListInv /\ TotalInv
    /\ FullInv /\ DeleteInv /\ JobOnce /\ FullSound /\ ShutdownDrains
    /\ DeleteSafe

-----------------------------------------------------------------------------
(* Properties that hold when one thread calls the pool.                    *)

\* With one caller no more than maxThreads threads exist, and mTotal counts
\* them.
ThreadLimit == Cardinality(Alive) = total /\ total <= MaxThreads

\* With one caller the pool does not make it wait in a dispatch() that follows
\* wait4idler().
IdlerReady == \A d \in Caller : cpc[d] = "ready" => ~Full

\* With one caller nobody waits on a condition variable that no thread is on its
\* way to signal: while the caller is in dispatch(), wait4idler() or the
\* destructor there is a thread that will come by.
Awaited ==
    \A d \in Caller :
        /\ cpc[d] \in {"blocked", "waitfull"} =>
              \E s \in Slot : tpc[s] \in {"start", "run", "save"}
        /\ cpc[d] = "waitempty" => \E s \in Slot : tpc[s] \in {"start", "exit"}

\* wait4idler(), mMaxThreads and the conditions do for one caller what the MT
\* server needs of them.
LoneSafe == ThreadLimit /\ IdlerReady /\ Awaited

\* What one caller adds to the invariant: mTotal is exact, and a caller that
\* was woken finds a thread.
LoneInv ==
    /\ ThreadLimit /\ IdlerReady
    /\ \A d \in Caller : cpc[d] = "woken" => idle # <<>>

\* The callback of spprocthread.hpp:20 does come: it has been called whenever
\* every thread of the pool is idle again.  Two callers break it when one takes
\* the thread for which the other was woken.
AllIdleReported == Alive # {} /\ Alive \subseteq ToSet(idle) => full

\* dispatch() and wait4idler() return.
CallReturns ==
    \A d \in Caller : cpc[d] = "lock" ~> cpc[d] \in {"idle", "ready"}

\* A job given to a thread is run to its end.
JobsFinish == \A j \in Job : jobs[j] = "given" ~> jobs[j] = "new"

\* The destructor returns once the jobs in progress are done.
DeleteEnds == \A d \in Caller : cpc[d] = "del" ~> cpc[d] = "deleted"

-----------------------------------------------------------------------------
(* For one caller the pool implements the abstract crew of JobPool.        *)

\* What JobPool sees of the pool.
Crew == IF shutdown THEN [idle |-> 0, total |-> 0, told |-> FALSE]
        ELSE [idle |-> Len(idle), total |-> total, told |-> full]

Jobs == INSTANCE JobPool WITH crew <- Crew

\* The lists, mutexes and signals of the pool do what JobPool promises and
\* MTServer relies on: a job is given while there is room, a thread is made only
\* when none is idle, the callback comes with the last thread, the destructor
\* waits for all of them.
JobPoolSpec == Jobs!Spec

=============================================================================
