-------------------------- MODULE ThreadPoolProofs --------------------------
(***************************************************************************)
(* Proofs of the safety properties of ThreadPool, for every set of         *)
(* callers, structures and jobs and every mMaxThreads.                     *)
(***************************************************************************)
EXTENDS ThreadPool, ListLemmas, FiniteSetTheorems, TLAPS

-----------------------------------------------------------------------------
(* Type correctness.                                                       *)

LEMMA TypeInit == Init => TypeOK
<1> SUFFICES ASSUME Init PROVE TypeOK
  OBVIOUS
<1>1. idle \in Seq(Slot) /\ Len(idle) <= MaxThreads
  BY PoolAssumption DEF Init
<1>2. shutdown \in BOOLEAN /\ full \in BOOLEAN
  BY Zenon DEF Init
<1> QED BY <1>1, <1>2 DEF Init, TypeOK, ThreadState, CallerState, JobState

\* What saveThread() does to the callers.
LEMMA SaveCallers ==
    ASSUME TypeOK, NEW s \in Slot, Save(s)
    PROVE  /\ cpc' \in [Caller -> CallerState]
           /\ \A d \in Caller :
                 \/ cpc'[d] = cpc[d]
                 \/ cpc[d] = "blocked" /\ cpc'[d] = "woken"
                 \/ /\ cpc[d] = "waitfull" /\ cpc'[d] = "fullwoken"
                    /\ Len(idle) + 1 >= total
<1> DEFINE allIdle == Len(idle) + 1 >= total
<1>0. cpc \in [Caller -> CallerState]
  BY DEF TypeOK
<1>1. CASE \E c \in Blocked : cpc' = Signalled(c, allIdle)
  <2>1. PICK c \in Blocked : cpc' = Signalled(c, allIdle)
    BY <1>1
  <2> HIDE DEF allIdle
  <2>2. \A d \in Caller : cpc'[d] = CASE d = c -> "woken"
                              [] allIdle /\ cpc[d] = "waitfull" -> "fullwoken"
                              [] OTHER -> cpc[d]
    BY <2>1 DEF Signalled
  <2>3. cpc[c] = "blocked"
    BY DEF Blocked
  <2>4. cpc' \in [Caller -> CallerState]
    BY <1>0, <2>1, <2>2 DEF Signalled, CallerState
  <2> QED BY <2>2, <2>3, <2>4 DEF allIdle
<1>2. CASE cpc' = Signalled(NoCaller, allIdle)
  <2> HIDE DEF allIdle
  <2>1. \A d \in Caller : cpc'[d] = CASE d = NoCaller -> "woken"
                              [] allIdle /\ cpc[d] = "waitfull" -> "fullwoken"
                              [] OTHER -> cpc[d]
    BY <1>2 DEF Signalled
  <2>2. NoCaller \notin Caller
    BY PoolAssumption
  <2>3. cpc' \in [Caller -> CallerState]
    BY <1>0, <1>2, <2>1 DEF Signalled, CallerState
  <2> QED BY <2>1, <2>2, <2>3 DEF allIdle
<1> QED BY <1>1, <1>2 DEF Save

LEMMA TypeStep == TypeOK /\ [Next]_vars => TypeOK'
<1> SUFFICES ASSUME TypeOK, [Next]_vars PROVE TypeOK'
  OBVIOUS
<1> USE PoolAssumption DEF TypeOK, ThreadState, CallerState, JobState
<1>1. ASSUME NEW d \in Caller, CallerCall(d) PROVE TypeOK'
  BY <1>1 DEF CallerCall, Dispatch, Wait4idler, Delete, poolVars, callerVars
<1>2. ASSUME NEW d \in Caller, Block(d) \/ WaitDone(d) \/ CreateFail(d)
      PROVE  TypeOK'
  BY <1>2 DEF Block, WaitDone, CreateFail, poolVars, callerVars
<1>3. ASSUME NEW d \in Caller, NEW s \in Slot, Create(d, s) PROVE TypeOK'
  <2>1. call[d] \in Job /\ jobs' = [jobs EXCEPT ![call[d]] = "given"]
    BY <1>3 DEF Create
  <2>2. jobs' \in [Job -> JobState] /\ job' \in [Slot -> Job \cup {NoJob}]
    BY <1>3, <2>1 DEF Create
  <2>3. full' \in BOOLEAN
    BY <1>3, Zenon DEF Create
  <2> QED BY <1>3, <2>2, <2>3 DEF Create
<1>4. ASSUME NEW d \in Caller, Take(d) PROVE TypeOK'
  <2>1. /\ Last(idle) \in Slot /\ Front(idle) \in Seq(Slot)
        /\ Len(Front(idle)) = Len(idle) - 1
    BY <1>4, TakeLast DEF Take
  <2>2. call[d] \in Job /\ jobs' = [jobs EXCEPT ![call[d]] = "given"]
    BY <1>4 DEF Take
  <2>3. jobs' \in [Job -> JobState] /\ job' \in [Slot -> Job \cup {NoJob}]
    BY <1>4, <2>2 DEF Take
  <2>4. full' \in BOOLEAN
    BY <1>4, Zenon DEF Take
  <2> QED BY <1>4, <2>1, <2>3, <2>4 DEF Take
<1>5. ASSUME NEW d \in Caller, Signal(d) PROVE TypeOK'
  BY <1>5 DEF Signal, Woken
<1>6. ASSUME NEW d \in Caller, DeleteWait(d) \/ DeleteShutdown(d) \/ DeleteWaitEmpty(d)
      PROVE  TypeOK'
  BY <1>6 DEF DeleteWait, DeleteShutdown, DeleteWaitEmpty, poolVars, callerVars
<1>7. ASSUME NEW d \in Caller, DeleteSignal(d) PROVE TypeOK'
  BY <1>7 DEF DeleteSignal, Woken, poolVars
<1>8. ASSUME NEW d \in Caller, DeleteFree(d) PROVE TypeOK'
  BY <1>8, EmptyList DEF DeleteFree
<1>9. ASSUME NEW s \in Slot, Save(s) PROVE TypeOK'
  <2>1. Append(idle, s) \in Seq(Slot) /\ Len(Append(idle, s)) = Len(idle) + 1
    BY AppendNew
  <2>2. cpc' \in [Caller -> CallerState]
    BY <1>9, SaveCallers
  <2>3. full' \in BOOLEAN
    BY <1>9 DEF Save
  <2> QED BY <1>9, <2>1, <2>2, <2>3 DEF Save
<1>10. ASSUME NEW s \in Slot, Test(s) \/ Finish(s) \/ SaveRefused(s) \/ Park(s)
       PROVE  TypeOK'
  BY <1>10 DEF Test, Finish, SaveRefused, Park, poolVars, callerVars
<1>11. ASSUME NEW s \in Slot, Exit(s) PROVE TypeOK'
  BY <1>11 DEF Exit
<1>12. CASE UNCHANGED vars
  BY <1>12 DEF vars, poolVars, callerVars
<1> QED
  BY <1>1, <1>2, <1>3, <1>4, <1>5, <1>6, <1>7, <1>8, <1>9, <1>10, <1>11, <1>12
     DEF Next, CallerStep, ThreadStep

-----------------------------------------------------------------------------
(* Who holds mMainMutex, and who destroys the pool.                        *)

LEMMA ControlStep ==
    TypeOK /\ MainInv /\ DeleteInv /\ [Next]_vars => MainInv' /\ DeleteInv'
<1> SUFFICES ASSUME TypeOK, MainInv, DeleteInv, [Next]_vars
             PROVE  MainInv' /\ DeleteInv'
  OBVIOUS
<1>0. /\ cpc \in [Caller -> CallerState] /\ NoCaller \notin Caller
      /\ \A d \in Caller : main = d <=> cpc[d] \in {"signal", "delsignal"}
      /\ \A d, e \in Caller : d \in Deleting => d = e \/ cpc[e] \in {"idle", "ready"}
      /\ shutdown <=> \E d \in Caller : cpc[d] \in ShutdownStates
      /\ \A d \in Caller : cpc[d] = "emptywoken" => total <= 0
      /\ total \in Int
  BY PoolAssumption DEF TypeOK, MainInv, DeleteInv, Outside
<1> USE <1>0 DEF MainInv, DeleteInv, Deleting, ShutdownStates, Outside, CallerState
<1>1. ASSUME NEW d \in Caller, CallerCall(d) PROVE MainInv' /\ DeleteInv'
  BY <1>1 DEF CallerCall, Dispatch, Wait4idler, Delete, Usable, poolVars, callerVars
<1>2. ASSUME NEW d \in Caller, Block(d) \/ WaitDone(d) \/ CreateFail(d)
      PROVE  MainInv' /\ DeleteInv'
  BY <1>2 DEF Block, WaitDone, CreateFail, Passed, poolVars, callerVars
<1>3. ASSUME NEW d \in Caller, NEW s \in Slot, Create(d, s)
      PROVE  MainInv' /\ DeleteInv'
  BY <1>3 DEF Create, Passed
<1>4. ASSUME NEW d \in Caller, Take(d) PROVE MainInv' /\ DeleteInv'
  BY <1>4 DEF Take, Passed
<1>5. ASSUME NEW d \in Caller, Signal(d) PROVE MainInv' /\ DeleteInv'
  BY <1>5 DEF Signal
<1>6. ASSUME NEW d \in Caller, DeleteWait(d) PROVE MainInv' /\ DeleteInv'
  BY <1>6 DEF DeleteWait, poolVars
<1>7. ASSUME NEW d \in Caller, DeleteShutdown(d) PROVE MainInv' /\ DeleteInv'
  BY <1>7 DEF DeleteShutdown
<1>8. ASSUME NEW d \in Caller, DeleteSignal(d) PROVE MainInv' /\ DeleteInv'
  BY <1>8 DEF DeleteSignal, poolVars
<1>9. ASSUME NEW d \in Caller, DeleteWaitEmpty(d) PROVE MainInv' /\ DeleteInv'
  BY <1>9 DEF DeleteWaitEmpty
<1>10. ASSUME NEW d \in Caller, DeleteFree(d) PROVE MainInv' /\ DeleteInv'
  BY <1>10 DEF DeleteFree
<1>11. ASSUME NEW s \in Slot, Save(s) PROVE MainInv' /\ DeleteInv'
  <2>1. /\ cpc' \in [Caller -> CallerState]
        /\ \A d \in Caller :
              \/ cpc'[d] = cpc[d]
              \/ cpc[d] = "blocked" /\ cpc'[d] = "woken"
              \/ cpc[d] = "waitfull" /\ cpc'[d] = "fullwoken"
    BY <1>11, SaveCallers
  <2>2. main' = main /\ shutdown' = shutdown /\ total' = total
    BY <1>11 DEF Save
  <2> QED BY <2>1, <2>2
<1>12. ASSUME NEW s \in Slot, Test(s) \/ Finish(s) \/ SaveRefused(s) \/ Park(s)
       PROVE  MainInv' /\ DeleteInv'
  BY <1>12 DEF Test, Finish, SaveRefused, Park, poolVars, callerVars
<1>13. ASSUME NEW s \in Slot, Exit(s) PROVE MainInv' /\ DeleteInv'
  BY <1>13 DEF Exit
<1>14. CASE UNCHANGED vars
  BY <1>14 DEF vars, poolVars, callerVars
<1> QED
  BY <1>1, <1>2, <1>3, <1>4, <1>5, <1>6, <1>7, <1>8, <1>9, <1>10, <1>11,
     <1>12, <1>13, <1>14
     DEF Next, CallerStep, ThreadStep

-----------------------------------------------------------------------------
(* The calls in progress.                                                  *)

LEMMA CallStep ==
    /\ TypeOK /\ MainInv /\ DeleteInv /\ CallInv /\ AskedInv /\ ListInv
    /\ JobOnce /\ ShutdownDrains
    /\ [Next]_vars
    => CallInv' /\ AskedInv'
<1> SUFFICES ASSUME TypeOK, MainInv, DeleteInv, CallInv, AskedInv, ListInv,
                    JobOnce, ShutdownDrains, [Next]_vars
             PROVE  CallInv' /\ AskedInv'
  OBVIOUS
<1>0. /\ cpc \in [Caller -> CallerState] /\ call \in [Caller -> Job \cup {NoJob}]
      /\ target \in [Caller -> Slot \cup {NoSlot}]
      /\ tpc \in [Slot -> ThreadState] /\ job \in [Slot -> Job \cup {NoJob}]
      /\ jobs \in [Job -> JobState] /\ idle \in Seq(Slot)
      /\ NoCaller \notin Caller /\ NoSlot \notin Slot /\ NoJob \notin Job
      /\ Distinct(idle) /\ ToSet(idle) \subseteq Slot
  BY PoolAssumption DEF TypeOK, ListInv, Distinct, ToSet
<1> USE <1>0 DEF CallInv, AskedInv, CallerState, ThreadState, JobState
<1>1. ASSUME NEW d \in Caller, NEW j \in Job, Dispatch(d, j)
      PROVE  CallInv' /\ AskedInv'
  <2>1. call[d] = NoJob /\ target[d] = NoSlot
    BY <1>1 DEF Dispatch, Outside
  <2> QED BY <1>1, <2>1 DEF Dispatch, Outside, poolVars
<1>2. ASSUME NEW d \in Caller, Wait4idler(d) \/ Delete(d)
      PROVE  CallInv' /\ AskedInv'
  BY <1>2 DEF Wait4idler, Delete, Outside, poolVars
<1>3. ASSUME NEW d \in Caller, Block(d) \/ WaitDone(d)
      PROVE  CallInv' /\ AskedInv'
  BY <1>3 DEF Block, WaitDone, Passed, poolVars
<1>4. ASSUME NEW d \in Caller, CreateFail(d) PROVE CallInv' /\ AskedInv'
  <2>1. call[d] \in Job /\ jobs' = [jobs EXCEPT ![call[d]] = "new"]
    BY <1>4 DEF CreateFail
  <2> QED BY <1>4, <2>1 DEF CreateFail, Passed, poolVars
<1>5. ASSUME NEW d \in Caller, NEW s \in Slot, Create(d, s)
      PROVE  CallInv' /\ AskedInv'
  <2>1. call[d] \in Job /\ jobs' = [jobs EXCEPT ![call[d]] = "given"]
    BY <1>5 DEF Create
  <2>2. target[d] = NoSlot /\ \A e \in Caller : target[e] # s
    BY <1>5 DEF Create, Passed
  <2> QED BY <1>5, <2>1, <2>2 DEF Create, Passed
<1>6. ASSUME NEW d \in Caller, Take(d) PROVE CallInv' /\ AskedInv'
  <2>1. call[d] \in Job /\ jobs' = [jobs EXCEPT ![call[d]] = "given"]
    BY <1>6 DEF Take
  <2>2. \A e \in Caller : cpc[e] # "signal" /\ target[e] = NoSlot
    BY <1>6 DEF Take, Passed, MainInv
  <2>3. ~shutdown
    BY <2>1, <1>6 DEF Take, Passed, ShutdownDrains
  <2>4. /\ Last(idle) \in ToSet(idle) /\ Last(idle) \in Slot
        /\ ToSet(Front(idle)) = ToSet(idle) \ {Last(idle)}
    BY <1>6, TakeLast DEF Take
  <2>5. tpc[Last(idle)] \in {"park", "wait"}
    BY <2>3, <2>4 DEF ListInv
  <2> QED BY <1>6, <2>1, <2>2, <2>4, <2>5 DEF Take, Passed
<1>7. ASSUME NEW d \in Caller, Signal(d) PROVE CallInv' /\ AskedInv'
  <2>1. \A e \in Caller : e # d => cpc[e] # "signal" /\ target[e] = NoSlot
    BY <1>7 DEF Signal, MainInv
  <2>2. jobs[call[d]] = "given" /\ call[d] \in Job
    BY <1>7 DEF Signal
  <2> QED BY <1>7, <2>1, <2>2 DEF Signal
<1>8. ASSUME NEW d \in Caller, DeleteWait(d) \/ DeleteShutdown(d) \/ DeleteWaitEmpty(d)
      PROVE  CallInv' /\ AskedInv'
  BY <1>8 DEF DeleteWait, DeleteShutdown, DeleteWaitEmpty, poolVars
<1>9. ASSUME NEW d \in Caller, DeleteSignal(d) PROVE CallInv' /\ AskedInv'
  <2>1. \A e \in Caller : target[e] = NoSlot
    BY <1>9 DEF DeleteSignal, MainInv
  <2> QED BY <1>9, <2>1 DEF DeleteSignal, poolVars
<1>10. ASSUME NEW d \in Caller, DeleteFree(d) PROVE CallInv' /\ AskedInv'
  <2>1. \A e \in Caller : target[e] = NoSlot
    BY <1>10 DEF DeleteFree, MainInv, DeleteInv, Deleting, Outside
  <2> QED BY <1>10, <2>1 DEF DeleteFree
<1>11. ASSUME NEW s \in Slot, Save(s) PROVE CallInv' /\ AskedInv'
  <2>1. \A d \in Caller :
            \/ cpc'[d] = cpc[d]
            \/ cpc[d] = "blocked" /\ cpc'[d] = "woken"
            \/ cpc[d] = "waitfull" /\ cpc'[d] = "fullwoken"
    BY <1>11, SaveCallers
  <2>2. /\ call' = call /\ target' = target /\ jobs' = jobs /\ job' = job
        /\ tpc' = [tpc EXCEPT ![s] = "park"] /\ idle' = Append(idle, s)
        /\ tpc[s] = "save" /\ main = NoCaller
    BY <1>11 DEF Save
  <2>3. \A d \in Caller : target[d] = NoSlot
    BY <2>2 DEF MainInv
  <2> QED BY <2>1, <2>2, <2>3
<1>12. ASSUME NEW s \in Slot, Test(s) PROVE CallInv' /\ AskedInv'
  <2>1. CASE shutdown
    BY <1>12, <2>1 DEF Test, poolVars, callerVars
  <2>2. CASE ~shutdown
    <3>1. s \in Busy /\ jobs[job[s]] = "given"
      BY <1>12, <2>2 DEF Test, JobOnce, Busy
    <3>2. \A d \in Caller : target[d] # s
      BY <1>12 DEF Test
    <3>3. \A d \in Caller : cpc[d] = "signal" =>
                target[d] \in Busy /\ call[d] # job[s]
      BY <2>2, <3>1, <3>2 DEF JobOnce, Busy, Taken
    <3>4. \A d \in Caller : call[d] # NoJob => call[d] # job[s]
      BY <3>1, <3>3
    <3>5. /\ tpc' = [tpc EXCEPT ![s] = "run"]
          /\ jobs' = [jobs EXCEPT ![job[s]] = "running"]
          /\ UNCHANGED <<poolVars, job, callerVars>>
      BY <1>12, <2>2 DEF Test
    <3>6. \A j \in Job : jobs'[j] = "asked" => jobs[j] = "asked"
      BY <3>5
    <3>7. \A d \in Caller : call[d] # NoJob => jobs'[call[d]] = jobs[call[d]]
      BY <3>4, <3>5
    <3> QED BY <3>2, <3>5, <3>6, <3>7 DEF poolVars, callerVars
  <2> QED BY <2>1, <2>2
<1>13. ASSUME NEW s \in Slot, Finish(s) PROVE CallInv' /\ AskedInv'
  <2>1. ~shutdown
    BY <1>13 DEF Finish, ListInv
  <2>2. jobs[job[s]] = "running"
    BY <1>13, <2>1 DEF Finish, JobOnce, Busy
  <2>3. \A d \in Caller : call[d] # NoJob => call[d] # job[s]
    BY <2>2
  <2>4. \A d \in Caller : target[d] # s
    BY <1>13 DEF Finish
  <2>5. /\ tpc' = [tpc EXCEPT ![s] = "save"]
        /\ jobs' = [jobs EXCEPT ![job[s]] = "new"]
        /\ UNCHANGED <<poolVars, job, callerVars>>
    BY <1>13 DEF Finish
  <2>6. \A j \in Job : jobs'[j] = "asked" => jobs[j] = "asked"
    BY <2>5
  <2>7. \A d \in Caller : call[d] # NoJob => jobs'[call[d]] = jobs[call[d]]
    BY <2>3, <2>5
  <2> QED BY <2>4, <2>5, <2>6, <2>7 DEF poolVars, callerVars
<1>14. ASSUME NEW s \in Slot, SaveRefused(s) \/ Park(s) \/ Exit(s)
       PROVE  CallInv' /\ AskedInv'
  BY <1>14 DEF SaveRefused, Park, Exit, poolVars, callerVars
<1>15. CASE UNCHANGED vars
  BY <1>15 DEF vars, poolVars, callerVars
<1> QED
  BY <1>1, <1>2, <1>3, <1>4, <1>5, <1>6, <1>7, <1>8, <1>9, <1>10, <1>11,
     <1>12, <1>13, <1>14, <1>15
     DEF Next, CallerStep, CallerCall, ThreadStep

-----------------------------------------------------------------------------
(* mThreadList and mTotal.                                                 *)

\* When mIndex is not less than mTotal, every thread is in the list.
LEMMA AllIdle ==
    ASSUME TypeOK, ListInv, TotalInv, ~shutdown, Len(idle) >= total
    PROVE  Alive \subseteq ToSet(idle)
<1>1. /\ idle \in Seq(Slot) /\ Distinct(idle) /\ ToSet(idle) \subseteq Slot
      /\ tpc \in [Slot -> ThreadState] /\ total \in Int
  BY DEF TypeOK, ListInv, Distinct, ToSet
<1>2. ToSet(idle) \subseteq Alive
  BY <1>1 DEF ListInv, Alive
<1>3. IsFiniteSet(Alive) /\ Cardinality(Alive) <= Len(idle)
  BY <1>1, FS_CardinalityType DEF TotalInv
<1> QED BY <1>1, <1>2, <1>3, AllListed

LEMMA ListStep ==
    /\ TypeOK /\ MainInv /\ DeleteInv /\ CallInv /\ ListInv /\ TotalInv /\ FullInv
    /\ [Next]_vars
    => ListInv' /\ TotalInv' /\ FullInv'
<1> SUFFICES ASSUME TypeOK, MainInv, DeleteInv, CallInv, ListInv, TotalInv,
                    FullInv, [Next]_vars
             PROVE  ListInv' /\ TotalInv' /\ FullInv'
  OBVIOUS
<1>0. /\ cpc \in [Caller -> CallerState] /\ tpc \in [Slot -> ThreadState]
      /\ idle \in Seq(Slot) /\ Distinct(idle) /\ ToSet(idle) \subseteq Slot
      /\ total \in Int /\ IsFiniteSet(Alive) /\ Cardinality(Alive) \in Nat
      /\ Cardinality(Alive) <= total /\ Alive \subseteq Slot
      /\ Len(idle) \in Nat
  BY FS_CardinalityType DEF TypeOK, ListInv, TotalInv, Distinct, ToSet, Alive
<1>a. ASSUME Alive' = Alive, total' = total PROVE TotalInv'
  BY <1>0, <1>a DEF TotalInv
<1>b. ASSUME idle' = idle, tpc' = tpc, shutdown' = shutdown PROVE ListInv'
  BY <1>b DEF ListInv
<1>c. ASSUME NEW d \in Caller, Passed(d)
      PROVE  ~shutdown /\ \A e \in Caller : cpc[e] # "fullwoken"
  BY <1>0, <1>c DEF DeleteInv, Deleting, Outside, Passed, ShutdownStates
<1>1. ASSUME NEW d \in Caller, CallerCall(d) \/ Block(d) \/ WaitDone(d) \/ CreateFail(d)
                                \/ DeleteWait(d) \/ DeleteWaitEmpty(d)
      PROVE  ListInv' /\ TotalInv' /\ FullInv'
  <2>1. /\ idle' = idle /\ tpc' = tpc /\ shutdown' = shutdown /\ total' = total
        /\ full' = full
        /\ \A e \in Caller : cpc'[e] = "fullwoken" => cpc[e] = "fullwoken"
    BY <1>0, <1>1
       DEF CallerCall, Dispatch, Wait4idler, Delete, Block, WaitDone, CreateFail,
           DeleteWait, DeleteWaitEmpty, poolVars
  <2>2. Alive' = Alive
    BY <2>1 DEF Alive
  <2> QED BY <2>1, <2>2, <1>a, <1>b DEF FullInv
<1>2. ASSUME NEW d \in Caller, NEW s \in Slot, Create(d, s)
      PROVE  ListInv' /\ TotalInv' /\ FullInv'
  <2>1. /\ idle' = <<>> /\ idle = <<>> /\ ~shutdown /\ ~shutdown' /\ ~full'
        /\ tpc' = [tpc EXCEPT ![s] = "start"] /\ tpc[s] = "none"
        /\ total' = total + 1
        /\ \A e \in Caller : cpc'[e] # "fullwoken"
    BY <1>0, <1>2, <1>c DEF Create
  <2>2. Alive' = Alive \cup {s} /\ s \notin Alive
    BY <1>0, <2>1 DEF Alive
  <2>3. IsFiniteSet(Alive') /\ Cardinality(Alive') = Cardinality(Alive) + 1
    BY <1>0, <2>2, FS_AddElement
  <2>4. ListInv'
    BY <1>0, <2>1, EmptyList DEF ListInv
  <2> QED BY <1>0, <2>1, <2>3, <2>4 DEF TotalInv, FullInv
<1>3. ASSUME NEW d \in Caller, Take(d) PROVE ListInv' /\ TotalInv' /\ FullInv'
  <2>1. /\ idle' = Front(idle) /\ idle # <<>> /\ ~shutdown /\ ~shutdown' /\ ~full'
        /\ tpc' = tpc /\ total' = total
        /\ \A e \in Caller : cpc'[e] # "fullwoken"
    BY <1>0, <1>3, <1>c DEF Take
  <2>2. Distinct(idle') /\ ToSet(idle') \subseteq ToSet(idle)
    BY <1>0, <2>1, TakeLast
  <2>3. ListInv'
    BY <2>1, <2>2 DEF ListInv, Distinct
  <2>4. Alive' = Alive
    BY <2>1 DEF Alive
  <2> QED BY <2>1, <2>3, <2>4, <1>a DEF FullInv
<1>4. ASSUME NEW d \in Caller, Signal(d) PROVE ListInv' /\ TotalInv' /\ FullInv'
  <2>1. /\ target[d] \in Slot /\ tpc[target[d]] = "wait"
        /\ target[d] \notin ToSet(idle)
        /\ tpc' = [tpc EXCEPT ![target[d]] = "start"]
    <3>1. target[d] \in Slot /\ tpc[target[d]] = "wait" /\ target[d] \notin ToSet(idle)
      BY <1>0, <1>4 DEF Signal, CallInv, TypeOK, OwnHeld
    <3>2. tpc' = Woken(target[d])
      BY <1>4 DEF Signal
    <3>3. tpc' = [tpc EXCEPT ![target[d]] = IF tpc[target[d]] = "wait"
                                              THEN "start" ELSE tpc[target[d]]]
      BY <1>0, <3>1, <3>2 DEF Woken
    <3> QED BY <3>1, <3>3
  <2>2. /\ idle' = idle /\ shutdown' = shutdown /\ total' = total /\ full' = full
        /\ \A e \in Caller : cpc'[e] = "fullwoken" => cpc[e] = "fullwoken"
    BY <1>0, <1>4 DEF Signal
  <2>3. Alive' = Alive
    BY <1>0, <2>1 DEF Alive
  <2>4. ListInv'
    BY <1>0, <2>1, <2>2 DEF ListInv
  <2> QED BY <2>2, <2>3, <2>4, <1>a DEF FullInv
<1>5. ASSUME NEW d \in Caller, DeleteShutdown(d)
      PROVE  ListInv' /\ TotalInv' /\ FullInv'
  <2>1. /\ idle' = idle /\ tpc' = tpc /\ total' = total /\ full' = full /\ shutdown'
        /\ \A e \in Caller : cpc'[e] = "fullwoken" => cpc[e] = "fullwoken"
    BY <1>0, <1>5 DEF DeleteShutdown
  <2>2. ~shutdown
    BY <1>0, <1>5 DEF DeleteShutdown, DeleteInv, Deleting, ShutdownStates, Outside
  <2>3. Alive \subseteq ToSet(idle)
    BY <1>0, <1>5, <2>2, AllIdle DEF DeleteShutdown, FullInv
  <2>4. \A s \in Slot :
            tpc[s] \notin {"run", "save"} /\ (tpc[s] # "none" => s \in ToSet(idle))
    BY <1>0, <2>2, <2>3 DEF ListInv, Alive, ThreadState
  <2>5. ListInv'
    BY <2>1, <2>4 DEF ListInv
  <2>6. Alive' = Alive
    BY <2>1 DEF Alive
  <2> QED BY <2>1, <2>5, <2>6, <1>a DEF FullInv
<1>6. ASSUME NEW d \in Caller, DeleteSignal(d)
      PROVE  ListInv' /\ TotalInv' /\ FullInv'
  <2>1. shutdown
    BY <1>6 DEF DeleteSignal, DeleteInv, ShutdownStates
  <2>2. PICK s \in Slot : tpc' = Woken(s)
    <3>1. idle[signalled + 1] \in Slot
      BY <1>0, <1>6 DEF DeleteSignal, TypeOK
    <3> QED BY <1>6, <3>1 DEF DeleteSignal
  <2>3. /\ tpc' \in [Slot -> ThreadState]
        /\ \A u \in Slot : tpc'[u] = tpc[u] \/ (tpc[u] = "wait" /\ tpc'[u] = "start")
    BY <1>0, <2>2 DEF Woken, ThreadState
  <2>4. /\ idle' = idle /\ shutdown' = shutdown /\ total' = total /\ full' = full
        /\ cpc' = cpc
    BY <1>6 DEF DeleteSignal, poolVars
  <2>5. Alive' = Alive
    BY <1>0, <2>3 DEF Alive
  <2>6. ListInv'
    BY <2>1, <2>3, <2>4 DEF ListInv
  <2> QED BY <2>4, <2>5, <2>6, <1>a DEF FullInv
<1>7. ASSUME NEW d \in Caller, DeleteFree(d)
      PROVE  ListInv' /\ TotalInv' /\ FullInv'
  <2>1. shutdown /\ total <= 0
    BY <1>0, <1>7 DEF DeleteFree, DeleteInv, ShutdownStates
  <2>2. Alive = {}
    BY <1>0, <2>1, FS_EmptySet
  <2>3. /\ idle' = <<>> /\ shutdown' = shutdown /\ total' = total
        /\ tpc' = [s \in Slot |-> IF s \in ToSet(idle) /\ tpc[s] = "gone"
                                     THEN "none" ELSE tpc[s]]
    BY <1>7 DEF DeleteFree
  <2>4. \A s \in Slot : tpc'[s] = "none"
    BY <1>0, <2>1, <2>2, <2>3 DEF ListInv, Alive
  <2>5. Alive' = {}
    BY <2>4 DEF Alive
  <2>6. ListInv'
    BY <2>1, <2>3, <2>4, EmptyList DEF ListInv
  <2> QED BY <2>2, <2>3, <2>5, <2>6, <1>a DEF FullInv
<1>8. ASSUME NEW s \in Slot, Save(s) PROVE ListInv' /\ TotalInv' /\ FullInv'
  <2>1. /\ idle' = Append(idle, s) /\ tpc[s] = "save"
        /\ tpc' = [tpc EXCEPT ![s] = "park"] /\ total' = total /\ shutdown' = shutdown
        /\ full' = (full \/ Len(idle) + 1 >= total)
    BY <1>8 DEF Save
  <2>2. ~shutdown /\ s \notin ToSet(idle)
    BY <2>1 DEF ListInv
  <2>3. /\ Distinct(idle') /\ ToSet(idle') = ToSet(idle) \cup {s}
        /\ Len(idle') = Len(idle) + 1 /\ idle' \in Seq(Slot)
    BY <1>0, <2>1, <2>2, AppendNew
  <2>4. Alive' = Alive /\ s \in Alive
    BY <1>0, <2>1 DEF Alive
  <2>5. ListInv'
    BY <1>0, <2>1, <2>2, <2>3 DEF ListInv, Distinct
  <2>6. Len(idle) + 1 >= total => Alive = ToSet(idle')
    <3> SUFFICES ASSUME Len(idle) + 1 >= total PROVE Alive = ToSet(idle')
      OBVIOUS
    <3>1. ToSet(idle') \subseteq Alive
      BY <1>0, <2>2, <2>3, <2>4 DEF ListInv, Alive
    <3>2. Cardinality(Alive) <= Len(idle')
      BY <1>0, <2>3
    <3> QED BY <1>0, <2>3, <3>1, <3>2, AllListed
  <2>7. \A e \in Caller : cpc'[e] = "fullwoken" =>
              cpc[e] = "fullwoken" \/ Len(idle) + 1 >= total
    BY <1>8, SaveCallers
  <2>8. FullInv'
    BY <2>1, <2>3, <2>4, <2>6, <2>7 DEF FullInv
  <2> QED BY <2>1, <2>4, <2>5, <2>8, <1>a
<1>9. ASSUME NEW s \in Slot, Test(s) \/ Finish(s) \/ Park(s)
      PROVE  ListInv' /\ TotalInv' /\ FullInv'
  <2>1. /\ idle' = idle /\ shutdown' = shutdown /\ total' = total /\ full' = full
        /\ cpc' = cpc
    BY <1>9 DEF Test, Finish, Park, poolVars, callerVars
  <2>2. \/ /\ tpc[s] = "start"
           /\ tpc' = [tpc EXCEPT ![s] = IF shutdown THEN "exit" ELSE "run"]
        \/ tpc[s] = "run" /\ tpc' = [tpc EXCEPT ![s] = "save"]
        \/ tpc[s] = "park" /\ tpc' = [tpc EXCEPT ![s] = "wait"]
    BY <1>9 DEF Test, Finish, Park
  <2>3. Alive' = Alive
    BY <1>0, <2>2 DEF Alive
  <2>4. ListInv'
    <3>1. CASE shutdown
      BY <1>0, <2>1, <2>2, <3>1 DEF ListInv
    <3>2. CASE ~shutdown
      BY <1>0, <2>1, <2>2, <3>2 DEF ListInv
    <3> QED BY <3>1, <3>2
  <2> QED BY <2>1, <2>3, <2>4, <1>a DEF FullInv
<1>10. ASSUME NEW s \in Slot, SaveRefused(s) \/ Exit(s)
       PROVE  ListInv' /\ TotalInv' /\ FullInv'
  <2>1. /\ idle' = idle /\ shutdown' = shutdown /\ full' = full
        /\ \/ /\ tpc[s] = "save" /\ tpc' = [tpc EXCEPT ![s] = "none"]
              /\ total' = total
           \/ /\ tpc[s] = "exit" /\ tpc' = [tpc EXCEPT ![s] = "gone"]
              /\ total' = total - 1
        /\ \A e \in Caller : cpc'[e] = "fullwoken" => cpc[e] = "fullwoken"
    BY <1>0, <1>10 DEF SaveRefused, Exit, poolVars, callerVars
  <2>2. Alive' = Alive \ {s} /\ s \in Alive
    BY <1>0, <2>1 DEF Alive
  <2>3. IsFiniteSet(Alive') /\ Cardinality(Alive') = Cardinality(Alive) - 1
    BY <1>0, <2>2, FS_RemoveElement
  <2>4. ListInv'
    BY <1>0, <2>1 DEF ListInv
  <2> QED BY <1>0, <2>1, <2>2, <2>3, <2>4 DEF TotalInv, FullInv
<1>11. CASE UNCHANGED vars
  <2>1. idle' = idle /\ tpc' = tpc /\ shutdown' = shutdown /\ total' = total
        /\ full' = full /\ cpc' = cpc
    BY <1>11 DEF vars, poolVars, callerVars
  <2>2. Alive' = Alive
    BY <2>1 DEF Alive
  <2> QED BY <2>1, <2>2, <1>a, <1>b DEF FullInv
<1> QED
  BY <1>1, <1>2, <1>3, <1>4, <1>5, <1>6, <1>7, <1>8, <1>9, <1>10, <1>11
     DEF Next, CallerStep, ThreadStep

-----------------------------------------------------------------------------
(* The jobs.                                                               *)

\* When every thread is in the list no thread has a job, and after the
\* destructor has begun to end them none is left.
LEMMA Quiet ==
    /\ TypeOK /\ CallInv /\ ListInv /\ JobOnce /\ ShutdownDrains
    /\ shutdown \/ Alive \subseteq ToSet(idle)
    => \A j \in Job : jobs[j] \notin {"given", "running"}
<1> SUFFICES ASSUME TypeOK, CallInv, ListInv, JobOnce, ShutdownDrains,
                    shutdown \/ Alive \subseteq ToSet(idle)
             PROVE  \A j \in Job : jobs[j] \notin {"given", "running"}
  OBVIOUS
<1>1. CASE shutdown
  BY <1>1 DEF ShutdownDrains
<1>2. CASE ~shutdown
  <2>1. Alive \subseteq ToSet(idle) /\ ToSet(idle) \subseteq Slot
    BY <1>2 DEF TypeOK, ToSet
  <2>2. \A s \in Slot : tpc[s] \notin {"start", "run"}
    BY <1>2, <2>1 DEF ListInv, Alive
  <2>3. Taken = {}
    <3> SUFFICES ASSUME NEW d \in Caller, target[d] # NoSlot PROVE FALSE
      BY DEF Taken
    <3>1. target[d] \in Slot /\ tpc[target[d]] \in {"park", "wait"}
          /\ target[d] \notin ToSet(idle)
      BY DEF CallInv, TypeOK
    <3> QED BY <2>1, <3>1 DEF Alive
  <2>4. Busy = {}
    BY <2>2, <2>3 DEF Busy
  <2> QED BY <1>2, <2>4 DEF JobOnce
<1> QED BY <1>1, <1>2

LEMMA CallbackQuiet ==
    /\ TypeOK /\ CallInv /\ ListInv /\ JobOnce /\ ShutdownDrains /\ FullInv
    => FullSound
BY Quiet DEF FullInv, FullSound

LEMMA DrainStep ==
    /\ TypeOK /\ MainInv /\ DeleteInv /\ CallInv /\ AskedInv /\ ListInv /\ TotalInv
    /\ FullInv /\ JobOnce /\ ShutdownDrains /\ DeleteSafe
    /\ [Next]_vars
    => ShutdownDrains' /\ DeleteSafe'
<1> SUFFICES ASSUME TypeOK, MainInv, DeleteInv, CallInv, AskedInv, ListInv, TotalInv,
                    FullInv, JobOnce, ShutdownDrains, DeleteSafe, [Next]_vars
             PROVE  ShutdownDrains' /\ DeleteSafe'
  OBVIOUS
<1>0. /\ cpc \in [Caller -> CallerState] /\ tpc \in [Slot -> ThreadState]
      /\ jobs \in [Job -> JobState] /\ total \in Int
      /\ \A d, e \in Caller : cpc[d] \in ShutdownStates => d = e \/ Outside(e)
      /\ shutdown <=> \E d \in Caller : cpc[d] \in ShutdownStates
  BY DEF TypeOK, DeleteInv, Deleting, ShutdownStates
<1>1. ASSUME NEW d \in Caller,
             CallerCall(d) \/ Block(d) \/ WaitDone(d) \/ CreateFail(d) \/ Take(d)
             \/ Signal(d) \/ \E s \in Slot : Create(d, s)
      PROVE  ShutdownDrains' /\ DeleteSafe'
  <2>1. CASE \E e \in Caller : cpc[e] \in ShutdownStates
    <3>1. PICK e \in Caller : cpc[e] \in ShutdownStates
      BY <2>1
    <3>2. FALSE
      BY <1>0, <1>1, <3>1
         DEF CallerCall, Dispatch, Wait4idler, Delete, Block, WaitDone, CreateFail,
             Take, Signal, Create, Passed, Usable, Outside, ShutdownStates
    <3> QED BY <3>2
  <2>2. CASE \A e \in Caller : cpc[e] \notin ShutdownStates
    <3>1. ~shutdown /\ shutdown' = shutdown
      BY <1>0, <1>1, <2>2
         DEF CallerCall, Dispatch, Wait4idler, Delete, Block, WaitDone, CreateFail,
             Take, Signal, Create, poolVars
    <3>2. \A e \in Caller : cpc'[e] # "deleted"
      BY <1>0, <1>1, <2>2
         DEF CallerCall, Dispatch, Wait4idler, Delete, Block, WaitDone, CreateFail,
             Take, Signal, Create, ShutdownStates
    <3> QED BY <3>1, <3>2 DEF ShutdownDrains, DeleteSafe
  <2> QED BY <2>1, <2>2
<1>2. ASSUME NEW d \in Caller, DeleteShutdown(d) PROVE ShutdownDrains' /\ DeleteSafe'
  <2>1. /\ cpc[d] \in {"del", "fullwoken"} /\ jobs' = jobs
        /\ \A e \in Caller : cpc'[e] # "deleted" \/ cpc[e] = "deleted"
    BY <1>0, <1>2 DEF DeleteShutdown
  <2>2. \A e \in Caller : d = e \/ Outside(e)
    BY <2>1 DEF DeleteInv, Deleting
  <2>3. ~shutdown
    BY <1>0, <2>1, <2>2 DEF ShutdownStates, Outside
  <2>4. Alive \subseteq ToSet(idle)
    BY <1>2, <2>3, AllIdle DEF DeleteShutdown, FullInv
  <2>5. \A j \in Job : jobs[j] \notin {"given", "running"}
    BY <2>4, Quiet
  <2>6. \A e \in Caller : call[e] = NoJob
    BY <2>1, <2>2 DEF CallInv, Outside
  <2>7. \A j \in Job : jobs[j] # "asked"
    BY <2>6, PoolAssumption DEF AskedInv
  <2>8. \A e \in Caller : cpc'[e] # "deleted"
    BY <1>0, <2>1, <2>2, <2>3 DEF ShutdownStates
  <2> QED BY <1>0, <2>1, <2>5, <2>7, <2>8 DEF ShutdownDrains, DeleteSafe, JobState
<1>3. ASSUME NEW d \in Caller, DeleteFree(d) PROVE ShutdownDrains' /\ DeleteSafe'
  <2>1. shutdown /\ total <= 0 /\ jobs' = jobs
    BY <1>0, <1>3 DEF DeleteFree, DeleteInv, ShutdownStates
  <2>2. Alive = {}
    BY <1>0, <2>1, FS_EmptySet, FS_CardinalityType DEF TotalInv
  <2>3. tpc' = [s \in Slot |-> IF s \in ToSet(idle) /\ tpc[s] = "gone"
                                 THEN "none" ELSE tpc[s]]
    BY <1>3 DEF DeleteFree
  <2>4. \A s \in Slot : tpc'[s] = "none"
    BY <1>0, <2>1, <2>2, <2>3 DEF ListInv, Alive
  <2> QED BY <2>1, <2>4 DEF ShutdownDrains, DeleteSafe
<1>4. ASSUME NEW d \in Caller, DeleteWait(d) \/ DeleteSignal(d) \/ DeleteWaitEmpty(d)
      PROVE  ShutdownDrains' /\ DeleteSafe'
  <2>1. /\ jobs' = jobs /\ shutdown' = shutdown
        /\ \A e \in Caller : cpc'[e] = "deleted" => cpc[e] = "deleted"
    BY <1>0, <1>4 DEF DeleteWait, DeleteSignal, DeleteWaitEmpty, poolVars
  <2>2. \A e \in Caller : cpc[e] # "deleted"
    BY <1>4 DEF DeleteWait, DeleteSignal, DeleteWaitEmpty, DeleteInv, Deleting, Outside
  <2> QED BY <2>1, <2>2 DEF ShutdownDrains, DeleteSafe
<1>5. ASSUME NEW s \in Slot, ThreadStep(s) PROVE ShutdownDrains' /\ DeleteSafe'
  <2>1. tpc[s] # "none" /\ shutdown' = shutdown
    BY <1>5 DEF ThreadStep, Test, Finish, Save, SaveRefused, Park, Exit, poolVars
  <2>2. \A e \in Caller : cpc[e] # "deleted"
    BY <2>1 DEF DeleteSafe
  <2>3. \A e \in Caller : cpc'[e] # "deleted"
    <3>1. CASE Save(s)
      BY <2>2, <3>1, SaveCallers
    <3>2. CASE ~Save(s)
      BY <1>0, <1>5, <2>2, <3>2
         DEF ThreadStep, Test, Finish, SaveRefused, Park, Exit, callerVars
    <3> QED BY <3>1, <3>2
  <2>4. shutdown => jobs' = jobs
    BY <1>5 DEF ThreadStep, Test, Finish, Save, SaveRefused, Park, Exit, ListInv
  <2> QED BY <2>1, <2>3, <2>4 DEF ShutdownDrains, DeleteSafe
<1>6. CASE UNCHANGED vars
  BY <1>6 DEF vars, poolVars, callerVars, ShutdownDrains, DeleteSafe
<1> QED
  BY <1>1, <1>2, <1>3, <1>4, <1>5, <1>6 DEF Next, CallerStep

LEMMA JobStep ==
    /\ TypeOK /\ MainInv /\ DeleteInv /\ CallInv /\ AskedInv /\ ListInv
    /\ JobOnce /\ ShutdownDrains
    /\ [Next]_vars
    => JobOnce'
<1> SUFFICES ASSUME TypeOK, MainInv, DeleteInv, CallInv, AskedInv, ListInv,
                    JobOnce, ShutdownDrains, [Next]_vars, ~shutdown'
             PROVE  JobOnce'
  BY DEF JobOnce
<1>0. /\ cpc \in [Caller -> CallerState] /\ call \in [Caller -> Job \cup {NoJob}]
      /\ target \in [Caller -> Slot \cup {NoSlot}]
      /\ tpc \in [Slot -> ThreadState] /\ job \in [Slot -> Job \cup {NoJob}]
      /\ jobs \in [Job -> JobState] /\ idle \in Seq(Slot)
      /\ NoSlot \notin Slot /\ NoJob \notin Job
      /\ Distinct(idle) /\ ToSet(idle) \subseteq Slot
  BY PoolAssumption DEF TypeOK, ListInv, Distinct, ToSet
<1>z. ~shutdown
  BY DEF Next, CallerStep, CallerCall, ThreadStep, vars, Dispatch, Wait4idler, Delete,
         Block, WaitDone, Create, CreateFail, Take, Signal, DeleteWait,
         DeleteShutdown, DeleteSignal, DeleteWaitEmpty, DeleteFree, Test, Finish,
         Save, SaveRefused, Park, Exit, poolVars
<1>a. /\ \A s \in Busy : job[s] \in Job /\ jobs[job[s]] = IF tpc[s] = "run" THEN "running" ELSE "given"
      /\ \A s, u \in Busy : job[s] = job[u] => s = u
      /\ \A j \in Job : jobs[j] \in {"given", "running"} => \E s \in Busy : job[s] = j
      /\ Busy \subseteq Slot
      /\ \A s \in Slot : tpc[s] \in {"start", "run"} => s \in Busy
      /\ Busy = {s \in Slot : tpc[s] \in {"start", "run"}} \cup Taken
      /\ \A s \in Taken : s \in Slot /\ tpc[s] \in {"park", "wait"} /\ s \notin ToSet(idle)
  <2>1. \A s \in Taken : s \in Slot /\ tpc[s] \in {"park", "wait"} /\ s \notin ToSet(idle)
    BY <1>0 DEF Taken, CallInv
  <2> QED BY <1>0, <1>z, <2>1 DEF JobOnce, Busy
<1>b. ASSUME target' = target PROVE Taken' = Taken
  BY <1>b DEF Taken
<1>c. ASSUME NEW d \in Caller, Passed(d)
      PROVE  Taken = {} /\ \A e \in Caller : target[e] = NoSlot
  BY <1>c, <1>0, PoolAssumption DEF Passed, MainInv, CallInv, Taken
<1>1. ASSUME NEW d \in Caller, CallerCall(d) \/ CreateFail(d) PROVE JobOnce'
  <2>1. target' = target /\ tpc' = tpc /\ job' = job
    BY <1>1 DEF CallerCall, Dispatch, Wait4idler, Delete, CreateFail
  <2>2. Busy' = Busy
    BY <2>1, <1>b DEF Busy
  <2>3. \A j \in Job :
           \/ jobs'[j] = jobs[j]
           \/ jobs[j] \in {"new", "asked"} /\ jobs'[j] \in {"new", "asked"}
    <3>1. CASE CallerCall(d)
      BY <1>0, <3>1 DEF CallerCall, Dispatch, Wait4idler, Delete
    <3>2. CASE CreateFail(d)
      <4>1. call[d] \in Job /\ jobs[call[d]] = "asked"
            /\ jobs' = [jobs EXCEPT ![call[d]] = "new"]
        BY <1>0, <3>2 DEF CreateFail, Passed, CallInv
      <4> QED BY <1>0, <4>1
    <3> QED BY <1>1, <3>1, <3>2
  <2>4. \A s \in Busy : job[s] \in Job
    BY <1>a
  <2> QED BY <1>0, <2>1, <2>2, <2>3, <2>4, <1>a DEF JobOnce
<1>2. ASSUME NEW d \in Caller, Block(d) \/ WaitDone(d) \/ DeleteWait(d)
                                \/ DeleteShutdown(d) \/ DeleteWaitEmpty(d)
      PROVE  JobOnce'
  <2>1. target' = target /\ tpc' = tpc /\ job' = job /\ jobs' = jobs
    BY <1>2 DEF Block, WaitDone, DeleteWait, DeleteShutdown, DeleteWaitEmpty
  <2>2. Busy' = Busy
    BY <2>1, <1>b DEF Busy
  <2> QED BY <1>0, <2>1, <2>2, <1>a DEF JobOnce
<1>3. ASSUME NEW d \in Caller, NEW s \in Slot, Create(d, s) PROVE JobOnce'
  <2>1. /\ Taken = {} /\ target' = target
        /\ tpc[s] = "none" /\ tpc' = [tpc EXCEPT ![s] = "start"]
        /\ job' = [job EXCEPT ![s] = call[d]] /\ call[d] \in Job
        /\ jobs[call[d]] = "asked" /\ jobs' = [jobs EXCEPT ![call[d]] = "given"]
    BY <1>0, <1>3, <1>c DEF Create, Passed, CallInv
  <2>2. Taken' = {}
    BY <2>1, <1>b
  <2>3. Busy' = Busy \cup {s} /\ s \notin Busy
    BY <1>0, <1>a, <2>1, <2>2 DEF Busy
  <2>4. \A u \in Busy : job'[u] = job[u] /\ tpc'[u] = tpc[u] /\ job[u] # call[d]
    BY <1>0, <1>a, <2>1, <2>3
  <2> QED BY <1>0, <1>a, <2>1, <2>3, <2>4 DEF JobOnce
<1>4. ASSUME NEW d \in Caller, Take(d) PROVE JobOnce'
  <2> DEFINE s == Last(idle)
  <2>1. /\ Taken = {} /\ target' = [target EXCEPT ![d] = s]
        /\ \A e \in Caller : target[e] = NoSlot
        /\ tpc' = tpc /\ idle # <<>>
        /\ job' = [job EXCEPT ![s] = call[d]] /\ call[d] \in Job
        /\ jobs[call[d]] = "asked" /\ jobs' = [jobs EXCEPT ![call[d]] = "given"]
    BY <1>0, <1>4, <1>c DEF Take, Passed, CallInv
  <2>2. s \in Slot /\ s \in ToSet(idle)
    BY <1>0, <2>1, TakeLast
  <2>3. tpc[s] \in {"park", "wait"}
    BY <2>2, <1>z DEF ListInv
  <2> HIDE DEF s
  <2>4. Taken' = {s}
    BY <1>0, <2>1, <2>2 DEF Taken
  <2>5. Busy' = Busy \cup {s} /\ s \notin Busy
    BY <1>0, <1>a, <2>1, <2>2, <2>3, <2>4 DEF Busy
  <2>6. \A u \in Busy : job'[u] = job[u] /\ tpc'[u] = tpc[u] /\ job[u] # call[d]
    BY <1>0, <1>a, <2>1, <2>5
  <2> QED BY <1>0, <1>a, <2>1, <2>2, <2>3, <2>5, <2>6 DEF JobOnce
<1>5. ASSUME NEW d \in Caller, Signal(d) PROVE JobOnce'
  <2>1. target[d] \in Slot /\ tpc[target[d]] = "wait"
    BY <1>0, <1>5 DEF Signal, CallInv, OwnHeld
  <2>2. tpc' = Woken(target[d]) /\ target' = [target EXCEPT ![d] = NoSlot]
        /\ job' = job /\ jobs' = jobs
    BY <1>5 DEF Signal
  <2>3. /\ tpc' \in [Slot -> ThreadState] /\ tpc'[target[d]] = "start"
        /\ \A u \in Slot : u # target[d] => tpc'[u] = tpc[u]
    BY <1>0, <2>1, <2>2 DEF Woken, ThreadState
  <2>4. \A e \in Caller : e # d => target[e] = NoSlot
    BY <1>0, <1>5 DEF Signal, MainInv, CallInv
  <2>5. Taken = {target[d]} /\ Taken' = {}
    BY <1>0, <2>1, <2>2, <2>4 DEF Taken
  <2>6. Busy' = Busy
    BY <1>0, <1>a, <2>1, <2>3, <2>5 DEF Busy
  <2> QED BY <1>0, <1>a, <2>1, <2>2, <2>3, <2>6 DEF JobOnce
<1>6. ASSUME NEW d \in Caller, DeleteSignal(d) \/ DeleteFree(d) PROVE JobOnce'
  BY <1>6, <1>z DEF DeleteSignal, DeleteFree, DeleteInv, ShutdownStates
<1>7. ASSUME NEW s \in Slot, Test(s) PROVE JobOnce'
  <2>1. /\ tpc[s] = "start" /\ tpc' = [tpc EXCEPT ![s] = "run"]
        /\ jobs' = [jobs EXCEPT ![job[s]] = "running"]
        /\ job' = job /\ target' = target /\ s \in Busy
    BY <1>7, <1>z, <1>a DEF Test, callerVars
  <2>2. Busy' = Busy
    BY <1>0, <2>1, <1>b DEF Busy
  <2>3. \A u \in Busy : u # s => tpc'[u] = tpc[u] /\ jobs'[job[u]] = jobs[job[u]]
    BY <1>0, <1>a, <2>1
  <2> QED BY <1>0, <1>a, <2>1, <2>2, <2>3 DEF JobOnce
<1>8. ASSUME NEW s \in Slot, Finish(s) PROVE JobOnce'
  <2>1. /\ tpc[s] = "run" /\ tpc' = [tpc EXCEPT ![s] = "save"]
        /\ jobs' = [jobs EXCEPT ![job[s]] = "new"]
        /\ job' = job /\ target' = target /\ s \in Busy
    BY <1>8, <1>a DEF Finish, callerVars
  <2>2. Busy' = Busy \ {s}
    BY <1>0, <1>a, <2>1, <1>b DEF Busy
  <2>3. \A u \in Busy : u # s => tpc'[u] = tpc[u] /\ jobs'[job[u]] = jobs[job[u]]
    BY <1>0, <1>a, <2>1
  <2>4. \A j \in Job : jobs'[j] \in {"given", "running"} => j # job[s] /\ jobs'[j] = jobs[j]
    BY <1>0, <1>a, <2>1
  <2> QED BY <1>0, <1>a, <2>1, <2>2, <2>3, <2>4 DEF JobOnce
<1>9. ASSUME NEW s \in Slot, Save(s) \/ SaveRefused(s) \/ Park(s) \/ Exit(s)
      PROVE  JobOnce'
  <2>1. /\ target' = target /\ jobs' = jobs /\ tpc' \in [Slot -> ThreadState]
        /\ tpc[s] \in {"save", "park", "exit"}
        /\ tpc'[s] \in {"park", "none", "wait", "gone"}
        /\ \A u \in Slot : u # s => tpc'[u] = tpc[u] /\ job'[u] = job[u]
        /\ tpc[s] = "park" => job'[s] = job[s]
    BY <1>0, <1>9 DEF Save, SaveRefused, Park, Exit, callerVars, ThreadState
  <2>2. Busy' = Busy
    BY <1>0, <1>a, <2>1, <1>b DEF Busy
  <2>3. \A u \in Busy : job'[u] = job[u] /\ (tpc'[u] = "run" <=> tpc[u] = "run")
    BY <1>0, <1>a, <2>1
  <2> QED BY <1>0, <1>a, <2>1, <2>2, <2>3 DEF JobOnce
<1>10. CASE UNCHANGED vars
  <2>1. target' = target /\ tpc' = tpc /\ job' = job /\ jobs' = jobs
    BY <1>10 DEF vars, callerVars
  <2>2. Busy' = Busy
    BY <2>1, <1>b DEF Busy
  <2> QED BY <1>0, <2>1, <2>2, <1>a DEF JobOnce
<1> QED
  BY <1>1, <1>2, <1>3, <1>4, <1>5, <1>6, <1>7, <1>8, <1>9, <1>10
     DEF Next, CallerStep, ThreadStep

-----------------------------------------------------------------------------
(* The inductive invariant.                                                *)

LEMMA InitInv == Init => IInv
<1> SUFFICES ASSUME Init PROVE IInv
  OBVIOUS
<1>1. TypeOK
  BY TypeInit
<1>2. MainInv /\ DeleteInv
  BY PoolAssumption DEF Init, MainInv, DeleteInv, Deleting, ShutdownStates
<1>3. CallInv /\ AskedInv /\ ListInv
  BY EmptyList DEF Init, CallInv, AskedInv, ListInv
<1>4. Alive = {} /\ Busy = {}
  BY PoolAssumption DEF Init, Alive, Busy, Taken
<1>5. TotalInv /\ FullInv
  BY <1>4, FS_EmptySet DEF Init, TotalInv, FullInv
<1>6. JobOnce /\ FullSound /\ ShutdownDrains /\ DeleteSafe
  BY <1>4 DEF Init, JobOnce, FullSound, ShutdownDrains, DeleteSafe
<1> QED BY <1>1, <1>2, <1>3, <1>5, <1>6 DEF IInv

LEMMA StepInv == IInv /\ [Next]_vars => IInv'
<1> SUFFICES ASSUME IInv, [Next]_vars PROVE IInv'
  OBVIOUS
<1>1. TypeOK'
  BY TypeStep DEF IInv
<1>2. MainInv' /\ DeleteInv'
  BY ControlStep DEF IInv
<1>3. CallInv' /\ AskedInv'
  BY CallStep DEF IInv
<1>4. ListInv' /\ TotalInv' /\ FullInv'
  BY ListStep DEF IInv
<1>5. JobOnce'
  BY JobStep DEF IInv
<1>6. ShutdownDrains' /\ DeleteSafe'
  BY DrainStep DEF IInv
<1>7. FullSound'
  <2>1. (/\ TypeOK /\ CallInv /\ ListInv /\ JobOnce /\ ShutdownDrains /\ FullInv
         => FullSound)'
    BY CallbackQuiet, PTL
  <2> QED BY <1>1, <1>3, <1>4, <1>5, <1>6, <2>1
<1> QED BY <1>1, <1>2, <1>3, <1>4, <1>5, <1>6, <1>7 DEF IInv

\* The inductive invariant of the thread pool, for any number of callers.
THEOREM Invariance == Spec => []IInv
<1>1. IInv /\ [Next]_vars => IInv'
  BY StepInv
<1> QED BY InitInv, <1>1, PTL DEF Spec

\* Type correctness; the list of idle threads stays within mThreadList.
THEOREM TypeCorrect == Spec => []TypeOK
<1>1. IInv => TypeOK
  BY DEF IInv
<1> QED BY <1>1, Invariance, PTL

\* dispatch() gives each job to one thread, which runs it once.
THEOREM JobSafety == Spec => []JobOnce
<1>1. IInv => JobOnce
  BY DEF IInv
<1> QED BY <1>1, Invariance, PTL

\* mFullCallback is called only when no job is left in the pool.
THEOREM CallbackSafety == Spec => []FullSound
<1>1. IInv => FullSound
  BY DEF IInv
<1> QED BY <1>1, Invariance, PTL

\* ~SP_ProcThreadPool drops no job and leaves no thread.
THEOREM DestructorSafety == Spec => []DestructorSafe
<1>1. IInv => DestructorSafe
  BY DEF IInv, DestructorSafe
<1> QED BY <1>1, Invariance, PTL

-----------------------------------------------------------------------------
(* A pool called by one thread, as the MT server calls it.                 *)

OneCaller == \A d, e \in Caller : d = e

LEMMA LoneInit == Init => LoneInv
<1> SUFFICES ASSUME Init PROVE LoneInv
  OBVIOUS
<1>1. Alive = {}
  BY DEF Init, Alive
<1> QED BY <1>1, FS_EmptySet, PoolAssumption
        DEF Init, LoneInv, ThreadLimit, IdlerReady, Full

LEMMA LoneStep ==
    OneCaller /\ IInv /\ LoneInv /\ [Next]_vars => LoneInv'
<1> SUFFICES ASSUME OneCaller, IInv, LoneInv, [Next]_vars PROVE LoneInv'
  OBVIOUS
<1>0. /\ cpc \in [Caller -> CallerState] /\ tpc \in [Slot -> ThreadState]
      /\ idle \in Seq(Slot) /\ Distinct(idle) /\ ToSet(idle) \subseteq Slot
      /\ IsFiniteSet(Alive) /\ Alive \subseteq Slot /\ Cardinality(Alive) \in Nat
      /\ total = Cardinality(Alive) /\ total <= MaxThreads /\ MaxThreads \in Nat
      /\ \A d \in Caller : cpc[d] = "ready" => ~(idle = <<>> /\ total >= MaxThreads)
      /\ \A d \in Caller : cpc[d] = "woken" => idle # <<>>
      /\ \A d, e \in Caller : d = e
  BY FS_CardinalityType, PoolAssumption
     DEF IInv, TypeOK, ListInv, TotalInv, Distinct, ToSet, Alive, LoneInv,
         ThreadLimit, IdlerReady, Full, OneCaller
<1>a. ASSUME Alive' = Alive, total' = total PROVE ThreadLimit'
  BY <1>0, <1>a DEF ThreadLimit
<1>1. ASSUME NEW d \in Caller, CallerCall(d) \/ Block(d) \/ WaitDone(d) \/ CreateFail(d)
                                \/ DeleteWait(d) \/ DeleteShutdown(d)
                                \/ DeleteWaitEmpty(d)
      PROVE  LoneInv'
  <2>1. /\ idle' = idle /\ tpc' = tpc /\ total' = total
        /\ \A e \in Caller : cpc'[e] = "woken" => cpc[e] = "woken"
    BY <1>0, <1>1
       DEF CallerCall, Dispatch, Wait4idler, Delete, Block, WaitDone, CreateFail,
           DeleteWait, DeleteShutdown, DeleteWaitEmpty, poolVars
  <2>2. \A e \in Caller : cpc'[e] = "ready" => ~(idle = <<>> /\ total >= MaxThreads)
    <3>1. CASE Wait4idler(d)
      BY <1>0, <3>1 DEF Wait4idler, Full
    <3>2. CASE WaitDone(d)
      BY <1>0, <3>2 DEF WaitDone, Passed, Full
    <3>3. CASE \/ Delete(d) \/ Block(d) \/ CreateFail(d) \/ DeleteWait(d)
               \/ DeleteShutdown(d) \/ DeleteWaitEmpty(d)
               \/ \E j \in Job : Dispatch(d, j)
      BY <1>0, <3>3
         DEF Delete, Block, CreateFail, DeleteWait, DeleteShutdown,
             DeleteWaitEmpty, Dispatch
    <3> QED BY <1>1, <3>1, <3>2, <3>3 DEF CallerCall
  <2>3. Alive' = Alive
    BY <2>1 DEF Alive
  <2> QED BY <1>0, <2>1, <2>2, <2>3, <1>a DEF LoneInv, IdlerReady, Full
<1>2. ASSUME NEW d \in Caller, NEW s \in Slot, Create(d, s) PROVE LoneInv'
  <2>1. /\ tpc[s] = "none" /\ tpc' = [tpc EXCEPT ![s] = "start"]
        /\ total' = total + 1 /\ total < MaxThreads
        /\ \A e \in Caller : cpc'[e] = "idle"
    BY <1>0, <1>2 DEF Create, Passed, Full
  <2>2. Alive' = Alive \cup {s} /\ s \notin Alive
    BY <1>0, <2>1 DEF Alive
  <2>3. Cardinality(Alive') = Cardinality(Alive) + 1
    BY <1>0, <2>2, FS_AddElement
  <2> QED BY <1>0, <2>1, <2>3 DEF LoneInv, ThreadLimit, IdlerReady
<1>3. ASSUME NEW d \in Caller, Take(d) PROVE LoneInv'
  <2>1. /\ tpc' = tpc /\ total' = total
        /\ \A e \in Caller : cpc'[e] = "signal"
    BY <1>0, <1>3 DEF Take
  <2>2. Alive' = Alive
    BY <2>1 DEF Alive
  <2> QED BY <2>1, <2>2, <1>a DEF LoneInv, IdlerReady
<1>4. ASSUME NEW d \in Caller, Signal(d) PROVE LoneInv'
  <2>1. /\ tpc' = Woken(target[d]) /\ total' = total
        /\ \A e \in Caller : cpc'[e] = "idle"
    BY <1>0, <1>4 DEF Signal
  <2>2. \A u \in Slot : tpc'[u] = tpc[u] \/ (tpc[u] = "wait" /\ tpc'[u] = "start")
    BY <1>0, <2>1 DEF Woken
  <2>3. Alive' = Alive
    BY <1>0, <2>2 DEF Alive
  <2> QED BY <2>1, <2>3, <1>a DEF LoneInv, IdlerReady
<1>5. ASSUME NEW d \in Caller, DeleteSignal(d) PROVE LoneInv'
  <2>1. /\ tpc' = Woken(idle[signalled + 1]) /\ total' = total /\ idle' = idle
        /\ cpc' = cpc
    BY <1>5 DEF DeleteSignal, poolVars
  <2>2. \A u \in Slot : tpc'[u] = tpc[u] \/ (tpc[u] = "wait" /\ tpc'[u] = "start")
    BY <1>0, <2>1 DEF Woken
  <2>3. Alive' = Alive
    BY <1>0, <2>2 DEF Alive
  <2> QED BY <1>0, <2>1, <2>3, <1>a DEF LoneInv, IdlerReady, Full
<1>6. ASSUME NEW d \in Caller, DeleteFree(d) PROVE LoneInv'
  <2>1. /\ tpc' = [s \in Slot |-> IF s \in ToSet(idle) /\ tpc[s] = "gone"
                                    THEN "none" ELSE tpc[s]]
        /\ total' = total
        /\ \A e \in Caller : cpc'[e] = "deleted"
    BY <1>0, <1>6 DEF DeleteFree
  <2>2. Alive' = Alive
    BY <1>0, <2>1 DEF Alive
  <2> QED BY <2>1, <2>2, <1>a DEF LoneInv, IdlerReady
<1>7. ASSUME NEW s \in Slot, Save(s) PROVE LoneInv'
  <2>1. /\ idle' = Append(idle, s) /\ tpc[s] = "save" /\ total' = total
        /\ tpc' = [tpc EXCEPT ![s] = "park"]
    BY <1>7 DEF Save
  <2>2. Alive' = Alive
    BY <1>0, <2>1 DEF Alive
  <2>3. idle' # <<>>
    BY <1>0, <2>1
  <2> QED BY <2>1, <2>2, <2>3, <1>a DEF LoneInv, IdlerReady, Full
<1>8. ASSUME NEW s \in Slot, Test(s) \/ Finish(s) \/ Park(s) PROVE LoneInv'
  <2>1. /\ idle' = idle /\ total' = total /\ cpc' = cpc
        /\ tpc[s] \in {"start", "run", "park"}
        /\ \E x \in {"exit", "run", "save", "wait"} : tpc' = [tpc EXCEPT ![s] = x]
    BY <1>8 DEF Test, Finish, Park, poolVars, callerVars
  <2>2. Alive' = Alive
    BY <1>0, <2>1 DEF Alive
  <2> QED BY <1>0, <2>1, <2>2, <1>a DEF LoneInv, IdlerReady, Full
<1>9. ASSUME NEW s \in Slot, SaveRefused(s) PROVE FALSE
  <2>1. tpc[s] = "save" /\ Len(idle) >= MaxThreads
    BY <1>9 DEF SaveRefused
  <2>2. ~shutdown /\ s \notin ToSet(idle)
    BY <2>1 DEF IInv, ListInv
  <2>3. ToSet(idle) \subseteq Alive \ {s} /\ s \in Alive
    BY <1>0, <2>1, <2>2 DEF IInv, ListInv, Alive
  <2>4. IsFiniteSet(Alive \ {s}) /\ Cardinality(Alive \ {s}) = Cardinality(Alive) - 1
    BY <1>0, <2>3, FS_RemoveElement
  <2>5. Cardinality(ToSet(idle)) <= Cardinality(Alive) - 1
    BY <2>3, <2>4, FS_Subset
  <2>6. Cardinality(ToSet(idle)) = Len(idle) /\ Len(idle) \in Nat
    BY <1>0, DistinctCardinality
  <2> QED BY <1>0, <2>1, <2>5, <2>6
<1>10. ASSUME NEW s \in Slot, Exit(s) PROVE LoneInv'
  <2>1. /\ idle' = idle /\ tpc[s] = "exit" /\ tpc' = [tpc EXCEPT ![s] = "gone"]
        /\ total' = total - 1
        /\ \A e \in Caller : cpc'[e] \in {"ready", "woken"} => cpc'[e] = cpc[e]
    BY <1>0, <1>10 DEF Exit
  <2>2. Alive' = Alive \ {s} /\ s \in Alive
    BY <1>0, <2>1 DEF Alive
  <2>3. Cardinality(Alive') = Cardinality(Alive) - 1
    BY <1>0, <2>2, FS_RemoveElement
  <2> QED BY <1>0, <2>1, <2>3 DEF LoneInv, ThreadLimit, IdlerReady, Full
<1>11. CASE UNCHANGED vars
  <2>1. idle' = idle /\ tpc' = tpc /\ total' = total /\ cpc' = cpc
    BY <1>11 DEF vars, poolVars, callerVars
  <2>2. Alive' = Alive
    BY <2>1 DEF Alive
  <2> QED BY <1>0, <2>1, <2>2, <1>a DEF LoneInv, IdlerReady, Full
<1> QED
  BY <1>1, <1>2, <1>3, <1>4, <1>5, <1>6, <1>7, <1>8, <1>9, <1>10, <1>11
     DEF Next, CallerStep, ThreadStep

-----------------------------------------------------------------------------
(* For one caller the pool implements the abstract crew of JobPool.        *)

LEMMA JobPoolInit == Init => Crew = Jobs!Empty
<1> SUFFICES ASSUME Init PROVE Crew = Jobs!Empty
  OBVIOUS
<1> QED BY DEF Init, Crew, Jobs!Empty

\* A thread that is busy is not in the list, and mTotal counts it; when all
\* threads are in the list, mTotal does not exceed it.
LEMMA LoneCount ==
    ASSUME IInv, LoneInv, ~shutdown
    PROVE  /\ \A s \in Slot : tpc[s] = "save" =>
                /\ Len(idle) < total /\ ~full /\ Len(idle) < MaxThreads
           /\ Alive \subseteq ToSet(idle) => total <= Len(idle)
<1>0. /\ idle \in Seq(Slot) /\ Len(idle) \in Nat /\ total \in Int
      /\ IsFiniteSet(Alive) /\ Cardinality(Alive) \in Nat
      /\ total = Cardinality(Alive) /\ total <= MaxThreads /\ MaxThreads \in Nat
      /\ \A s \in ToSet(idle) : tpc[s] \in {"park", "wait"}
      /\ full => Alive \subseteq ToSet(idle)
      /\ ToSet(idle) \subseteq Slot
  BY FS_CardinalityType, PoolAssumption
     DEF IInv, TypeOK, ListInv, TotalInv, FullInv, LoneInv, ThreadLimit, ToSet
<1>1. Cardinality(ToSet(idle)) = Len(idle) /\ IsFiniteSet(ToSet(idle))
  BY <1>0, DistinctCardinality, FS_Subset DEF IInv, ListInv, Distinct, Alive
<1>2. ASSUME NEW s \in Slot, tpc[s] = "save"
      PROVE  Len(idle) < total /\ ~full /\ Len(idle) < MaxThreads
  <2>1. s \in Alive /\ s \notin ToSet(idle) /\ ToSet(idle) \subseteq Alive \ {s}
    BY <1>0, <1>2 DEF Alive
  <2>2. IsFiniteSet(Alive \ {s}) /\ Cardinality(Alive \ {s}) = Cardinality(Alive) - 1
    BY <1>0, <2>1, FS_RemoveElement
  <2>3. Cardinality(ToSet(idle)) <= Cardinality(Alive) - 1
    BY <2>1, <2>2, FS_Subset
  <2> QED BY <1>0, <1>1, <2>1, <2>3
<1>3. ASSUME Alive \subseteq ToSet(idle) PROVE total <= Len(idle)
  <2>1. Cardinality(Alive) <= Cardinality(ToSet(idle))
    BY <1>1, <1>3, FS_Subset
  <2> QED BY <1>0, <1>1, <2>1
<1> QED BY <1>2, <1>3

LEMMA AllCounted ==
    IInv /\ LoneInv => (~shutdown /\ Alive \subseteq ToSet(idle) => total <= Len(idle))
BY LoneCount

LEMMA JobPoolStep ==
    ASSUME OneCaller, IInv, LoneInv, [Next]_vars
    PROVE  [Jobs!Give \/ Jobs!Rest \/ Jobs!Shut]_Crew
<1> USE DEF Crew
<1>0. /\ idle \in Seq(Slot) /\ Len(idle) \in Nat /\ total \in Int
      /\ shutdown \in BOOLEAN /\ full \in BOOLEAN
      /\ MaxThreads \in Nat /\ total <= MaxThreads
      /\ tpc \in [Slot -> ThreadState] /\ cpc \in [Caller -> CallerState]
      /\ \A d \in Caller : cpc[d] = "woken" => idle # <<>>
      /\ shutdown <=> \E d \in Caller : cpc[d] \in ShutdownStates
      /\ \A d, e \in Caller : d = e
  BY PoolAssumption
     DEF IInv, TypeOK, DeleteInv, LoneInv, ThreadLimit, OneCaller
<1>1. ASSUME UNCHANGED <<idle, total, shutdown, full>> PROVE UNCHANGED Crew
  BY <1>1
<1>2. ASSUME NEW d \in Caller,
             \/ CallerCall(d) \/ Block(d) \/ WaitDone(d) \/ CreateFail(d)
             \/ Signal(d) \/ DeleteWait(d) \/ DeleteSignal(d) \/ DeleteWaitEmpty(d)
      PROVE  UNCHANGED Crew
  BY <1>1, <1>2
     DEF CallerCall, Dispatch, Wait4idler, Delete, Block, WaitDone, CreateFail,
         Signal, DeleteWait, DeleteSignal, DeleteWaitEmpty, poolVars
<1>3. ASSUME NEW d \in Caller, NEW s \in Slot, Create(d, s) PROVE Jobs!Give
  <2>1. /\ ~shutdown /\ cpc[d] \in {"woken", "lock"}
    BY <1>0, <1>3 DEF Create, Passed, ShutdownStates
  <2>2. idle = <<>> /\ Len(idle) = 0 /\ total < MaxThreads
    BY <1>0, <1>3 DEF Create, Passed, Full
  <2>3. idle' = idle /\ total' = total + 1 /\ ~full' /\ full' = FALSE /\ ~shutdown'
    BY <1>3, <2>1 DEF Create
  <2>4. Crew = [idle |-> 0, total |-> total, told |-> full]
    BY <2>1, <2>2
  <2>5. Crew' = [idle |-> 0, total |-> total + 1, told |-> FALSE]
    BY <2>2, <2>3
  <2> HIDE DEF Crew
  <2>6. Jobs!Taken = [idle |-> 0, total |-> total + 1, told |-> FALSE]
    <3>1. Crew.idle = 0 /\ Crew.total = total
      BY <2>4
    <3> QED BY <3>1 DEF Jobs!Taken
  <2>7. Jobs!Room
    BY <1>0, <2>2, <2>4 DEF Jobs!Room
  <2> QED BY <2>5, <2>6, <2>7 DEF Jobs!Give, Crew
<1>4. ASSUME NEW d \in Caller, Take(d) PROVE Jobs!Give
  <2>1. ~shutdown
    BY <1>0, <1>4 DEF Take, Passed, ShutdownStates
  <2>2. idle # <<>> /\ idle' = Front(idle) /\ total' = total /\ full' = FALSE /\ ~shutdown'
    BY <1>4, <2>1 DEF Take
  <2>3. Len(idle) > 0 /\ Len(idle') = Len(idle) - 1
    BY <1>0, <2>2, TakeLast
  <2> QED BY <2>1, <2>2, <2>3 DEF Jobs!Give, Jobs!Room, Jobs!Taken
<1>5. ASSUME NEW d \in Caller, DeleteShutdown(d) PROVE [Jobs!Shut]_Crew
  <2>1. ~shutdown
    BY <1>0, <1>5 DEF DeleteShutdown, ShutdownStates
  <2>2. total <= Len(idle)
    <3>1. CASE cpc[d] = "fullwoken"
      BY <2>1, <3>1, LoneCount DEF IInv, FullInv
    <3>2. CASE cpc[d] = "del" /\ Len(idle) >= total
      BY <1>0, <3>2
    <3> QED BY <1>5, <3>1, <3>2 DEF DeleteShutdown
  <2>3. shutdown'
    BY <1>5 DEF DeleteShutdown
  <2> QED BY <1>0, <2>1, <2>2, <2>3 DEF Jobs!Shut, Jobs!AllIdle, Jobs!Empty
<1>6. ASSUME NEW d \in Caller, DeleteFree(d) PROVE UNCHANGED Crew
  BY <1>0, <1>6 DEF DeleteFree, ShutdownStates
<1>7. ASSUME NEW s \in Slot, Save(s) PROVE Jobs!Rest
  <2>1. ~shutdown /\ tpc[s] = "save"
    BY <1>7 DEF Save, IInv, ListInv
  <2>2. Len(idle) < total /\ ~full
    BY <2>1, LoneCount
  <2>3. /\ idle' = Append(idle, s) /\ total' = total /\ shutdown' = shutdown
        /\ full' = (full \/ Len(idle) + 1 >= total)
    BY <1>7 DEF Save
  <2>4. Len(idle') = Len(idle) + 1
    BY <1>0, <2>3
  <2>5. full' = (Len(idle) + 1 >= total)
    BY <2>2, <2>3
  <2>6. Crew = [idle |-> Len(idle), total |-> total, told |-> full]
    BY <2>1
  <2>7. Crew' = [idle |-> Len(idle) + 1, total |-> total, told |-> full']
    BY <2>1, <2>3, <2>4
  <2>8. Jobs!Rested = [idle |-> Len(idle) + 1, total |-> total,
                       told |-> Len(idle) + 1 >= total]
    BY <1>0, <2>1, <2>6 DEF Jobs!Rested
  <2>9. Jobs!Given > 0
    BY <1>0, <2>1, <2>2, <2>6 DEF Jobs!Given
  <2> QED BY <2>5, <2>7, <2>8, <2>9 DEF Jobs!Rest
<1>8. ASSUME NEW s \in Slot, Test(s) \/ Finish(s) \/ Park(s) \/ SaveRefused(s)
      PROVE  UNCHANGED Crew
  BY <1>1, <1>8 DEF Test, Finish, Park, SaveRefused, poolVars
<1>9. ASSUME NEW s \in Slot, Exit(s) PROVE UNCHANGED Crew
  BY <1>0, <1>9 DEF Exit, IInv, ListInv
<1>10. CASE UNCHANGED vars
  BY <1>1, <1>10 DEF vars, poolVars
<1> QED
  BY <1>2, <1>3, <1>4, <1>5, <1>6, <1>7, <1>8, <1>9, <1>10
     DEF Next, CallerStep, ThreadStep

\* For one caller the thread pool with its list, mutexes and condition variables
\* is the crew that MTServer takes it for.
THEOREM JobPoolRefinement == OneCaller => (Spec => JobPoolSpec)
<1> SUFFICES ASSUME OneCaller PROVE Spec => JobPoolSpec
  OBVIOUS
<1>1. Init => Crew = Jobs!Empty
  BY JobPoolInit
<1>2. IInv /\ LoneInv /\ [Next]_vars => LoneInv'
  BY LoneStep
<1>3. IInv /\ LoneInv /\ [Next]_vars => [Jobs!Give \/ Jobs!Rest \/ Jobs!Shut]_Crew
  BY JobPoolStep
<1> QED BY LoneInit, <1>1, <1>2, <1>3, Invariance, PTL
        DEF Spec, JobPoolSpec, Jobs!Spec, Crew

-----------------------------------------------------------------------------
(* For one caller: whoever waits is woken, and the callback comes.         *)

\* A thread that sleeps is in the list, or the caller is about to signal it.
Parked ==
    ~shutdown =>
       \A s \in Slot : tpc[s] \in {"park", "wait"} => s \in ToSet(idle) \cup Taken

WaitInv ==
    \A d \in Caller :
        /\ cpc[d] = "blocked" => Full
        /\ cpc[d] = "waitfull" => Len(idle) < total
        /\ cpc[d] = "waitempty" => total > 0 /\ signalled = Len(idle)

\* The threads the destructor has signalled do not sleep any more.
SignalInv ==
    /\ ~shutdown => signalled = 0
    /\ \A s \in ToSet(idle) : tpc[s] # "none"
    /\ \A i \in 1..Len(idle) :
          i <= signalled => tpc[idle[i]] \in {"start", "exit", "gone"}

AwaitInv == Parked /\ WaitInv /\ SignalInv

\* saveThread() leaves no caller in dispatch(), and one in the destructor only
\* while other threads are busy.
LEMMA SaveWakes ==
    ASSUME OneCaller, TypeOK, NEW s \in Slot, Save(s), NEW d \in Caller
    PROVE  /\ cpc'[d] # "blocked"
           /\ cpc'[d] = "waitfull" => cpc[d] = "waitfull" /\ Len(idle) + 1 < total
<1> DEFINE allIdle == Len(idle) + 1 >= total
<1>0. cpc \in [Caller -> CallerState] /\ Len(idle) \in Nat /\ total \in Int
  BY DEF TypeOK
<1>1. CASE \E c \in Blocked : cpc' = Signalled(c, allIdle)
  <2>1. PICK c \in Blocked : cpc' = Signalled(c, allIdle)
    BY <1>1
  <2> HIDE DEF allIdle
  <2>2. c = d
    BY DEF Blocked, OneCaller
  <2>3. \A e \in Caller : cpc'[e] = CASE e = c -> "woken"
                              [] allIdle /\ cpc[e] = "waitfull" -> "fullwoken"
                              [] OTHER -> cpc[e]
    BY <2>1 DEF Signalled
  <2> QED BY <2>2, <2>3
<1>2. CASE Blocked = {} /\ cpc' = Signalled(NoCaller, allIdle)
  <2>1. cpc[d] # "blocked" /\ d # NoCaller
    BY <1>2, PoolAssumption DEF Blocked
  <2> HIDE DEF allIdle
  <2>2. cpc'[d] = IF allIdle /\ cpc[d] = "waitfull" THEN "fullwoken" ELSE cpc[d]
    BY <1>2, <2>1 DEF Signalled
  <2> QED BY <1>0, <2>1, <2>2 DEF allIdle
<1> QED BY <1>1, <1>2 DEF Save

LEMMA AwaitInit == Init => AwaitInv
<1> SUFFICES ASSUME Init PROVE AwaitInv
  OBVIOUS
<1>1. idle = <<>> /\ ToSet(idle) = {} /\ signalled = 0
  BY EmptyList DEF Init
<1> QED BY <1>1 DEF Init, AwaitInv, Parked, WaitInv, SignalInv

LEMMA AwaitStep ==
    ASSUME OneCaller, IInv, LoneInv, AwaitInv, [Next]_vars
    PROVE  AwaitInv'
<1> USE DEF AwaitInv, Parked, WaitInv, SignalInv, Full
<1>0. /\ cpc \in [Caller -> CallerState] /\ tpc \in [Slot -> ThreadState]
      /\ idle \in Seq(Slot) /\ Len(idle) \in Nat /\ total \in Int /\ signalled \in Nat
      /\ \A i \in 1..Len(idle) : idle[i] \in Slot /\ idle[i] \in ToSet(idle)
      /\ \A s \in ToSet(idle) : s \in Slot /\ \E i \in 1..Len(idle) : idle[i] = s
      /\ \A d, e \in Caller : d = e
      /\ shutdown <=> \E d \in Caller : cpc[d] \in ShutdownStates
      /\ target \in [Caller -> Slot \cup {NoSlot}]
  BY DEF IInv, TypeOK, DeleteInv, OneCaller, ToSet
<1>1. ASSUME NEW d \in Caller,
             \/ CallerCall(d) \/ Block(d) \/ WaitDone(d) \/ CreateFail(d)
             \/ DeleteWait(d) \/ DeleteWaitEmpty(d)
      PROVE  AwaitInv'
  <2>1. /\ idle' = idle /\ tpc' = tpc /\ total' = total /\ shutdown' = shutdown
        /\ target' = target /\ signalled' = signalled
    BY <1>1 DEF CallerCall, Dispatch, Wait4idler, Delete, Block, WaitDone, CreateFail,
                DeleteWait, DeleteWaitEmpty, poolVars
  <2>2. /\ cpc'[d] = "blocked" => Full
        /\ cpc'[d] = "waitfull" => Len(idle) < total
        /\ cpc'[d] = "waitempty" => total > 0 /\ signalled = Len(idle)
    BY <1>0, <1>1 DEF CallerCall, Dispatch, Wait4idler, Delete, Block, WaitDone, CreateFail,
                      DeleteWait, DeleteWaitEmpty
  <2>3. WaitInv'
    BY <1>0, <2>1, <2>2
  <2>4. Parked' /\ SignalInv'
    BY <2>1 DEF Taken
  <2> QED BY <2>3, <2>4
<1>2. ASSUME NEW d \in Caller, DeleteShutdown(d) PROVE AwaitInv'
  <2>1. /\ idle' = idle /\ tpc' = tpc /\ total' = total /\ shutdown'
        /\ target' = target /\ signalled' = signalled /\ cpc'[d] = "delsignal"
        /\ cpc[d] \in {"del", "fullwoken"}
    BY <1>0, <1>2 DEF DeleteShutdown
  <2>2. ~shutdown
    BY <1>0, <2>1 DEF ShutdownStates
  <2>3. \A e \in Caller : cpc'[e] = "delsignal"
    BY <1>0, <2>1
  <2> QED BY <1>0, <2>1, <2>2, <2>3
<1>3. ASSUME NEW d \in Caller, NEW s \in Slot, Create(d, s) PROVE AwaitInv'
  <2>1. /\ idle' = <<>> /\ idle = <<>> /\ tpc' = [tpc EXCEPT ![s] = "start"]
        /\ shutdown' = shutdown /\ target' = target /\ signalled' = signalled
        /\ \A e \in Caller : cpc'[e] = "idle"
    BY <1>0, <1>3 DEF Create
  <2> QED BY <1>0, <2>1 DEF Taken
<1>4. ASSUME NEW d \in Caller, Take(d) PROVE AwaitInv'
  <2>1. /\ idle # <<>> /\ idle' = Front(idle) /\ tpc' = tpc /\ shutdown' = shutdown
        /\ target' = [target EXCEPT ![d] = Last(idle)] /\ signalled' = signalled
        /\ \A e \in Caller : cpc'[e] = "signal"
        /\ cpc[d] \in {"woken", "lock"}
    BY <1>0, <1>4 DEF Take, Passed
  <2>2. ~shutdown /\ signalled = 0
    BY <1>0, <2>1 DEF ShutdownStates
  <2>3. Taken = {}
    BY <1>0, <2>1 DEF Taken, IInv, CallInv
  <2>4. Last(idle) \in Slot /\ ToSet(idle') = ToSet(idle) \ {Last(idle)}
    BY <1>0, <2>1, TakeLast DEF IInv, ListInv, Distinct
  <2>5. Last(idle) # NoSlot /\ target'[d] = Last(idle)
    BY <1>0, <2>1, <2>4, PoolAssumption
  <2>6. Last(idle) \in Taken'
    BY <2>5 DEF Taken
  <2> QED BY <2>1, <2>2, <2>3, <2>4, <2>6
<1>5. ASSUME NEW d \in Caller, Signal(d) PROVE AwaitInv'
  <2>1. /\ idle' = idle /\ tpc' = Woken(target[d]) /\ shutdown' = shutdown
        /\ signalled' = signalled /\ \A e \in Caller : cpc'[e] = "idle"
        /\ cpc[d] = "signal" /\ ~OwnHeld(target[d])
    BY <1>0, <1>5 DEF Signal
  <2>2. ~shutdown /\ signalled = 0
    BY <1>0, <2>1 DEF ShutdownStates
  <2>3. tpc[target[d]] = "wait" /\ target[d] \in Slot /\ Taken \subseteq {target[d]}
    BY <1>0, <2>1, PoolAssumption DEF IInv, CallInv, OwnHeld, Taken
  <2>4. tpc'[target[d]] = "start"
        /\ \A s \in Slot : tpc'[s] = tpc[s] \/ tpc'[s] = "start"
    BY <1>0, <2>1, <2>3 DEF Woken
  <2> QED BY <1>0, <2>1, <2>2, <2>3, <2>4
<1>6. ASSUME NEW d \in Caller, DeleteSignal(d) PROVE AwaitInv'
  <2>1. /\ idle' = idle /\ tpc' = Woken(idle[signalled + 1]) /\ shutdown' = shutdown
        /\ signalled' = signalled + 1 /\ cpc' = cpc /\ cpc[d] = "delsignal"
        /\ signalled < Len(idle) /\ ~OwnHeld(idle[signalled + 1])
    BY <1>6 DEF DeleteSignal, poolVars
  <2>2. shutdown /\ \A e \in Caller : cpc'[e] = "delsignal"
    BY <1>0, <2>1 DEF ShutdownStates
  <2>3. idle[signalled + 1] \in Slot /\ tpc[idle[signalled + 1]] \in {"start", "wait", "exit", "gone"}
    <3>1. signalled + 1 \in 1..Len(idle)
      BY <1>0, <2>1
    <3>2. idle[signalled + 1] \in Slot /\ tpc[idle[signalled + 1]] # "none"
      BY <1>0, <3>1
    <3>3. tpc[idle[signalled + 1]] \notin {"run", "save", "park"}
      BY <2>1, <2>2, <3>2 DEF IInv, ListInv, OwnHeld
    <3>4. tpc[idle[signalled + 1]] \in ThreadState
      BY <1>0, <3>2
    <3> QED BY <3>2, <3>3, <3>4 DEF ThreadState
  <2>4. /\ \A s \in Slot : tpc'[s] = IF s = idle[signalled + 1] /\ tpc[s] = "wait"
                                       THEN "start" ELSE tpc[s]
    BY <1>0, <2>1 DEF Woken
  <2>5. \A s \in ToSet(idle') : tpc'[s] # "none"
    BY <1>0, <2>1, <2>4
  <2>6. ASSUME NEW i \in 1..Len(idle), i <= signalled + 1
        PROVE  tpc'[idle[i]] \in {"start", "exit", "gone"}
    <3>1. idle[i] \in Slot /\ (i <= signalled \/ i = signalled + 1)
      BY <1>0, <2>6
    <3> QED BY <2>3, <2>4, <3>1
  <2> QED BY <2>1, <2>2, <2>5, <2>6
<1>7. ASSUME NEW d \in Caller, DeleteFree(d) PROVE AwaitInv'
  <2>1. /\ idle' = <<>> /\ shutdown' = shutdown /\ \A e \in Caller : cpc'[e] = "deleted"
        /\ cpc[d] \in ShutdownStates
    BY <1>0, <1>7 DEF DeleteFree, ShutdownStates
  <2>2. ToSet(idle') = {} /\ Len(idle') = 0 /\ shutdown'
    BY <1>0, <2>1, EmptyList
  <2> QED BY <2>1, <2>2
<1>8. ASSUME NEW s \in Slot, Save(s) PROVE AwaitInv'
  <2>1. /\ idle' = Append(idle, s) /\ tpc[s] = "save" /\ total' = total
        /\ tpc' = [tpc EXCEPT ![s] = "park"] /\ shutdown' = shutdown
        /\ target' = target /\ signalled' = signalled
    BY <1>8 DEF Save
  <2>2. ~shutdown /\ signalled = 0
    BY <2>1 DEF IInv, ListInv
  <2>3. Len(idle') = Len(idle) + 1 /\ ToSet(idle') = ToSet(idle) \cup {s}
    BY <1>0, <2>1, AppendNew
  <2>4. WaitInv'
    <3>1. \A d \in Caller : /\ cpc'[d] # "blocked"
                            /\ cpc'[d] = "waitfull" => Len(idle) + 1 < total
      BY <1>8, SaveWakes DEF IInv
    <3>2. \A d \in Caller : cpc'[d] # "waitempty"
      BY <1>0, <1>8, <2>2, SaveCallers DEF IInv, ShutdownStates
    <3> QED BY <2>1, <2>3, <3>1, <3>2
  <2>5. Parked'
    BY <1>0, <2>1, <2>3 DEF Taken
  <2>6. SignalInv'
    BY <1>0, <2>1, <2>2, <2>3
  <2> QED BY <2>4, <2>5, <2>6
<1>9. ASSUME NEW s \in Slot, Test(s) \/ Finish(s) \/ Park(s) PROVE AwaitInv'
  <2>1. /\ idle' = idle /\ total' = total /\ cpc' = cpc /\ target' = target
        /\ signalled' = signalled /\ shutdown' = shutdown
        /\ \/ tpc[s] = "start" /\ tpc' = [tpc EXCEPT ![s] = IF shutdown THEN "exit" ELSE "run"]
           \/ tpc[s] = "run" /\ tpc' = [tpc EXCEPT ![s] = "save"]
           \/ tpc[s] = "park" /\ tpc' = [tpc EXCEPT ![s] = "wait"]
    BY <1>9 DEF Test, Finish, Park, poolVars, callerVars
  <2>2. WaitInv' /\ Parked'
    BY <1>0, <2>1 DEF Taken
  <2>3. SignalInv'
    BY <1>0, <2>1
  <2> QED BY <2>2, <2>3
<1>10. ASSUME NEW s \in Slot, SaveRefused(s) PROVE FALSE
  <2>1. tpc[s] = "save" /\ Len(idle) >= MaxThreads /\ ~shutdown
    BY <1>10 DEF SaveRefused, IInv, ListInv
  <2>2. Len(idle) < MaxThreads
    BY <2>1, LoneCount
  <2> QED BY <1>0, <2>1, <2>2, PoolAssumption
<1>11. ASSUME NEW s \in Slot, Exit(s) PROVE AwaitInv'
  <2>1. /\ idle' = idle /\ tpc[s] = "exit" /\ tpc' = [tpc EXCEPT ![s] = "gone"]
        /\ total' = total - 1 /\ shutdown' = shutdown /\ signalled' = signalled
        /\ \A e \in Caller :
              cpc'[e] = IF total' <= 0 /\ cpc[e] = "waitempty" THEN "emptywoken" ELSE cpc[e]
    BY <1>0, <1>11 DEF Exit
  <2>2. shutdown
    BY <2>1 DEF IInv, ListInv
  <2>3. \A e \in Caller : cpc[e] \in ShutdownStates
    BY <1>0, <2>2
  <2>4. WaitInv'
    BY <1>0, <2>1, <2>3 DEF ShutdownStates
  <2> QED BY <1>0, <2>1, <2>2, <2>4
<1>12. CASE UNCHANGED vars
  <2>1. /\ idle' = idle /\ tpc' = tpc /\ total' = total /\ cpc' = cpc /\ target' = target
        /\ signalled' = signalled /\ shutdown' = shutdown
    BY <1>12 DEF vars, poolVars, callerVars
  <2> QED BY <2>1 DEF Taken
<1> QED
  BY <1>1, <1>2, <1>3, <1>4, <1>5, <1>6, <1>7, <1>8, <1>9, <1>10, <1>11, <1>12
     DEF Next, CallerStep, ThreadStep

LEMMA AwaitEnough == OneCaller /\ IInv /\ LoneInv /\ AwaitInv => Awaited
<1> SUFFICES ASSUME OneCaller, IInv, LoneInv, AwaitInv PROVE Awaited
  OBVIOUS
<1>0. /\ cpc \in [Caller -> CallerState] /\ tpc \in [Slot -> ThreadState]
      /\ idle \in Seq(Slot) /\ Len(idle) \in Nat /\ MaxThreads \in Nat \ {0}
      /\ total = Cardinality(Alive) /\ total \in Int /\ IsFiniteSet(Alive)
      /\ shutdown <=> \E d \in Caller : cpc[d] \in ShutdownStates
      /\ \A d, e \in Caller : d = e
      /\ \A s \in ToSet(idle) : \E i \in 1..Len(idle) : idle[i] = s
  BY PoolAssumption
     DEF IInv, TypeOK, DeleteInv, TotalInv, LoneInv, ThreadLimit, OneCaller, ToSet
<1>1. ASSUME NEW d \in Caller, cpc[d] \in {"blocked", "waitfull"}
      PROVE  \E s \in Slot : tpc[s] \in {"start", "run", "save"}
  <2>1. Len(idle) < total
    <3>1. CASE cpc[d] = "blocked"
      <4>1. Full
        BY <3>1 DEF AwaitInv, WaitInv
      <4> QED BY <1>0, <4>1 DEF Full
    <3>2. CASE cpc[d] = "waitfull"
      BY <3>2 DEF AwaitInv, WaitInv
    <3> QED BY <1>1, <3>1, <3>2
  <2>2. ~shutdown
    BY <1>0, <1>1 DEF ShutdownStates
  <2>3. PICK s \in Alive : s \notin ToSet(idle)
    <3>1. ~(Alive \subseteq ToSet(idle))
      BY <1>0, <2>1, <2>2, LoneCount
    <3> QED BY <3>1
  <2>4. Taken = {}
    BY <1>0, <1>1 DEF Taken, IInv, CallInv
  <2>5. s \in Slot /\ tpc[s] \in ThreadState /\ tpc[s] \notin {"none", "gone", "exit", "park", "wait"}
    BY <1>0, <2>2, <2>3, <2>4 DEF Alive, AwaitInv, Parked, IInv, ListInv
  <2> QED BY <2>5 DEF ThreadState
<1>2. ASSUME NEW d \in Caller, cpc[d] = "waitempty"
      PROVE  \E s \in Slot : tpc[s] \in {"start", "exit"}
  <2>1. total > 0 /\ signalled = Len(idle) /\ shutdown
    BY <1>0, <1>2 DEF AwaitInv, WaitInv, ShutdownStates
  <2>2. PICK s \in Alive : TRUE
    <3>1. Alive # {}
      BY <1>0, <2>1, FS_EmptySet
    <3> QED BY <3>1
  <2>3. s \in Slot /\ s \in ToSet(idle) /\ tpc[s] # "gone"
    BY <2>1 DEF Alive, IInv, ListInv
  <2>4. PICK i \in 1..Len(idle) : idle[i] = s
    BY <1>0, <2>3
  <2>5. tpc[idle[i]] \in {"start", "exit", "gone"}
    BY <1>0, <2>1 DEF AwaitInv, SignalInv
  <2> QED BY <2>3, <2>4, <2>5
<1> QED BY <1>1, <1>2 DEF Awaited

\* With one caller mTotal is the number of threads and never exceeds
\* mMaxThreads, a dispatch() after wait4idler() does not block, and a caller that
\* waits on a condition variable has a thread that is on its way to signal it,
\* however jobs, failures and the destructor interleave.
THEOREM LoneSafety == OneCaller => (Spec => []LoneSafe)
<1> SUFFICES ASSUME OneCaller PROVE Spec => []LoneSafe
  OBVIOUS
<1>1. IInv /\ LoneInv /\ [Next]_vars => LoneInv'
  BY LoneStep
<1>2. IInv /\ LoneInv /\ AwaitInv /\ [Next]_vars => AwaitInv'
  BY AwaitStep
<1>3. IInv /\ LoneInv /\ AwaitInv => LoneSafe
  BY AwaitEnough DEF LoneInv, LoneSafe
<1> QED BY LoneInit, AwaitInit, <1>1, <1>2, <1>3, Invariance, PTL DEF Spec

LEMMA ReportStep ==
    ASSUME OneCaller, IInv, IInv', LoneInv, LoneInv', AllIdleReported, [Next]_vars
    PROVE  AllIdleReported'
<1> USE DEF AllIdleReported
<1>0. /\ tpc \in [Slot -> ThreadState] /\ idle \in Seq(Slot) /\ Len(idle) \in Nat
      /\ total \in Int
  BY DEF IInv, TypeOK
<1>1. ASSUME UNCHANGED <<idle, full>>, Alive' = Alive PROVE AllIdleReported'
  BY <1>1
<1>2. ASSUME NEW d \in Caller,
             \/ CallerCall(d) \/ Block(d) \/ WaitDone(d) \/ CreateFail(d)
             \/ DeleteWait(d) \/ DeleteShutdown(d) \/ DeleteWaitEmpty(d)
      PROVE  AllIdleReported'
  <2>1. UNCHANGED <<idle, full, tpc>>
    BY <1>2 DEF CallerCall, Dispatch, Wait4idler, Delete, Block, WaitDone, CreateFail,
                DeleteWait, DeleteShutdown, DeleteWaitEmpty, poolVars
  <2>2. Alive' = Alive
    BY <2>1 DEF Alive
  <2> QED BY <1>1, <2>1, <2>2
<1>3. ASSUME NEW d \in Caller, NEW s \in Slot, Create(d, s) PROVE AllIdleReported'
  <2>1. idle' = <<>> /\ tpc' = [tpc EXCEPT ![s] = "start"]
    BY <1>3 DEF Create
  <2>2. s \in Alive' /\ ToSet(idle') = {}
    BY <1>0, <2>1, EmptyList DEF Alive
  <2> QED BY <2>2
<1>4. ASSUME NEW d \in Caller, Take(d) PROVE AllIdleReported'
  <2>1. idle # <<>> /\ idle' = Front(idle) /\ tpc' = tpc /\ cpc[d] \in {"woken", "lock"}
    BY <1>4 DEF Take, Passed
  <2>2. Last(idle) \in ToSet(idle) /\ Last(idle) \in Slot
        /\ ToSet(idle') = ToSet(idle) \ {Last(idle)}
    BY <1>0, <2>1, TakeLast DEF IInv, ListInv, Distinct
  <2>3. ~shutdown
    <3>1. \A e \in Caller : cpc[e] \notin ShutdownStates
      BY <2>1 DEF OneCaller, ShutdownStates
    <3> QED BY <3>1 DEF IInv, DeleteInv
  <2>4. Last(idle) \in Alive'
    BY <2>1, <2>2, <2>3 DEF IInv, ListInv, Alive
  <2> QED BY <2>2, <2>4
<1>5. ASSUME NEW d \in Caller, NEW s, tpc' = Woken(s), UNCHANGED <<idle, full>>
      PROVE  AllIdleReported'
  <2>1. \A u \in Slot : tpc'[u] = tpc[u] \/ (tpc[u] = "wait" /\ tpc'[u] = "start")
    BY <1>0, <1>5 DEF Woken
  <2>2. Alive' = Alive
    BY <2>1 DEF Alive
  <2> QED BY <1>1, <1>5, <2>2
<1>6. ASSUME NEW d \in Caller, DeleteFree(d) PROVE AllIdleReported'
  <2>1. idle' = <<>> /\ ToSet(idle') = {}
    BY <1>6, EmptyList DEF DeleteFree
  <2> QED BY <2>1
<1>7. ASSUME NEW s \in Slot, Save(s) PROVE AllIdleReported'
  <2>1. /\ idle' = Append(idle, s) /\ total' = total /\ ~shutdown /\ shutdown' = shutdown
        /\ full' = (full \/ Len(idle) + 1 >= total)
    BY <1>7 DEF Save, IInv, ListInv
  <2>2. Len(idle') = Len(idle) + 1
    BY <1>0, <2>1
  <2>3. Alive' \subseteq ToSet(idle') => total' <= Len(idle')
    <3>1. ~shutdown'
      BY <2>1
    <3>2. (IInv /\ LoneInv
             => (~shutdown /\ Alive \subseteq ToSet(idle) => total <= Len(idle)))'
      BY AllCounted, PTL
    <3> QED BY <3>1, <3>2
  <2> QED BY <1>0, <2>1, <2>2, <2>3
<1>8. ASSUME NEW s \in Slot, Test(s) \/ Finish(s) \/ Park(s) PROVE AllIdleReported'
  <2>1. /\ UNCHANGED <<idle, full>> /\ tpc[s] \in {"start", "run", "park"}
        /\ \E x \in {"exit", "run", "save", "wait"} : tpc' = [tpc EXCEPT ![s] = x]
    BY <1>8 DEF Test, Finish, Park, poolVars
  <2>2. Alive' = Alive
    BY <1>0, <2>1 DEF Alive
  <2> QED BY <1>1, <2>1, <2>2
<1>9. ASSUME NEW s \in Slot, SaveRefused(s) PROVE FALSE
  <2>1. tpc[s] = "save" /\ Len(idle) >= MaxThreads /\ ~shutdown
    BY <1>9 DEF SaveRefused, IInv, ListInv
  <2>2. Len(idle) < MaxThreads
    BY <2>1, LoneCount
  <2> QED BY <1>0, <2>1, <2>2, PoolAssumption
<1>10. ASSUME NEW s \in Slot, Exit(s) PROVE AllIdleReported'
  <2>1. UNCHANGED <<idle, full>> /\ tpc[s] = "exit"
    BY <1>10 DEF Exit
  <2>2. shutdown /\ s \in Alive /\ Alive \subseteq ToSet(idle)
    BY <2>1 DEF IInv, ListInv, Alive
  <2> QED BY <2>1, <2>2
<1>11. CASE UNCHANGED vars
  <2>1. UNCHANGED <<idle, full, tpc>>
    BY <1>11 DEF vars, poolVars
  <2>2. Alive' = Alive
    BY <2>1 DEF Alive
  <2> QED BY <1>1, <2>1, <2>2
<1>12. ASSUME NEW d \in Caller, Signal(d) \/ DeleteSignal(d) PROVE AllIdleReported'
  BY <1>5, <1>12 DEF Signal, DeleteSignal, poolVars
<1> QED
  BY <1>2, <1>3, <1>4, <1>6, <1>7, <1>8, <1>9, <1>10, <1>11, <1>12
     DEF Next, CallerStep, ThreadStep

\* With one caller mFullCallback has been called whenever all threads are idle,
\* what spprocthread.hpp:20 says: with one caller dispatch() never makes a thread
\* too many, which saveThread() would refuse and mTotal would count for ever.
THEOREM LoneReports == OneCaller => (Spec => []AllIdleReported)
<1> SUFFICES ASSUME OneCaller PROVE Spec => []AllIdleReported
  OBVIOUS
<1>1. IInv /\ LoneInv /\ [Next]_vars => LoneInv'
  BY LoneStep
<1>2. IInv /\ IInv' /\ LoneInv /\ LoneInv' /\ AllIdleReported /\ [Next]_vars
         => AllIdleReported'
  BY ReportStep
<1>3. Init => AllIdleReported
  BY DEF Init, AllIdleReported, Alive
<1> QED BY LoneInit, <1>1, <1>2, <1>3, Invariance, PTL DEF Spec

=============================================================================
