--------------------------- MODULE LFServerProofs ----------------------------
(***************************************************************************)
(* Proofs of the safety properties of LFServer, for every set of workers,  *)
(* every setting of the server and every number of clients and deaths.     *)
(***************************************************************************)
EXTENDS LFServer, ListLemmas, FiniteSetTheorems, TLAPS

-----------------------------------------------------------------------------
(* The inductive invariant.                                                *)

\* What a worker wrote last, as long as nobody has read it, is what it does.
PipeInv ==
    mpc # "done" =>
       \A p \in Proc :
          /\ wpc[p] \in {"none", "closed"} => pipe[p] = <<>>
          /\ pipe[p] # <<>> /\ Last(pipe[p]) = Exit => wpc[p] \in {"leave", "gone"}
          /\ pipe[p] # <<>> /\ wpc[p] = "handle" => Last(pipe[p]) = Busy

\* Who has the lock is in accept(), and gives it back there.
LockInv ==
    /\ LockKind = "none" => lock = NoProc
    /\ mpc # "done" /\ lock # NoProc /\ (LockKind = "thread" => deaths = 0) =>
          wpc[lock] = "accept"

Limits == ProcLimit /\ NeverAlone

IInv == TypeOK /\ PipeInv /\ CountExact /\ Limits /\ LockInv /\ IdleHonest

\* The entries that idleCount counts.
IdleSet == {p \in ToSet(procList) : isIdle[p]}

-----------------------------------------------------------------------------
(* The arguments of the server and its list.                               *)

LEMMA ArgsSane ==
    /\ MinIdleProc \in Nat /\ MaxIdleProc \in Nat /\ MaxProc \in Nat
    /\ MinIdleProc >= 1 /\ MaxIdleProc >= 1 /\ MaxProc >= 1
    /\ ProcBound \in Nat /\ MinIdleProc <= ProcBound /\ MaxProc <= ProcBound
<1>1. MinIdleProc \in Nat /\ MinIdleProc >= 1
  BY ArgsAssumption DEF MinIdleProc
<1>2. MaxIdleProc \in Nat /\ MaxIdleProc >= 1
  BY <1>1, ArgsAssumption DEF MaxIdleProc
<1>3. MaxProc \in Nat /\ MaxProc >= 1
  BY <1>2, ArgsAssumption DEF MaxProc
<1> QED BY <1>1, <1>2, <1>3 DEF ProcBound

LEMMA ListType ==
    ASSUME TypeOK
    PROVE  /\ procList \in Seq(Proc) /\ Len(procList) \in Nat
           /\ Distinct(procList) /\ ToSet(procList) \subseteq Proc
           /\ IsFiniteSet(ToSet(procList)) /\ IsFiniteSet(IdleSet)
<1>1. procList \in Seq(Proc) /\ Len(procList) \in Nat /\ DOMAIN procList = 1..Len(procList)
  BY DEF TypeOK
<1>2. Distinct(procList)
  BY <1>1 DEF TypeOK, Distinct, IsInjective
<1>3. ToSet(procList) \subseteq Proc
  BY <1>1 DEF ToSet
<1>4. IsFiniteSet(ToSet(procList))
  BY <1>1, <1>2, DistinctCardinality
<1>5. IsFiniteSet(IdleSet)
  BY <1>4, FS_Subset DEF IdleSet
<1> QED BY <1>1, <1>2, <1>3, <1>4, <1>5

LEMMA DistinctInjective ==
    ASSUME NEW S, NEW s \in Seq(S), Distinct(s)
    PROVE  IsInjective(s)
BY DEF Distinct, IsInjective

\* get() appends an entry that was not in the list.
LEMMA GetList ==
    ASSUME TypeOK, mpc # "done", NEW p \in Proc, Get(p)
    PROVE  /\ procList' \in Seq(Proc) /\ IsInjective(procList')
           /\ Len(procList') = Len(procList) + 1 /\ procList' # <<>>
           /\ p \notin ToSet(procList)
           /\ ToSet(procList') = ToSet(procList) \cup {p}
<1>1. procList' = Append(procList, p) /\ wpc[p] = "none"
  BY DEF Get
<1>2. p \notin ToSet(procList)
  BY <1>1 DEF TypeOK
<1>3. procList \in Seq(Proc) /\ Distinct(procList) /\ Len(procList) \in Nat
  BY ListType
<1>4. /\ procList' \in Seq(Proc) /\ Distinct(procList')
      /\ Len(procList') = Len(procList) + 1
      /\ ToSet(procList') = ToSet(procList) \cup {p}
  BY <1>1, <1>2, <1>3, AppendNew
<1>5. IsInjective(procList')
  BY <1>4, DistinctInjective
<1>6. procList' # <<>>
  BY <1>3, <1>4
<1> QED BY <1>2, <1>4, <1>5, <1>6

\* takeItem() takes one entry out of the list.
LEMMA TakeList ==
    ASSUME TypeOK, NEW p \in Proc, TakeItem(p)
    PROVE  /\ procList' \in Seq(Proc) /\ IsInjective(procList')
           /\ Len(procList') = Len(procList) - 1
           /\ p \in ToSet(procList)
           /\ ToSet(procList') = ToSet(procList) \ {p}
<1>1. PICK i \in 1..Len(procList) : procList[i] = p /\ procList' = RemoveAt(procList, i)
  BY DEF TakeItem
<1>2. procList \in Seq(Proc) /\ Distinct(procList) /\ DOMAIN procList = 1..Len(procList)
  BY ListType
<1>3. /\ procList' \in Seq(Proc) /\ Distinct(procList')
      /\ Len(procList') = Len(procList) - 1
      /\ ToSet(procList') = ToSet(procList) \ {p}
  BY <1>1, <1>2, RemoveOne
<1>4. IsInjective(procList')
  BY <1>3, DistinctInjective
<1>5. p \in ToSet(procList)
  BY <1>1, <1>2 DEF ToSet
<1> QED BY <1>3, <1>4, <1>5

\* The entry that is looked at is in the list.
LEMMA LatestListed ==
    ASSUME TypeOK, NEW p \in Proc, Latest(p)
    PROVE  p \in ToSet(procList)
<1>1. DOMAIN procList = 1..Len(procList)
  BY ListType
<1> QED BY <1>1 DEF Latest, ToSet

LEMMA IdleSetCount ==
    ASSUME TypeOK
    PROVE  IsFiniteSet(IdleSet) /\ Cardinality(IdleSet) \in Nat
BY ListType, FS_CardinalityType

-----------------------------------------------------------------------------
(* Type correctness.                                                       *)

LEMMA TypeInit == Init => TypeOK
<1> SUFFICES ASSUME Init PROVE TypeOK
  OBVIOUS
<1>1. procList \in Seq(Proc) /\ IsInjective(procList) /\ ToSet(procList) = {}
  <2>1. procList = <<>> /\ <<>> \in Seq(Proc) /\ DOMAIN procList = {}
    BY DEF Init
  <2> QED BY <2>1 DEF IsInjective, ToSet
<1>2. failed \in BOOLEAN /\ stop \in BOOLEAN
  BY Zenon DEF Init
<1> QED BY <1>1, <1>2, LFAssumption DEF Init, TypeOK

\* What a worker does leaves the master alone.
LEMMA WorkerType ==
    ASSUME TypeOK, NEW p \in Proc, WorkerStep(p) \/ AcceptIntr(p) \/ Die(p)
    PROVE  TypeOK'
<1> USE DEF TypeOK, masterVars, envVars
<1>1. CASE Lock(p)
  <2>1. lock' \in Proc \cup {NoProc}
    BY <1>1 DEF Lock, TakeLock
  <2> QED BY <1>1, <2>1 DEF Lock, Goes
<1>2. CASE Leave(p)
  BY <1>2 DEF Leave, Goes
<1>3. CASE Accept(p)
  BY <1>3 DEF Accept, Goes, Unlock
<1>a. CASE End(p)
  BY <1>a DEF End, Goes
<1>b. CASE AcceptIntr(p)
  BY <1>b, LFAssumption DEF AcceptIntr, Goes, Unlock
<1>4. CASE AcceptFail(p)
  <2>1. CASE Goes(p, "accept", "served") /\ backlog' = backlog - 1 /\ UNCHANGED <<pipe, deaths>>
    BY <1>4, <2>1 DEF AcceptFail, Goes, Unlock
  <2>2. CASE Goes(p, "accept", "leave") /\ Says(p, Exit) /\ UNCHANGED backlog
             /\ deaths < DeathBound /\ deaths' = deaths + 1
    BY <1>4, <2>2, LFAssumption DEF AcceptFail, Goes, Says, Unlock
  <2> QED BY <1>4, <2>1, <2>2 DEF AcceptFail
<1>5. CASE SayBusy(p)
  BY <1>5 DEF SayBusy, Goes, Says
<1>6. CASE SayIdle(p)
  BY <1>6 DEF SayIdle, Goes, Says
<1>7. CASE TakePod(p)
  <2>1. CASE pods > 0
    <3>1. /\ wpc[p] = "served" /\ wpc' = [wpc EXCEPT ![p] = "leave"]
          /\ pipe' = [pipe EXCEPT ![p] = Append(@, Exit)] /\ pods' = pods - 1
      BY <1>7, <2>1 DEF TakePod, Goes, Says
    <3>2. pods' \in Nat /\ pipe' \in [Proc -> Seq({Busy, Idle, Exit})]
      BY <2>1, <3>1
    <3> QED BY <1>7, <3>1, <3>2 DEF TakePod
  <2>2. CASE ~(pods > 0)
    BY <1>7, <2>2 DEF TakePod, Goes
  <2> QED BY <2>1, <2>2
<1>8. CASE Killed(p)
  BY <1>8 DEF Killed
<1>9. CASE Die(p)
  <2>1. lock' \in Proc \cup {NoProc}
    BY <1>9 DEF Die
  <2> QED BY <1>9, <2>1, LFAssumption DEF Die
<1> QED
  BY <1>1, <1>2, <1>3, <1>4, <1>5, <1>6, <1>7, <1>8, <1>9, <1>a, <1>b DEF WorkerStep

\* get() in the master.
LEMMA GetType ==
    ASSUME TypeOK, mpc # "done", NEW p \in Proc, Get(p),
           mpc' \in {"start", "select", "done"},
           UNCHANGED <<rset, stop, pods, pipe, lock, backlog, envVars>>
    PROVE  TypeOK'
<1>1. /\ procList' \in Seq(Proc) /\ IsInjective(procList')
      /\ ToSet(procList') = ToSet(procList) \cup {p}
  BY GetList
<1>2. failed' \in BOOLEAN
  BY Zenon DEF Get
<1>3. /\ wpc[p] = "none" /\ wpc' = [wpc EXCEPT ![p] = "top"]
      /\ requests' = [requests EXCEPT ![p] = 0]
      /\ isIdle' = [isIdle EXCEPT ![p] = TRUE] /\ idleCount' = idleCount + 1
  BY DEF Get
<1>4. ToSet(procList') = {q \in Proc : wpc'[q] \notin {"none", "closed"}}
  BY <1>1, <1>3 DEF TypeOK
<1>5. rset' \subseteq ToSet(procList')
  BY <1>1 DEF TypeOK
<1> QED BY <1>1, <1>2, <1>3, <1>4, <1>5 DEF TypeOK, envVars

LEMMA GetNullType ==
    ASSUME TypeOK, mpc # "done", GetNull,
           mpc' \in {"start", "select", "done"},
           UNCHANGED <<rset, stop, pods, pipe, lock, backlog, envVars>>
    PROVE  TypeOK'
<1>1. failed' \in BOOLEAN
  BY Zenon DEF GetNull
<1> QED BY <1>1 DEF TypeOK, GetNull, envVars

LEMMA RecvType ==
    ASSUME TypeOK, PipeInv, CountExact, NEW p \in Proc, RecvFrom(p)
    PROVE  TypeOK'
<1>1. p \in ToSet(procList) /\ mpc = "recv" /\ wpc[p] \notin {"none", "closed"}
  BY LatestListed DEF RecvFrom, TypeOK
<1>2. /\ pipe' = [pipe EXCEPT ![p] = <<>>] /\ rset' = rset \ {p}
      /\ UNCHANGED <<mpc, failed, stop, pods, requests, lock, backlog, connects, deaths>>
  BY DEF RecvFrom, envVars
<1>3. pipe' \in [Proc -> Seq({Busy, Idle, Exit})]
  BY <1>2 DEF TypeOK
<1>4. isIdle[p] => idleCount >= 1
  <2> SUFFICES ASSUME isIdle[p] PROVE idleCount >= 1
    OBVIOUS
  <2>1. p \in IdleSet
    BY <1>1 DEF IdleSet
  <2>2. Cardinality(IdleSet) # 0
    BY <2>1, IdleSetCount, FS_EmptySet
  <2> QED BY <2>2, IdleSetCount DEF CountExact, IdleSet
<1>5. ASSUME NEW b \in BOOLEAN, SetIdle(p, b) PROVE TypeOK'
  <2>1. idleCount' \in Nat
    BY <1>4, <1>5 DEF SetIdle, TypeOK
  <2>2. isIdle' \in [Proc -> BOOLEAN]
    BY <1>5 DEF SetIdle, TypeOK
  <2> QED BY <1>1, <1>2, <1>3, <1>5, <2>1, <2>2 DEF SetIdle, TypeOK
<1>6. ASSUME RemoveEntry(p) PROVE TypeOK'
  <2>1. TakeItem(p)
    BY <1>6 DEF RemoveEntry
  <2>2. /\ procList' \in Seq(Proc) /\ IsInjective(procList')
        /\ ToSet(procList') = ToSet(procList) \ {p}
    BY <2>1, TakeList
  <2>3. idleCount' \in Nat
    BY <1>4, <1>6 DEF RemoveEntry, TypeOK
  <2>4. /\ wpc' = [wpc EXCEPT ![p] = IF wpc[p] = "gone" THEN "none" ELSE "closed"]
        /\ isIdle' = [isIdle EXCEPT ![p] = FALSE]
    BY <1>6 DEF RemoveEntry
  <2>5. /\ \A q \in Proc \ {p} : wpc'[q] = wpc[q]
        /\ wpc'[p] \in {"none", "closed"}
    BY <2>4 DEF TypeOK
  <2>7. ToSet(procList') = {q \in Proc : wpc'[q] \notin {"none", "closed"}}
    BY <1>1, <2>2, <2>5 DEF TypeOK
  <2>6. isIdle' \in [Proc -> BOOLEAN]
    BY <2>4 DEF TypeOK
  <2> QED BY <1>1, <1>2, <1>3, <2>2, <2>3, <2>4, <2>6, <2>7 DEF TypeOK
<1>8. CASE UNCHANGED <<procList, isIdle, idleCount, wpc>>
  BY <1>1, <1>2, <1>3, <1>8 DEF TypeOK
<1> QED BY <1>5, <1>6, <1>8 DEF RecvFrom

LEMMA TrimType ==
    ASSUME TypeOK, CountExact, Trim
    PROVE  TypeOK'
<1>1. /\ mpc = "recv" /\ mpc' = "fork"
      /\ UNCHANGED <<procList, rset, failed, stop, wpc, requests, lock, pipe, backlog,
                     connects, deaths>>
  BY DEF Trim, workerVars, envVars
<1>2. CASE idleCount > MaxIdleProc
  <2>1. /\ pods' = pods + 1 /\ isIdle' = [p \in Proc |-> isIdle[p] /\ p \notin FirstIdle]
        /\ idleCount' = idleCount - Cardinality(FirstIdle)
    BY <1>2 DEF Trim
  <2>2. isIdle' \in [Proc -> BOOLEAN] /\ pods' \in Nat
    BY <2>1 DEF TypeOK
  <2>3. FirstIdle \in SUBSET IdleSet
    BY ListType DEF FirstIdle, IdleSet, ToSet
  <2>4. Cardinality(FirstIdle) \in Nat /\ Cardinality(FirstIdle) <= Cardinality(IdleSet)
    BY <2>3, IdleSetCount, FS_Subset, FS_CardinalityType
  <2>5. idleCount' \in Nat
    BY <2>1, <2>4, IdleSetCount DEF CountExact, IdleSet, TypeOK
  <2> QED BY <1>1, <2>2, <2>5 DEF TypeOK
<1>3. CASE ~(idleCount > MaxIdleProc)
  BY <1>1, <1>3 DEF Trim, TypeOK
<1> QED BY <1>2, <1>3

LEMMA TypeStep == IInv /\ [Next]_vars => TypeOK'
<1> SUFFICES ASSUME IInv, [Next]_vars PROVE TypeOK'
  OBVIOUS
<1>0. TypeOK /\ PipeInv /\ CountExact
  BY DEF IInv
<1>1. ASSUME StartGet PROVE TypeOK'
  <2>1. mpc = "start" /\ UNCHANGED <<rset, stop, pods, pipe, lock, backlog, envVars>>
    BY <1>1 DEF StartGet
  <2>2. ASSUME NEW p \in Proc, Get(p), UNCHANGED mpc PROVE TypeOK'
    BY <1>0, <2>1, <2>2, GetType
  <2>3. ASSUME GetNull, mpc' = "select" PROVE TypeOK'
    BY <1>0, <2>1, <2>3, GetNullType
  <2> QED BY <1>1, <2>2, <2>3 DEF StartGet
<1>2. ASSUME StartEnd PROVE TypeOK'
  BY <1>0, <1>2 DEF StartEnd, TypeOK, workerVars, envVars
<1>3. ASSUME Select \/ SelectIntr PROVE TypeOK'
  BY <1>0, <1>3 DEF Select, SelectIntr, TypeOK, workerVars, envVars
<1>4. ASSUME Recv PROVE TypeOK'
  BY <1>0, <1>4, RecvType DEF Recv
<1>5. ASSUME Trim PROVE TypeOK'
  BY <1>0, <1>5, TrimType
<1>6. ASSUME Fork PROVE TypeOK'
  <2>1. /\ mpc = "fork" /\ mpc' \in {"start", "select", "done"}
        /\ UNCHANGED <<rset, stop, pods, pipe, lock, backlog, envVars>>
    BY <1>6 DEF Fork
  <2>2. ASSUME NEW p \in Proc, Get(p) PROVE TypeOK'
    BY <1>0, <2>1, <2>2, GetType
  <2>3. ASSUME GetNull PROVE TypeOK'
    BY <1>0, <2>1, <2>3, GetNullType
  <2>4. ASSUME UNCHANGED <<procList, isIdle, idleCount, failed, wpc, requests>>
        PROVE  TypeOK'
    BY <1>0, <2>1, <2>4 DEF TypeOK, envVars
  <2> QED BY <1>6, <2>2, <2>3, <2>4 DEF Fork
<1>7. ASSUME Shutdown PROVE TypeOK'
  <2>1. stop' \in BOOLEAN
    BY <1>7, Zenon DEF Shutdown
  <2> QED BY <1>0, <1>7, <2>1 DEF Shutdown, TypeOK, masterVars, workerVars, envVars
<1>8. ASSUME NEW p \in Proc, WorkerStep(p) \/ AcceptIntr(p) \/ Die(p) PROVE TypeOK'
  BY <1>0, <1>8, WorkerType
<1>9. ASSUME Connect PROVE TypeOK'
  BY <1>0, <1>9, LFAssumption DEF Connect, TypeOK, masterVars, workerVars
<1>10. CASE UNCHANGED vars
  BY <1>0, <1>10 DEF TypeOK, vars, masterVars, workerVars, envVars
<1> QED
  BY <1>1, <1>2, <1>3, <1>4, <1>5, <1>6, <1>7, <1>8, <1>9, <1>10 DEF Next, MasterStep

-----------------------------------------------------------------------------
(* What the pipes of the workers hold.                                     *)

LEMMA WorkerPipe ==
    ASSUME TypeOK, PipeInv, NEW p \in Proc, WorkerStep(p) \/ AcceptIntr(p) \/ Die(p)
    PROVE  PipeInv'
<1> USE DEF TypeOK, PipeInv, masterVars
<1>0. UNCHANGED mpc
  BY DEF WorkerStep, Lock, Leave, End, Accept, AcceptFail, AcceptIntr, SayBusy, SayIdle, TakePod, Killed, Die
<1>1. ASSUME NEW from, NEW to, Goes(p, from, to), from \notin {"none", "closed"},
             to \notin {"none", "closed", "handle"},
             from \in {"leave", "gone"} => to \in {"leave", "gone"}, UNCHANGED pipe
      PROVE  PipeInv'
  <2>1. CASE mpc = "done"
    BY <1>0, <2>1
  <2>2. CASE mpc # "done"
    <3>1. \A q \in Proc : wpc'[q] = IF q = p THEN to ELSE wpc[q]
      BY <1>1 DEF Goes
    <3> QED BY <1>0, <1>1, <2>2, <3>1 DEF Goes
  <2> QED BY <2>1, <2>2
<1>2. ASSUME NEW from, NEW to, NEW b \in {Busy, Idle, Exit}, Goes(p, from, to),
             to \notin {"none", "closed"}, b = Exit => to = "leave", to = "handle" => b = Busy, Says(p, b)
      PROVE  PipeInv'
  <2>1. \A q \in Proc : /\ wpc'[q] = IF q = p THEN to ELSE wpc[q]
                        /\ pipe'[q] = IF q = p THEN Append(pipe[q], b) ELSE pipe[q]
    BY <1>2 DEF Goes, Says
  <2>2. Append(pipe[p], b) # <<>> /\ Last(Append(pipe[p], b)) = b
    <3>1. pipe[p] \in Seq({Busy, Idle, Exit})
      OBVIOUS
    <3> HIDE DEF TypeOK, PipeInv, masterVars
    <3>2. Append(pipe[p], b) # <<>> /\ Last(Append(pipe[p], b)) = b
      BY <1>2, <3>1, LastAppended
    <3> QED BY <3>2
  <2>3. CASE mpc = "done"
    BY <1>0, <2>3
  <2>4. CASE mpc # "done"
    <3>1. pipe'[p] # <<>> /\ Last(pipe'[p]) = b /\ wpc'[p] = to
      BY <2>1, <2>2
    <3>2. \A q \in Proc \ {p} : pipe'[q] = pipe[q] /\ wpc'[q] = wpc[q]
      BY <2>1
    <3> QED BY <1>0, <1>2, <2>4, <3>1, <3>2
  <2> QED BY <2>3, <2>4
<1>3. CASE Lock(p) \/ Leave(p) \/ Accept(p) \/ AcceptIntr(p)
  BY <1>1, <1>3 DEF Lock, Leave, Accept, AcceptIntr
<1>a. CASE End(p)
  <2>1. CASE Goes(p, "leave", "gone")
    BY <1>1, <1>a, <2>1 DEF End
  <2>2. CASE Goes(p, "closed", "none")
    BY <1>0, <1>a, <2>2 DEF End, Goes
  <2> QED BY <1>a, <2>1, <2>2 DEF End
<1>4. CASE AcceptFail(p)
  <2>1. \/ Goes(p, "accept", "served") /\ UNCHANGED pipe
        \/ Goes(p, "accept", "leave") /\ Says(p, Exit)
    BY <1>4 DEF AcceptFail
  <2> QED BY <1>1, <1>2, <2>1
<1>5. CASE SayBusy(p)
  BY <1>2, <1>5 DEF SayBusy, Busy, Exit
<1>6. CASE SayIdle(p)
  BY <1>2, <1>6 DEF SayIdle, Idle, Exit
<1>7. CASE TakePod(p)
  <2>1. \/ Goes(p, "served", "leave") /\ Says(p, Exit)
        \/ Goes(p, "served", "top") /\ UNCHANGED pipe
    BY <1>7 DEF TakePod
  <2> QED BY <1>1, <1>2, <2>1
<1>8. CASE Killed(p)
  BY <1>0, <1>8 DEF Killed
<1>9. CASE Die(p)
  BY <1>0, <1>9 DEF Die
<1> QED
  BY <1>3, <1>4, <1>5, <1>6, <1>7, <1>8, <1>9, <1>a DEF WorkerStep

LEMMA PipeStep == IInv /\ [Next]_vars => PipeInv'
<1> SUFFICES ASSUME IInv, [Next]_vars PROVE PipeInv'
  OBVIOUS
<1>0. TypeOK /\ PipeInv
  BY DEF IInv
<1>1. ASSUME NEW p \in Proc, Get(p), mpc # "done", UNCHANGED pipe PROVE PipeInv'
  BY <1>0, <1>1 DEF Get, TypeOK, PipeInv
<1>2. CASE StartGet
  <2>1. mpc # "done" /\ UNCHANGED pipe
    BY <1>2 DEF StartGet
  <2>2. CASE GetNull
    BY <1>0, <2>1, <2>2 DEF GetNull, PipeInv
  <2> QED BY <1>1, <1>2, <2>1, <2>2 DEF StartGet
<1>3. CASE Fork
  <2>1. mpc # "done" /\ UNCHANGED pipe
    BY <1>3 DEF Fork
  <2>2. CASE UNCHANGED wpc
    BY <1>0, <2>1, <2>2 DEF PipeInv
  <2> QED BY <1>1, <1>3, <2>1, <2>2 DEF Fork, GetNull
<1>4. CASE StartEnd \/ Select \/ SelectIntr \/ Trim \/ Shutdown \/ Connect
  <2>1. UNCHANGED <<wpc, pipe>> /\ (mpc = "done" => mpc' = "done")
    BY <1>4 DEF StartEnd, Select, SelectIntr, Trim, Shutdown, Connect, workerVars, masterVars
  <2> QED BY <1>0, <2>1 DEF PipeInv
<1>5. ASSUME NEW p \in Proc, RecvFrom(p) PROVE PipeInv'
  <2>1. mpc = "recv" /\ pipe' = [pipe EXCEPT ![p] = <<>>]
    BY <1>5 DEF RecvFrom
  <2>2. \A q \in Proc \ {p} : wpc'[q] = wpc[q]
    BY <1>0, <1>5 DEF RecvFrom, SetIdle, RemoveEntry, TypeOK
  <2> QED BY <1>0, <2>1, <2>2 DEF PipeInv, TypeOK
<1>6. ASSUME NEW p \in Proc, WorkerStep(p) \/ AcceptIntr(p) \/ Die(p) PROVE PipeInv'
  BY <1>0, <1>6, WorkerPipe
<1>7. CASE UNCHANGED vars
  BY <1>0, <1>7 DEF PipeInv, vars, masterVars, workerVars
<1> QED BY <1>2, <1>3, <1>4, <1>5, <1>6, <1>7 DEF Next, MasterStep, Recv

-----------------------------------------------------------------------------
(* The count of the idle entries.                                          *)

LEMMA CountStep == IInv /\ [Next]_vars => CountExact'
<1> SUFFICES ASSUME IInv, [Next]_vars PROVE CountExact'
  OBVIOUS
<1>0. TypeOK /\ PipeInv /\ idleCount = Cardinality(IdleSet) /\ IsFiniteSet(IdleSet)
  BY IdleSetCount DEF IInv, CountExact, IdleSet
<1> SUFFICES idleCount' = Cardinality(IdleSet')
  BY DEF CountExact, IdleSet
<1>1. ASSUME NEW p \in Proc, Get(p), mpc # "done" PROVE idleCount' = Cardinality(IdleSet')
  <2>1. p \notin ToSet(procList) /\ ToSet(procList') = ToSet(procList) \cup {p}
    BY <1>0, <1>1, GetList
  <2>2. isIdle' = [isIdle EXCEPT ![p] = TRUE] /\ idleCount' = idleCount + 1
    BY <1>1 DEF Get
  <2>3. IdleSet' = IdleSet \cup {p} /\ p \notin IdleSet
    BY <1>0, <2>1, <2>2 DEF IdleSet, TypeOK
  <2> QED BY <1>0, <2>2, <2>3, FS_AddElement
<1>2. ASSUME UNCHANGED <<procList, isIdle, idleCount>>
      PROVE  idleCount' = Cardinality(IdleSet')
  BY <1>0, <1>2 DEF IdleSet
<1>3. CASE StartGet
  BY <1>1, <1>2, <1>3 DEF StartGet, GetNull
<1>4. CASE Fork
  BY <1>1, <1>2, <1>4 DEF Fork, GetNull
<1>5. CASE StartEnd \/ Select \/ SelectIntr \/ Shutdown \/ Connect
  BY <1>2, <1>5 DEF StartEnd, Select, SelectIntr, Shutdown, Connect, masterVars
<1>6. ASSUME NEW p \in Proc, RecvFrom(p) PROVE idleCount' = Cardinality(IdleSet')
  <2>1. p \in ToSet(procList)
    BY <1>0, <1>6, LatestListed DEF RecvFrom
  <2>2. ASSUME NEW b \in BOOLEAN, SetIdle(p, b) PROVE idleCount' = Cardinality(IdleSet')
    <3>1. procList' = procList /\ isIdle' = [isIdle EXCEPT ![p] = b]
      BY <2>2 DEF SetIdle
    <3>2. IdleSet' = IF b THEN IdleSet \cup {p} ELSE IdleSet \ {p}
      BY <1>0, <2>1, <3>1 DEF IdleSet, TypeOK
    <3>3. p \in IdleSet <=> isIdle[p]
      BY <2>1 DEF IdleSet
    <3>4. isIdle[p] \in BOOLEAN
      BY <1>0 DEF TypeOK
    <3>5. CASE b
      <4>1. idleCount' = IF isIdle[p] THEN idleCount ELSE idleCount + 1
        BY <2>2, <3>4, <3>5 DEF SetIdle
      <4> QED BY <1>0, <3>2, <3>3, <3>5, <4>1, FS_AddElement
    <3>6. CASE ~b
      <4>1. idleCount' = IF isIdle[p] THEN idleCount - 1 ELSE idleCount
        BY <2>2, <3>4, <3>6 DEF SetIdle
      <4> QED BY <1>0, <3>2, <3>3, <3>6, <4>1, FS_RemoveElement
    <3> QED BY <3>5, <3>6
  <2>3. ASSUME RemoveEntry(p) PROVE idleCount' = Cardinality(IdleSet')
    <3>1. ToSet(procList') = ToSet(procList) \ {p}
      BY <1>0, <2>3, TakeList DEF RemoveEntry
    <3>2. /\ isIdle' = [isIdle EXCEPT ![p] = FALSE]
          /\ idleCount' = IF isIdle[p] THEN idleCount - 1 ELSE idleCount
      BY <2>3 DEF RemoveEntry
    <3>3. IdleSet' = IdleSet \ {p} /\ (p \in IdleSet <=> isIdle[p])
      BY <1>0, <2>1, <3>1, <3>2 DEF IdleSet, TypeOK
    <3> QED BY <1>0, <3>2, <3>3, FS_RemoveElement
  <2> QED BY <1>2, <1>6, <2>2, <2>3 DEF RecvFrom
<1>7. CASE Trim
  <2>1. CASE idleCount > MaxIdleProc
    <3>1. /\ isIdle' = [p \in Proc |-> isIdle[p] /\ p \notin FirstIdle]
          /\ idleCount' = idleCount - Cardinality(FirstIdle) /\ procList' = procList
      BY <1>7, <2>1 DEF Trim
    <3>2. IdleSet' = IdleSet \ FirstIdle
      BY <1>0, <3>1, ListType DEF IdleSet
    <3>3. FirstIdle \subseteq IdleSet
      BY <1>0, ListType DEF FirstIdle, IdleSet, ToSet
    <3>4. IsFiniteSet(FirstIdle) /\ IdleSet \cap FirstIdle = FirstIdle
      BY <1>0, <3>3, FS_Subset
    <3> QED BY <1>0, <3>1, <3>2, <3>4, FS_Difference
  <2>2. CASE ~(idleCount > MaxIdleProc)
    BY <1>2, <1>7, <2>2 DEF Trim
  <2> QED BY <2>1, <2>2
<1>8. ASSUME NEW p \in Proc, WorkerStep(p) \/ AcceptIntr(p) \/ Die(p)
      PROVE  idleCount' = Cardinality(IdleSet')
  BY <1>2, <1>8 DEF WorkerStep, Lock, Leave, End, Accept, AcceptFail, AcceptIntr, SayBusy, SayIdle, TakePod,
                    Killed, Die, masterVars
<1>9. CASE UNCHANGED vars
  BY <1>2, <1>9 DEF vars, masterVars
<1> QED
  BY <1>3, <1>4, <1>5, <1>6, <1>7, <1>8, <1>9 DEF Next, MasterStep, Recv

-----------------------------------------------------------------------------
(* The number of workers, and what the master believes of them.            *)

LEMMA RangeStep == IInv /\ [Next]_vars => Limits'
<1> SUFFICES ASSUME IInv, [Next]_vars PROVE Limits'
  OBVIOUS
<1>0. TypeOK /\ Limits /\ idleCount = Cardinality(IdleSet) /\ Len(procList) \in Nat
  BY ListType DEF IInv, CountExact, IdleSet
<1>a. procList = <<>> => Len(procList) = 0 /\ idleCount = 0
  <2> SUFFICES ASSUME procList = <<>> PROVE Len(procList) = 0 /\ idleCount = 0
    OBVIOUS
  <2>1. ToSet(procList) = {} /\ Len(procList) = 0
    BY EmptyList
  <2>2. IdleSet = {}
    BY <2>1 DEF IdleSet
  <2> QED BY <1>0, <2>1, <2>2, FS_EmptySet
<1> USE ArgsSane DEF Limits, ProcLimit, NeverAlone
<1>1. ASSUME NEW p \in Proc, Get(p), mpc # "done", Len(procList) < ProcBound
      PROVE  Limits'
  <2>1. Len(procList') = Len(procList) + 1 /\ procList' # <<>>
    BY <1>0, <1>1, GetList
  <2> QED BY <1>0, <1>1, <2>1
<1>2. CASE StartGet
  <2>1. mpc = "start" /\ Len(procList) < MinIdleProc
    BY <1>2 DEF StartGet
  <2>2. CASE GetNull
    BY <1>0, <2>2 DEF GetNull
  <2> QED BY <1>0, <1>1, <1>2, <2>1, <2>2 DEF StartGet
<1>3. CASE StartEnd
  BY <1>0, <1>a, <1>3 DEF StartEnd
<1>4. CASE Fork
  <2>1. mpc = "fork"
    BY <1>4 DEF Fork
  <2>2. CASE Short
    <3>1. CASE GetNull
      BY <1>0, <3>1 DEF GetNull
    <3> QED BY <1>0, <1>1, <1>4, <2>1, <2>2, <3>1 DEF Fork, Short
  <2>3. CASE ~Short
    <3>1. procList # <<>>
      BY <1>a, <2>3 DEF Short
    <3> QED BY <1>0, <1>4, <2>3, <3>1 DEF Fork
  <2> QED BY <2>2, <2>3
<1>5. CASE Select \/ SelectIntr \/ Trim
  BY <1>0, <1>5 DEF Select, SelectIntr, Trim
<1>6. ASSUME NEW p \in Proc, RecvFrom(p) PROVE Limits'
  <2>1. mpc' = "recv"
    BY <1>6 DEF RecvFrom
  <2>2. CASE UNCHANGED procList
    BY <1>0, <2>1, <2>2
  <2>3. CASE RemoveEntry(p)
    <3>1. Len(procList') = Len(procList) - 1
      BY <1>0, <2>3, TakeList DEF RemoveEntry
    <3> QED BY <1>0, <2>1, <3>1
  <2> QED BY <1>6, <2>2, <2>3 DEF RecvFrom, SetIdle
<1>7. CASE Shutdown \/ Connect
  BY <1>0, <1>7 DEF Shutdown, Connect, masterVars
<1>8. ASSUME NEW p \in Proc, WorkerStep(p) \/ AcceptIntr(p) \/ Die(p) PROVE Limits'
  BY <1>0, <1>8 DEF WorkerStep, Lock, Leave, End, Accept, AcceptFail, AcceptIntr, SayBusy, SayIdle, TakePod,
                    Killed, Die, masterVars
<1>9. CASE UNCHANGED vars
  BY <1>0, <1>9 DEF vars, masterVars
<1> QED
  BY <1>2, <1>3, <1>4, <1>5, <1>6, <1>7, <1>8, <1>9 DEF Next, MasterStep, Recv

LEMMA LockStep == IInv /\ [Next]_vars => LockInv'
<1> SUFFICES ASSUME IInv, [Next]_vars PROVE LockInv'
  OBVIOUS
<1>0. /\ wpc \in [Proc -> {"none", "top", "accept", "accepted", "handle", "served", "leave",
                     "gone", "closed"}]
      /\ lock \in Proc \cup {NoProc} /\ NoProc \notin Proc
      /\ deaths \in Nat
      /\ LockInv
  BY LFAssumption DEF IInv, TypeOK
\* A process that is not in accept() goes somewhere.
<1>a. ASSUME NEW p \in Proc, wpc[p] # "accept", NEW to, wpc' = [wpc EXCEPT ![p] = to],
             UNCHANGED <<lock, deaths>>, mpc = "done" => mpc' = "done"
      PROVE  LockInv'
  <2>1. lock # NoProc => lock \in Proc /\ (wpc[lock] = "accept" => wpc'[lock] = "accept")
    BY <1>0, <1>a
  <2> QED BY <1>0, <1>a, <2>1 DEF LockInv
<1>b. ASSUME UNCHANGED <<wpc, lock, deaths>>, mpc = "done" => mpc' = "done" PROVE LockInv'
  BY <1>0, <1>b DEF LockInv
<1>1. ASSUME NEW p \in Proc, Get(p), UNCHANGED <<lock, deaths>>, mpc = "done" => mpc' = "done"
      PROVE  LockInv'
  <2>1. wpc[p] = "none" /\ wpc' = [wpc EXCEPT ![p] = "top"]
    BY <1>1 DEF Get
  <2> QED BY <1>1, <1>a, <2>1
<1>2. CASE StartGet
  BY <1>1, <1>2, <1>b DEF StartGet, GetNull, envVars
<1>3. CASE Fork
  BY <1>1, <1>3, <1>b DEF Fork, GetNull, envVars
<1>4. CASE StartEnd \/ Select \/ SelectIntr \/ Trim \/ Shutdown \/ Connect \/ UNCHANGED vars
  BY <1>4, <1>b DEF StartEnd, Select, SelectIntr, Trim, Shutdown, Connect, workerVars, masterVars,
                    envVars, vars
<1>5. ASSUME NEW p \in Proc, RecvFrom(p) PROVE LockInv'
  <2>1. mpc = "recv" /\ mpc' = "recv" /\ UNCHANGED <<lock, deaths>>
    BY <1>5 DEF RecvFrom, envVars
  <2>2. CASE UNCHANGED wpc
    BY <1>b, <2>1, <2>2
  <2>3. CASE RemoveEntry(p) /\ wpc[p] \in {"leave", "gone"}
    <3>1. PICK to : wpc' = [wpc EXCEPT ![p] = to]
      BY <2>3 DEF RemoveEntry
    <3> QED BY <1>a, <2>1, <2>3, <3>1
  <2>4. pipe[p] # <<>> /\ Told(p) = Exit => wpc[p] \in {"leave", "gone"}
    BY <2>1 DEF IInv, PipeInv, Told
  <2> QED BY <1>5, <2>2, <2>3, <2>4 DEF RecvFrom, SetIdle
<1>6. ASSUME NEW p \in Proc, WorkerStep(p) \/ AcceptIntr(p) \/ Die(p) PROVE LockInv'
  <2>1. UNCHANGED mpc
    BY <1>6 DEF WorkerStep, Lock, Leave, End, Accept, AcceptFail, AcceptIntr, SayBusy, SayIdle, TakePod, Killed,
                Die, masterVars
  <2>2. CASE Lock(p)
    <3>1. /\ wpc[p] = "top" /\ wpc' = [wpc EXCEPT ![p] = "accept"] /\ UNCHANGED deaths
          /\ IF LockKind = "none" THEN lock' = lock ELSE lock' = p
      BY <2>2 DEF Lock, Goes, TakeLock, envVars
    <3> QED BY <1>0, <1>a, <2>1, <3>1 DEF LockInv
  <2>3. CASE Accept(p) \/ AcceptFail(p) \/ AcceptIntr(p)
    BY <2>3 DEF Accept, AcceptFail, AcceptIntr, Unlock, LockInv
  <2>4. CASE Leave(p) \/ End(p) \/ SayBusy(p) \/ SayIdle(p) \/ TakePod(p)
    BY <1>a, <2>1, <2>4 DEF Leave, End, SayBusy, SayIdle, TakePod, Goes, envVars
  <2>5. CASE Killed(p)
    BY <1>0, <2>1, <2>5 DEF Killed, LockInv
  <2>6. CASE Die(p)
    <3>1. /\ lock' = IF LockKind = "file" /\ lock = p THEN NoProc ELSE lock
          /\ wpc' = [wpc EXCEPT ![p] = "gone"] /\ deaths' = deaths + 1
      BY <2>6 DEF Die
    <3>2. CASE lock = p
      <4>1. LockKind = "file" => lock' = NoProc
        BY <3>1, <3>2
      <4>2. LockKind = "thread" => deaths' # 0
        BY <1>0, <3>1
      <4>3. LockKind # "none"
        BY <1>0, <3>2 DEF LockInv
      <4> QED BY <4>1, <4>2, <4>3, LFAssumption DEF LockInv
    <3>3. CASE lock # p
      <4>1. lock' = lock /\ (lock # NoProc => wpc'[lock] = wpc[lock])
        BY <1>0, <3>1, <3>3
      <4>2. LockKind = "thread" => deaths' # 0
        BY <1>0, <3>1
      <4> QED BY <1>0, <2>1, <4>1, <4>2 DEF LockInv
    <3> QED BY <3>2, <3>3
  <2> QED BY <1>6, <2>2, <2>3, <2>4, <2>5, <2>6 DEF WorkerStep
<1> QED BY <1>2, <1>3, <1>4, <1>5, <1>6 DEF Next, MasterStep, Recv

\* A worker that waits for the lock waits for one that is in accept().
LEMMA StuckNever == IInv => NeverStuck
<1> SUFFICES ASSUME IInv, mpc = "select", LockKind = "thread" => deaths = 0, procList # <<>>
             PROVE  \E p \in ToSet(procList) : Ready(p) \/ Able(p)
  BY DEF NeverStuck
<1>1. PICK p \in ToSet(procList) : TRUE
  <2>1. Len(procList) \in Nat \ {0} /\ DOMAIN procList = 1..Len(procList)
    BY EmptySeq, ListType DEF IInv, TypeOK
  <2>2. procList[1] \in ToSet(procList)
    BY <2>1 DEF ToSet
  <2> QED BY <2>2
<1>2. CASE lock = NoProc
  BY <1>1, <1>2 DEF Ready, Able
<1>3. CASE lock # NoProc
  <2>1. wpc[lock] = "accept" /\ lock \in Proc
    BY <1>3 DEF IInv, LockInv, TypeOK
  <2>2. lock \in ToSet(procList)
    BY <2>1 DEF IInv, TypeOK
  <2> QED BY <2>1, <2>2 DEF Able
<1> QED BY <1>2, <1>3

LEMMA HonestStep == IInv /\ [Next]_vars => IdleHonest'
<1> SUFFICES ASSUME IInv, [Next]_vars PROVE IdleHonest'
  OBVIOUS
<1>0. TypeOK /\ PipeInv /\ IdleHonest /\ ToSet(procList) \subseteq Proc
  BY ListType DEF IInv
<1>1. ASSUME NEW p \in Proc, Get(p), mpc # "done", UNCHANGED pipe PROVE IdleHonest'
  <2>1. ToSet(procList') = ToSet(procList) \cup {p}
    BY <1>0, <1>1, GetList
  <2>2. wpc' = [wpc EXCEPT ![p] = "top"] /\ isIdle' = [isIdle EXCEPT ![p] = TRUE]
    BY <1>1 DEF Get
  <2> QED BY <1>0, <1>1, <2>1, <2>2 DEF IdleHonest, TypeOK
<1>2. ASSUME UNCHANGED <<procList, isIdle, wpc, pipe>>, mpc = "done" => mpc' = "done"
      PROVE  IdleHonest'
  BY <1>0, <1>2 DEF IdleHonest
<1>3. CASE StartGet
  BY <1>1, <1>2, <1>3 DEF StartGet, GetNull
<1>4. CASE Fork
  BY <1>1, <1>2, <1>4 DEF Fork, GetNull
<1>5. CASE StartEnd \/ Select \/ SelectIntr \/ Shutdown \/ Connect
  BY <1>2, <1>5 DEF StartEnd, Select, SelectIntr, Shutdown, Connect, masterVars, workerVars
<1>6. ASSUME NEW p \in Proc, RecvFrom(p) PROVE IdleHonest'
  <2>1. p \in ToSet(procList) /\ mpc = "recv" /\ mpc' = "recv"
    BY <1>0, <1>6, LatestListed DEF RecvFrom
  <2>2. pipe' = [pipe EXCEPT ![p] = <<>>]
    BY <1>6 DEF RecvFrom
  <2>3. CASE pipe[p] # <<>> /\ Told(p) = Idle /\ SetIdle(p, TRUE)
    <3>1. wpc[p] # "handle"
      BY <1>0, <2>1, <2>3 DEF PipeInv, Told, Idle, Busy
    <3>2. UNCHANGED <<procList, wpc>> /\ isIdle' = [isIdle EXCEPT ![p] = TRUE]
      BY <2>3 DEF SetIdle
    <3> QED BY <1>0, <2>1, <2>2, <3>1, <3>2 DEF IdleHonest, TypeOK
  <2>4. CASE pipe[p] # <<>> /\ Told(p) = Busy /\ SetIdle(p, FALSE)
    BY <1>0, <2>1, <2>2, <2>4 DEF SetIdle, IdleHonest, TypeOK
  <2>5. CASE RemoveEntry(p)
    <3>1. ToSet(procList') = ToSet(procList) \ {p}
      BY <1>0, <2>5, TakeList DEF RemoveEntry
    <3>2. \A q \in Proc \ {p} : wpc'[q] = wpc[q] /\ isIdle'[q] = isIdle[q]
      BY <1>0, <2>5 DEF RemoveEntry, TypeOK
    <3> QED BY <1>0, <2>1, <2>2, <3>1, <3>2 DEF IdleHonest, TypeOK
  <2>6. CASE pipe[p] = <<>> /\ UNCHANGED <<procList, isIdle, idleCount, wpc>>
    BY <1>0, <2>1, <2>2, <2>6 DEF IdleHonest, TypeOK
  <2> QED BY <1>6, <2>3, <2>4, <2>5, <2>6 DEF RecvFrom
<1>7. CASE Trim
  <2>1. mpc # "done" /\ UNCHANGED <<procList, wpc, pipe>>
    BY <1>7 DEF Trim, workerVars
  <2>2. \A q \in Proc : isIdle'[q] => isIdle[q]
    BY <1>7 DEF Trim
  <2> QED BY <1>0, <2>1, <2>2 DEF IdleHonest
<1>8. ASSUME NEW p \in Proc, WorkerStep(p) \/ AcceptIntr(p) \/ Die(p) PROVE IdleHonest'
  <2>1. UNCHANGED <<mpc, procList, isIdle>>
    BY <1>8 DEF WorkerStep, Lock, Leave, End, Accept, AcceptFail, AcceptIntr, SayBusy, SayIdle, TakePod,
                Killed, Die, masterVars
  <2>2. CASE mpc = "done"
    BY <2>1, <2>2 DEF IdleHonest
  <2>3. CASE mpc # "done"
    <3>1. ASSUME NEW to, wpc' = [wpc EXCEPT ![p] = to], to # "handle",
                 \A q \in Proc \ {p} : pipe'[q] = pipe[q]
          PROVE  IdleHonest'
      BY <1>0, <2>1, <3>1 DEF IdleHonest, TypeOK
    <3>2. CASE SayBusy(p)
      <4>1. /\ wpc' = [wpc EXCEPT ![p] = "handle"]
            /\ pipe' = [pipe EXCEPT ![p] = Append(pipe[p], Busy)]
        BY <3>2 DEF SayBusy, Goes, Says
      <4>2. pipe'[p] # <<>>
        <5>1. pipe[p] \in Seq({Busy, Idle, Exit})
          BY <1>0 DEF TypeOK
        <5>2. Append(pipe[p], Busy) # <<>>
          BY <5>1
        <5> QED BY <1>0, <4>1, <5>2 DEF TypeOK
      <4>3. \A q \in Proc \ {p} : pipe'[q] = pipe[q] /\ wpc'[q] = wpc[q]
        BY <1>0, <4>1 DEF TypeOK
      <4> QED BY <1>0, <2>1, <4>2, <4>3 DEF IdleHonest
    <3>3. CASE Killed(p)
      BY <2>3, <3>3 DEF Killed
    <3>4. CASE Lock(p) \/ Leave(p) \/ End(p) \/ Accept(p) \/ AcceptIntr(p) \/ Die(p)
      BY <3>1, <3>4 DEF Lock, Leave, End, Accept, AcceptIntr, Die, Goes
    <3>5. CASE SayIdle(p) \/ AcceptFail(p) \/ TakePod(p)
      <4>1. \/ wpc' = [wpc EXCEPT ![p] = "served"]
            \/ wpc' = [wpc EXCEPT ![p] = "leave"]
            \/ wpc' = [wpc EXCEPT ![p] = "top"]
        BY <3>5 DEF SayIdle, AcceptFail, TakePod, Goes
      <4>2. \A q \in Proc \ {p} : pipe'[q] = pipe[q]
        BY <1>0, <3>5 DEF SayIdle, AcceptFail, TakePod, Says, TypeOK
      <4> QED BY <3>1, <4>1, <4>2
    <3> QED BY <1>8, <3>2, <3>3, <3>4, <3>5 DEF WorkerStep
  <2> QED BY <2>2, <2>3
<1>9. CASE UNCHANGED vars
  BY <1>2, <1>9 DEF vars, masterVars, workerVars
<1> QED
  BY <1>3, <1>4, <1>5, <1>6, <1>7, <1>8, <1>9 DEF Next, MasterStep, Recv

-----------------------------------------------------------------------------
(* The theorems.                                                           *)

LEMMA InitInv == Init => IInv
<1> SUFFICES ASSUME Init PROVE IInv
  OBVIOUS
<1>1. TypeOK
  BY TypeInit
<1>2. ToSet(procList) = {} /\ Len(procList) = 0
  BY EmptyList DEF Init
<1>3. CountExact
  <2>1. {p \in ToSet(procList) : isIdle[p]} = {}
    BY <1>2
  <2> QED BY <2>1, FS_EmptySet DEF CountExact, Init
<1>4. PipeInv /\ IdleHonest
  BY <1>2 DEF Init, PipeInv, IdleHonest
<1>5. Limits /\ LockInv
  BY <1>2, ArgsSane DEF Init, Limits, ProcLimit, NeverAlone, LockInv
<1> QED BY <1>1, <1>3, <1>4, <1>5 DEF IInv

\* The inductive invariant holds in every state of the server.
THEOREM Invariance == Spec => []IInv
<1>1. IInv /\ [Next]_vars => IInv'
  <2> SUFFICES ASSUME IInv, [Next]_vars PROVE IInv'
    OBVIOUS
  <2>1. TypeOK' /\ PipeInv' /\ CountExact' /\ Limits' /\ LockInv' /\ IdleHonest'
    BY TypeStep, PipeStep, CountStep, RangeStep, LockStep, HonestStep
  <2> QED BY <2>1 DEF IInv
<1> QED BY InitInv, <1>1, PTL DEF Spec

\* The variables of the server keep their types: a worker is an entry of the
\* list from get() on until the master has read its exit byte or the end of its
\* pipe, and none is an entry twice.
THEOREM TypeCorrect == Spec => []TypeOK
<1>1. IInv => TypeOK
  BY DEF IInv
<1> QED BY Invariance, <1>1, PTL

\* idleCount is the number of the entries marked idle, through every path of
\* start() that changes one of the two.
THEOREM CountSafety == Spec => []CountExact
<1>1. IInv => CountExact
  BY DEF IInv
<1> QED BY Invariance, <1>1, PTL

\* Never more workers than mMaxProc or those of the start, never none when the
\* master waits in select(), except after a get() that failed, and while clients
\* wait somebody can go on, except for the mutex of a worker that died.
THEOREM RangeSafety == Spec => []Workforce
<1>1. IInv => Workforce
  BY StuckNever DEF IInv, Limits, Workforce
<1> QED BY Invariance, <1>1, PTL

\* A worker in handle() is never taken for an idle one once its pipe is read.
THEOREM HonestSafety == Spec => []IdleHonest
<1>1. IInv => IdleHonest
  BY DEF IInv
<1> QED BY Invariance, <1>1, PTL

=============================================================================
