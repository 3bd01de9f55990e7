--------------------------- MODULE MTServerProofs ----------------------------
(***************************************************************************)
(* Proofs of the safety properties of MTServer, for every set of workers,  *)
(* every setting of the server and every number of threads.                *)
(***************************************************************************)
EXTENDS MTServer, ListLemmas, FiniteSetTheorems, TLAPS

-----------------------------------------------------------------------------
(* The inductive invariant.                                                *)

DataType ==
    /\ isIdle \in [Proc -> BOOLEAN]
    /\ pipe \in [Proc -> Seq({LF!Busy, LF!Idle, LF!Exit})]

\* There are never more idle threads than threads, and a process that has ended
\* has none at work and none in the callback.
CrewInv ==
    \A p \in Proc :
       /\ crew[p].idle <= crew[p].total
       /\ wpc[p] \in {"none", "gone", "aborted"} => Given(p) = 0 /\ p \notin calling

\* A name that is free, and a worker whose pipe was closed, have an empty pipe.
PipeInv ==
    mpc # "done" =>
       \A p \in Proc : wpc[p] \in {"none", "closed", "aborted"} => pipe[p] = <<>>

\* What makes IdleHeard inductive: the last byte of a worker without a
\* connection says that it is idle, as long as nobody has read it, unless its last
\* thread has still to write that byte.
Heard ==
    mpc # "done" =>
       \A p \in ToSet(procList) \ (unsaid \cup calling) :
          AtWork(p) /\ Given(p) = 0 =>
             IF pipe[p] = <<>> THEN isIdle[p] ELSE Last(pipe[p]) = LF!Idle

IInv == TypeOK /\ DataType /\ CrewInv /\ PipeInv /\ RoomToServe /\ Heard

IdleSet == {p \in ToSet(procList) : isIdle[p]}

CrewType ==
    [idle : 0..ThreadsPerProc, total : 0..ThreadsPerProc, told : BOOLEAN]

PipeByte == {LF!Busy, LF!Idle, LF!Exit}

-----------------------------------------------------------------------------
(* The thread pool of a worker.                                            *)

LEMMA ThreadsSane == ThreadsPerProc \in Nat /\ ThreadsPerProc >= 1
BY MTAssumption DEF ThreadsPerProc

LEMMA EmptyCrew ==
    NoThread \in CrewType /\ NoThread.idle = 0 /\ NoThread.total = 0
BY ThreadsSane DEF NoThread, CrewType, Jobs!Empty

LEMMA TakenCrew ==
    ASSUME NEW c \in CrewType, Jobs(c)!Room, c.idle <= c.total
    PROVE  /\ Jobs(c)!Taken \in CrewType
           /\ Jobs(c)!Taken.idle <= Jobs(c)!Taken.total
           /\ Jobs(c)!Taken.total - Jobs(c)!Taken.idle > 0
<1>1. CASE c.idle > 0
  <2>1. Jobs(c)!Taken = [idle |-> c.idle - 1, total |-> c.total, told |-> FALSE]
    BY <1>1 DEF Jobs!Taken
  <2>2. c.idle - 1 \in 0..ThreadsPerProc
    BY <1>1, ThreadsSane DEF CrewType
  <2> QED BY <1>1, <2>1, <2>2, ThreadsSane DEF CrewType
<1>2. CASE ~(c.idle > 0)
  <2>1. Jobs(c)!Taken = [idle |-> c.idle, total |-> c.total + 1, told |-> FALSE]
    BY <1>2 DEF Jobs!Taken
  <2>2. c.total + 1 \in 0..ThreadsPerProc /\ c.idle = 0
    BY <1>2, ThreadsSane DEF CrewType, Jobs!Room
  <2> QED BY <1>2, <2>1, <2>2, ThreadsSane DEF CrewType
<1> QED BY <1>1, <1>2

LEMMA RestedCrew ==
    ASSUME NEW c \in CrewType, c.total - c.idle > 0
    PROVE  /\ Jobs(c)!Rested \in CrewType
           /\ Jobs(c)!Rested.idle = c.idle + 1 /\ Jobs(c)!Rested.total = c.total
           /\ Jobs(c)!Rested.idle <= Jobs(c)!Rested.total
           /\ c.idle + 1 >= c.total => Jobs(c)!Rested.told
<1>1. Jobs(c)!Rested
         = [idle |-> c.idle + 1, total |-> c.total, told |-> c.idle + 1 >= c.total]
  BY DEF Jobs!Rested
<1>2. c.idle + 1 \in 0..ThreadsPerProc
  BY ThreadsSane DEF CrewType
<1>3. (c.idle + 1 >= c.total) \in BOOLEAN
  OBVIOUS
<1>4. Jobs(c)!Rested \in CrewType
  BY <1>1, <1>2, <1>3 DEF CrewType
<1>5. c.idle \in Nat /\ c.total \in Nat /\ c.idle + 1 <= c.total
  BY ThreadsSane DEF CrewType
<1>6. Jobs(c)!Rested.idle = c.idle + 1 /\ Jobs(c)!Rested.total = c.total
  BY <1>1
<1>7. ASSUME c.idle + 1 >= c.total PROVE Jobs(c)!Rested.told
  <2>1. (c.idle + 1 >= c.total) = TRUE
    BY <1>7
  <2>2. Jobs(c)!Rested = [idle |-> c.idle + 1, total |-> c.total, told |-> TRUE]
    BY <1>1, <2>1
  <2> QED BY <2>2
<1> QED BY <1>4, <1>5, <1>6, <1>7

-----------------------------------------------------------------------------
(* The list of the server.                                                 *)

LEMMA ListType ==
    ASSUME TypeOK
    PROVE  /\ procList \in Seq(Proc) /\ Len(procList) \in Nat
           /\ DOMAIN procList = 1..Len(procList)
           /\ Distinct(procList) /\ ToSet(procList) \subseteq Proc
           /\ IsFiniteSet(ToSet(procList)) /\ IsFiniteSet(IdleSet)
<1>1. /\ procList \in Seq(Proc) /\ Len(procList) \in Nat
      /\ DOMAIN procList = 1..Len(procList)
  BY DEF TypeOK
<1>2. Distinct(procList)
  BY <1>1 DEF TypeOK, Distinct, IsInjective
<1>3. ToSet(procList) \subseteq Proc
  BY <1>1 DEF ToSet
<1>4. IsFiniteSet(ToSet(procList))
  BY <1>1, <1>2, DistinctCardinality
<1>5. IsFiniteSet(IdleSet)
  BY <1>4, FS_Subset DEF IdleSet
<1> QED BY <1>1, <1>2, <1>3, <1>4, <1>5

LEMMA DistinctInjective ==
    ASSUME NEW S, NEW s \in Seq(S), Distinct(s)
    PROVE  IsInjective(s)
BY DEF Distinct, IsInjective

\* get() appends an entry that was not in the list.
LEMMA GetFacts ==
    ASSUME TypeOK, mpc # "done", NEW p \in Proc, LF!Get(p)
    PROVE  /\ procList' \in Seq(Proc) /\ IsInjective(procList')
           /\ p \notin ToSet(procList) /\ wpc[p] = "none"
           /\ ToSet(procList') = ToSet(procList) \cup {p}
           /\ wpc' = [wpc EXCEPT ![p] = "top"]
           /\ isIdle' = [isIdle EXCEPT ![p] = TRUE] /\ idleCount' = idleCount + 1
<1>1. /\ procList' = Append(procList, p) /\ wpc[p] = "none"
      /\ wpc' = [wpc EXCEPT ![p] = "top"]
      /\ isIdle' = [isIdle EXCEPT ![p] = TRUE] /\ idleCount' = idleCount + 1
  BY DEF LF!Get
<1>2. p \notin ToSet(procList)
  BY <1>1 DEF TypeOK
<1>3. /\ procList' \in Seq(Proc) /\ Distinct(procList')
      /\ ToSet(procList') = ToSet(procList) \cup {p}
  BY <1>1, <1>2, ListType, AppendNew
<1> QED BY <1>1, <1>2, <1>3, DistinctInjective

\* takeItem() and erase() take one entry out of the list.
LEMMA RemoveFacts ==
    ASSUME TypeOK, NEW p \in Proc, LF!RemoveEntry(p)
    PROVE  /\ procList' \in Seq(Proc) /\ IsInjective(procList')
           /\ p \in ToSet(procList)
           /\ ToSet(procList') = ToSet(procList) \ {p}
           /\ isIdle' = [isIdle EXCEPT ![p] = FALSE]
           /\ idleCount' = IF isIdle[p] THEN idleCount - 1 ELSE idleCount
           /\ wpc' = [wpc EXCEPT ![p] = IF wpc[p] = "gone" THEN "none" ELSE "closed"]
<1>1. PICK i \in 1..Len(procList) : procList[i] = p /\ procList' = RemoveAt(procList, i)
  BY DEF LF!RemoveEntry, LF!TakeItem, LF!RemoveAt, RemoveAt
<1>2. /\ procList' \in Seq(Proc) /\ Distinct(procList')
      /\ ToSet(procList') = ToSet(procList) \ {p}
  BY <1>1, ListType, RemoveOne
<1>3. p \in ToSet(procList)
  BY <1>1, ListType DEF ToSet
<1>4. /\ isIdle' = [isIdle EXCEPT ![p] = FALSE]
      /\ idleCount' = IF isIdle[p] THEN idleCount - 1 ELSE idleCount
      /\ wpc' = [wpc EXCEPT ![p] = IF wpc[p] = "gone" THEN "none" ELSE "closed"]
  BY DEF LF!RemoveEntry
<1> QED BY <1>2, <1>3, <1>4, DistinctInjective

\* What the master reads of one worker.
LEMMA RecvFacts ==
    ASSUME TypeOK, NEW p \in Proc, LF!RecvFrom(p)
    PROVE  /\ mpc = "recv" /\ mpc' = "recv" /\ p \in ToSet(procList)
           /\ pipe' = [pipe EXCEPT ![p] = <<>>] /\ UNCHANGED lock
           /\ \/ pipe[p] # <<>> /\ Last(pipe[p]) = LF!Idle /\ LF!SetIdle(p, TRUE)
              \/ pipe[p] # <<>> /\ Last(pipe[p]) = LF!Busy /\ LF!SetIdle(p, FALSE)
              \/ LF!RemoveEntry(p)
              \/ pipe[p] = <<>> /\ UNCHANGED <<procList, isIdle, idleCount, wpc>>
<1>1. /\ mpc = "recv" /\ mpc' = "recv" /\ LF!Latest(p)
      /\ pipe' = [pipe EXCEPT ![p] = <<>>] /\ UNCHANGED lock
      /\ \/ pipe[p] # <<>> /\ Last(pipe[p]) = LF!Idle /\ LF!SetIdle(p, TRUE)
         \/ pipe[p] # <<>> /\ Last(pipe[p]) = LF!Busy /\ LF!SetIdle(p, FALSE)
         \/ LF!RemoveEntry(p)
         \/ pipe[p] = <<>> /\ UNCHANGED <<procList, isIdle, idleCount, wpc>>
  BY DEF LF!RecvFrom, LF!Told, LF!Last, Last
<1>2. p \in ToSet(procList)
  BY <1>1, ListType DEF LF!Latest, ToSet
<1> QED BY <1>1, <1>2

-----------------------------------------------------------------------------
(* Types, and the threads of a worker.                                     *)

\* A process is made.
LEMMA GetStep ==
    ASSUME IInv, mpc # "done", NEW p \in Proc, LF!Get(p),
           UNCHANGED <<pipe, lock, crew, calling, unsaid, served, lost>>
    PROVE  IInv'
<1> USE DEF IInv
<1>1. /\ procList' \in Seq(Proc) /\ IsInjective(procList') /\ p \notin ToSet(procList)
      /\ ToSet(procList') = ToSet(procList) \cup {p} /\ wpc[p] = "none"
      /\ wpc' = [wpc EXCEPT ![p] = "top"] /\ isIdle' = [isIdle EXCEPT ![p] = TRUE]
      /\ idleCount' = idleCount + 1
  BY GetFacts
<1>2. \A q \in Proc : /\ wpc'[q] = IF q = p THEN "top" ELSE wpc[q]
                      /\ isIdle'[q] = IF q = p THEN TRUE ELSE isIdle[q]
  BY <1>1 DEF TypeOK, DataType
<1>3. idleCount' = Cardinality(IdleSet')
  <2>1. IdleSet' = IdleSet \cup {p} /\ p \notin IdleSet
    BY <1>1, <1>2, ListType DEF IdleSet
  <2>2. idleCount = Cardinality(IdleSet) /\ IsFiniteSet(IdleSet)
    BY ListType DEF TypeOK, IdleSet
  <2> QED BY <1>1, <2>1, <2>2, FS_AddElement
<1>4. ToSet(procList') = {q \in Proc : wpc'[q] \notin {"none", "closed", "aborted"}}
  BY <1>1, <1>2 DEF TypeOK
<1>5. wpc' \in [Proc -> {"none", "top", "accept", "dispatch", "served", "delete",
                         "gone", "closed", "aborted"}]
  BY <1>1 DEF TypeOK
<1>6. TypeOK'
  BY <1>1, <1>2, <1>3, <1>4, <1>5 DEF TypeOK, IdleSet
<1>7. DataType'
  BY <1>1 DEF DataType
<1>8. CrewInv' /\ PipeInv' /\ RoomToServe'
  BY <1>2 DEF CrewInv, PipeInv, RoomToServe, Given, Jobs!Room, Jobs!Given
<1>9. Heard'
  <2>1. pipe[p] = <<>>
    BY <1>1 DEF PipeInv
  <2> QED BY <1>1, <1>2, <2>1, ListType DEF Heard, AtWork, Given, Jobs!Given
<1> QED BY <1>6, <1>7, <1>8, <1>9

\* An entry is taken out of the list.
LEMMA RemoveStep ==
    ASSUME IInv, mpc = "recv", mpc' = "recv", NEW p \in Proc, LF!RemoveEntry(p),
           pipe' = [pipe EXCEPT ![p] = <<>>], UNCHANGED <<lock, crew, calling, served, lost>>,
           unsaid' = {q \in unsaid : q \in ToSet(procList') /\ (isIdle'[q] => pipe'[q] # <<>>)}
    PROVE  IInv'
<1> USE DEF IInv
<1>1. /\ procList' \in Seq(Proc) /\ IsInjective(procList') /\ p \in ToSet(procList)
      /\ ToSet(procList') = ToSet(procList) \ {p}
      /\ isIdle' = [isIdle EXCEPT ![p] = FALSE]
      /\ idleCount' = IF isIdle[p] THEN idleCount - 1 ELSE idleCount
      /\ wpc' = [wpc EXCEPT ![p] = IF wpc[p] = "gone" THEN "none" ELSE "closed"]
  BY RemoveFacts
<1>2. /\ \A q \in Proc \ {p} : /\ wpc'[q] = wpc[q] /\ isIdle'[q] = isIdle[q]
                               /\ pipe'[q] = pipe[q]
      /\ pipe'[p] = <<>> /\ ~isIdle'[p]
      /\ \/ wpc[p] = "gone" /\ wpc'[p] = "none"
         \/ wpc[p] # "gone" /\ wpc'[p] = "closed"
  BY <1>1 DEF TypeOK, DataType
<1>3. idleCount' = Cardinality(IdleSet')
  <2>1. IdleSet' = IdleSet \ {p} /\ (p \in IdleSet <=> isIdle[p])
    BY <1>1, <1>2, ListType DEF IdleSet
  <2>2. idleCount = Cardinality(IdleSet) /\ IsFiniteSet(IdleSet)
    BY ListType DEF TypeOK, IdleSet
  <2> QED BY <1>1, <2>1, <2>2, FS_RemoveElement
<1>4. ToSet(procList') = {q \in Proc : wpc'[q] \notin {"none", "closed", "aborted"}}
  BY <1>1, <1>2 DEF TypeOK
<1>5. wpc' \in [Proc -> {"none", "top", "accept", "dispatch", "served", "delete",
                         "gone", "closed", "aborted"}]
  BY <1>1 DEF TypeOK
<1>6. TypeOK'
  BY <1>1, <1>2, <1>3, <1>4, <1>5 DEF TypeOK, IdleSet
<1>7. DataType'
  <2>1. <<>> \in Seq({LF!Busy, LF!Idle, LF!Exit})
    OBVIOUS
  <2> QED BY <1>1, <2>1 DEF DataType
<1>8. CrewInv' /\ PipeInv' /\ RoomToServe'
  BY <1>2 DEF CrewInv, PipeInv, RoomToServe, Given, Jobs!Room, Jobs!Given
<1>9. Heard'
  <2>1. \A q \in ToSet(procList') \ (unsaid' \cup calling') :
           /\ q \in ToSet(procList) /\ q # p
           /\ q \notin unsaid \/ (isIdle[q] /\ pipe[q] = <<>>)
    BY <1>1, <1>2, ListType
  <2> QED BY <1>2, <2>1, ListType DEF Heard, AtWork, Given, Jobs!Given
<1> QED BY <1>6, <1>7, <1>8, <1>9

\* The last byte of a worker says what it does.
LEMMA SetIdleStep ==
    ASSUME IInv, mpc = "recv", mpc' = "recv", NEW p \in Proc, NEW b \in BOOLEAN,
           p \in ToSet(procList), LF!SetIdle(p, b),
           pipe[p] # <<>>, b \/ Last(pipe[p]) = LF!Busy,
           pipe' = [pipe EXCEPT ![p] = <<>>], UNCHANGED <<lock, crew, calling, served, lost>>,
           unsaid' = {q \in unsaid : q \in ToSet(procList') /\ (isIdle'[q] => pipe'[q] # <<>>)}
    PROVE  IInv'
<1> USE DEF IInv
<1>0. isIdle[p] \in BOOLEAN
  BY DEF DataType
<1>1. /\ UNCHANGED <<procList, wpc>> /\ isIdle' = [isIdle EXCEPT ![p] = b]
      /\ b => idleCount' = IF isIdle[p] THEN idleCount ELSE idleCount + 1
      /\ ~b => idleCount' = IF isIdle[p] THEN idleCount - 1 ELSE idleCount
  BY <1>0 DEF LF!SetIdle
<1>2. /\ \A q \in Proc \ {p} : isIdle'[q] = isIdle[q] /\ pipe'[q] = pipe[q]
      /\ pipe'[p] = <<>> /\ isIdle'[p] = b
  BY <1>1 DEF DataType
<1>3. idleCount' = Cardinality(IdleSet')
  <2>1. /\ IdleSet' = IF b THEN IdleSet \cup {p} ELSE IdleSet \ {p}
        /\ p \in IdleSet <=> isIdle[p]
    BY <1>1, <1>2, ListType DEF IdleSet
  <2>2. idleCount = Cardinality(IdleSet) /\ IsFiniteSet(IdleSet)
    BY ListType DEF TypeOK, IdleSet
  <2>3. CASE b
    BY <1>1, <2>1, <2>2, <2>3, FS_AddElement
  <2>4. CASE ~b
    BY <1>1, <2>1, <2>2, <2>4, FS_RemoveElement
  <2> QED BY <2>3, <2>4
<1>4. TypeOK'
  BY <1>1, <1>3 DEF TypeOK, IdleSet
<1>5. DataType'
  <2>1. <<>> \in Seq({LF!Busy, LF!Idle, LF!Exit})
    OBVIOUS
  <2> QED BY <1>1, <2>1 DEF DataType
<1>6. CrewInv' /\ PipeInv' /\ RoomToServe'
  BY <1>1, <1>2 DEF CrewInv, PipeInv, RoomToServe, Given, Jobs!Room, Jobs!Given
<1>7. Heard'
  <2>1. \A q \in ToSet(procList') \ (unsaid' \cup calling') :
           q \notin unsaid \/ (isIdle'[q] /\ pipe'[q] = <<>>)
    BY <1>1
  <2>2. ASSUME NEW q \in ToSet(procList') \ (unsaid' \cup calling'), AtWork(q), Given(q) = 0, q \notin unsaid
        PROVE  IF pipe'[q] = <<>> THEN isIdle'[q] ELSE Last(pipe'[q]) = LF!Idle
    <3>1. q \in ToSet(procList) /\ q \in Proc
      BY <1>1, ListType
    <3>2. IF pipe[q] = <<>> THEN isIdle[q] ELSE Last(pipe[q]) = LF!Idle
      BY <2>2, <3>1 DEF Heard
    <3>3. CASE q = p
      BY <1>2, <3>2, <3>3 DEF LF!Idle, LF!Busy
    <3>4. CASE q # p
      BY <1>2, <3>1, <3>2, <3>4
    <3> QED BY <3>3, <3>4
  <2>3. \A q \in Proc : (AtWork(q)' <=> AtWork(q)) /\ Given(q)' = Given(q)
    BY <1>1 DEF AtWork, Given, Jobs!Given
  <2> QED BY <1>1, <2>1, <2>2, <2>3, ListType DEF Heard
<1> QED BY <1>4, <1>5, <1>6, <1>7

\* Nothing of what the invariant is about changes, but perhaps where the master
\* is and what it has still to look at.
LEMMA SameStep ==
    ASSUME IInv, UNCHANGED <<procList, isIdle, idleCount, wpc, pipe, lock, crew, calling, unsaid, served, lost>>,
           mpc = "done" => mpc' = "done"
    PROVE  IInv'
BY DEF IInv, TypeOK, DataType, CrewInv, PipeInv, RoomToServe, Heard, AtWork, Given,
       Jobs!Room, Jobs!Given

LEMMA RecvStep ==
    ASSUME IInv, Recv
    PROVE  IInv'
<1>0. TypeOK
  BY DEF IInv
<1>3. unsaid' = {q \in unsaid : q \in ToSet(procList') /\ (isIdle'[q] => pipe'[q] # <<>>)}
  BY DEF Recv
<1>1. PICK p \in Proc : LF!RecvFrom(p)
  BY DEF Recv, LF!Recv
<1>2. /\ mpc = "recv" /\ mpc' = "recv" /\ p \in ToSet(procList)
      /\ pipe' = [pipe EXCEPT ![p] = <<>>] /\ UNCHANGED <<lock, crew, calling, served, lost>>
      /\ \/ pipe[p] # <<>> /\ Last(pipe[p]) = LF!Idle /\ LF!SetIdle(p, TRUE)
         \/ pipe[p] # <<>> /\ Last(pipe[p]) = LF!Busy /\ LF!SetIdle(p, FALSE)
         \/ LF!RemoveEntry(p)
         \/ pipe[p] = <<>> /\ UNCHANGED <<procList, isIdle, idleCount, wpc>>
  BY <1>0, <1>1, RecvFacts DEF Recv, clientVars
<1>4. CASE pipe[p] # <<>> /\ LF!SetIdle(p, TRUE)
  BY <1>2, <1>3, <1>4, SetIdleStep
<1>5. CASE pipe[p] # <<>> /\ Last(pipe[p]) = LF!Busy /\ LF!SetIdle(p, FALSE)
  BY <1>2, <1>3, <1>5, SetIdleStep
<1>6. CASE LF!RemoveEntry(p)
  BY <1>2, <1>3, <1>6, RemoveStep
<1>7. CASE pipe[p] = <<>> /\ UNCHANGED <<procList, isIdle, idleCount, wpc>>
  <2>1. pipe' = pipe
    BY <1>2, <1>7 DEF IInv, DataType
  <2>2. unsaid' \subseteq Proc /\ \A q \in ToSet(procList) \ (unsaid' \cup calling') :
                                     q \notin unsaid \/ (isIdle[q] /\ pipe[q] = <<>>)
    BY <1>0, <1>3, <1>7, <2>1 DEF TypeOK
  <2>3. TypeOK' /\ DataType' /\ CrewInv' /\ PipeInv' /\ RoomToServe'
    BY <1>2, <1>7, <2>1, <2>2 DEF IInv, TypeOK, DataType, CrewInv, PipeInv, RoomToServe,
       Given, Jobs!Room, Jobs!Given
  <2>4. Heard'
    BY <1>2, <1>7, <2>1, <2>2 DEF IInv, Heard, AtWork, Given, Jobs!Given
  <2> QED BY <2>3, <2>4 DEF IInv
<1> QED BY <1>2, <1>4, <1>5, <1>6, <1>7

LEMMA TrimStep ==
    ASSUME IInv, Trim
    PROVE  IInv'
<1> USE DEF IInv
<1>1. /\ mpc = "recv" /\ mpc' = "fork" /\ UNCHANGED <<procList, wpc, pipe, lock, crew, calling, served, lost>>
      /\ unsaid' = unsaid \cup {p \in Proc : isIdle[p] /\ ~isIdle'[p]}
  BY DEF Trim, LF!Trim, LF!workerVars, clientVars
<1>2. CASE idleCount > LF!MaxIdleProc
  <2>1. /\ isIdle' = [p \in Proc |-> isIdle[p] /\ p \notin LF!FirstIdle]
        /\ idleCount' = idleCount - Cardinality(LF!FirstIdle)
    BY <1>2 DEF Trim, LF!Trim, LF!Cardinality, Cardinality
  <2>2. LF!FirstIdle \subseteq IdleSet
    BY ListType DEF LF!FirstIdle, IdleSet, ToSet
  <2>3. IdleSet' = IdleSet \ LF!FirstIdle
    BY <1>1, <2>1, ListType DEF IdleSet
  <2>4. idleCount = Cardinality(IdleSet) /\ IsFiniteSet(IdleSet)
    BY ListType DEF TypeOK, IdleSet
  <2>5. IdleSet \cap LF!FirstIdle = LF!FirstIdle
    BY <2>2
  <2>6. idleCount' = Cardinality(IdleSet')
    BY <2>1, <2>3, <2>4, <2>5, FS_Difference
  <2>7. isIdle' \in [Proc -> BOOLEAN]
    BY <2>1 DEF DataType
  <2>8. TypeOK' /\ DataType' /\ CrewInv' /\ PipeInv' /\ RoomToServe'
    BY <1>1, <2>6, <2>7 DEF TypeOK, DataType, CrewInv, PipeInv, RoomToServe, Given,
       Jobs!Room, Jobs!Given, IdleSet
  <2>9. Heard'
    <3>1. \A q \in ToSet(procList') \ (unsaid' \cup calling') :
             q \in ToSet(procList) \ (unsaid \cup calling) /\ (isIdle[q] => isIdle'[q])
      BY <1>1, ListType
    <3> QED BY <1>1, <3>1 DEF Heard, AtWork, Given, Jobs!Given
  <2> QED BY <2>8, <2>9
<1>3. CASE ~(idleCount > LF!MaxIdleProc)
  <2>1. UNCHANGED <<isIdle, idleCount>>
    BY <1>3 DEF Trim, LF!Trim
  <2>2. unsaid' = unsaid
    BY <1>1, <2>1
  <2> QED BY <1>1, <2>1, <2>2, SameStep
<1> QED BY <1>2, <1>3

LEMMA MasterIInv ==
    ASSUME IInv, MasterStep \/ SelectIntr \/ Shutdown \/ Connect \/ UNCHANGED vars
    PROVE  IInv'
<1>1. CASE StartGet
  <2>1. mpc = "start" /\ UNCHANGED <<pipe, lock, crew, calling, unsaid, served, lost>>
    BY <1>1 DEF StartGet, LF!StartGet, poolVars, clientVars
  <2>2. CASE LF!GetNull
    BY <2>1, <2>2, SameStep DEF LF!GetNull
  <2> QED BY <1>1, <2>1, <2>2, GetStep DEF StartGet, LF!StartGet
<1>2. CASE Fork
  <2>1. mpc = "fork" /\ UNCHANGED <<pipe, lock, crew, calling, unsaid, served, lost>>
    BY <1>2 DEF Fork, LF!Fork, poolVars, clientVars
  <2>2. CASE UNCHANGED <<procList, isIdle, idleCount, wpc>>
    BY <2>1, <2>2, SameStep
  <2> QED BY <1>2, <2>1, <2>2, GetStep DEF Fork, LF!Fork, LF!GetNull
<1>3. CASE StartEnd \/ Select \/ SelectIntr \/ Shutdown \/ Connect \/ UNCHANGED vars
  <2>1. /\ UNCHANGED <<procList, isIdle, idleCount, wpc, pipe, lock, crew, calling, unsaid, served, lost>>
        /\ mpc = "done" => mpc' = "done"
    BY <1>3 DEF StartEnd, Select, SelectIntr, Shutdown, Connect, LF!StartEnd, LF!Select,
       LF!SelectIntr, LF!Shutdown, LF!Connect, LF!masterVars, LF!workerVars, vars, masterVars,
       poolVars, clientVars
  <2> QED BY <2>1, SameStep
<1> QED BY <1>1, <1>2, <1>3, RecvStep, TrimStep DEF MasterStep

-----------------------------------------------------------------------------
(* The steps of the workers.                                               *)

\* A step of one worker that leaves its byte alone and keeps the list.
LEMMA WorkerSame ==
    ASSUME IInv, NEW p \in Proc, NEW to, wpc' = [wpc EXCEPT ![p] = to],
           UNCHANGED <<mpc, procList, isIdle, idleCount>>
    PROVE  /\ \A q \in Proc : wpc'[q] = IF q = p THEN to ELSE wpc[q]
           /\ IdleSet' = IdleSet /\ idleCount' = Cardinality(IdleSet')
BY DEF IInv, TypeOK, IdleSet

\* The types after a step of a worker.
LEMMA WorkerType ==
    ASSUME IInv, NEW p \in Proc, wpc[p] \notin {"none", "closed", "aborted"},
           NEW to \in {"top", "accept", "dispatch", "served", "delete", "gone"},
           wpc' = [wpc EXCEPT ![p] = to],
           UNCHANGED <<mpc, procList, isIdle, idleCount>>,
           crew' \in [Proc -> CrewType], unsaid' \subseteq Proc, calling' \subseteq Proc,
           served' \in Nat, lost' \in Nat,
           LockKind # "none" => /\ to = "accept" => lock' = p
                                /\ \A q \in Proc \ {p} : lock = q => lock' = q
    PROVE  TypeOK'
<1>1. /\ \A q \in Proc : wpc'[q] = IF q = p THEN to ELSE wpc[q]
      /\ idleCount' = Cardinality(IdleSet')
  BY WorkerSame
<1>2. mpc' # "done" =>
         ToSet(procList') = {q \in Proc : wpc'[q] \notin {"none", "closed", "aborted"}}
  BY <1>1 DEF IInv, TypeOK
<1>3. \A q \in Proc : wpc'[q] = "accept" /\ LockKind # "none" => lock' = q
  BY <1>1 DEF IInv, TypeOK
<1>4. wpc' \in [Proc -> {"none", "top", "accept", "dispatch", "served", "delete",
                         "gone", "closed", "aborted"}]
  BY DEF IInv, TypeOK
<1> QED BY <1>1, <1>2, <1>3, <1>4 DEF IInv, TypeOK, IdleSet, CrewType

\* Nobody else has the lock when a worker lets go of it.
LEMMA UnlockOthers ==
    ASSUME IInv, NEW p \in Proc, wpc[p] = "accept", LockKind # "none"
    PROVE  \A q \in Proc \ {p} : lock # q
BY DEF IInv, TypeOK

\* A step of the main thread that leaves the thread pool alone.
LEMMA MoveStep ==
    ASSUME IInv, NEW p \in Proc, wpc[p] \notin {"none", "closed", "aborted"},
           NEW to \in {"top", "accept", "dispatch", "served", "delete"},
           wpc' = [wpc EXCEPT ![p] = to],
           UNCHANGED <<mpc, procList, isIdle, idleCount, crew, calling, served>>, lost' \in Nat,
           unsaid \subseteq unsaid', unsaid' \subseteq Proc,
           LockKind # "none" => /\ to = "accept" => lock' = p
                                /\ \A q \in Proc \ {p} : lock = q => lock' = q,
           pipe' \in [Proc -> Seq(PipeByte)], \A q \in Proc \ {p} : pipe'[q] = pipe[q],
           to \in {"top", "accept", "served"} =>
              (pipe' = pipe /\ AtWork(p)) \/ p \in unsaid',
           to \in {"accept", "dispatch"} => Jobs(crew[p])!Room
    PROVE  IInv'
<1>1. TypeOK'
  <2>1. crew' \in [Proc -> CrewType] /\ calling' \subseteq Proc /\ served' \in Nat
    BY DEF IInv, TypeOK, CrewType
  <2> QED BY <2>1, WorkerType
<1>2. \A q \in Proc : wpc'[q] = IF q = p THEN to ELSE wpc[q]
  BY DEF IInv, TypeOK
<1>3. DataType'
  BY DEF IInv, DataType, PipeByte
<1>4. CrewInv' /\ PipeInv' /\ RoomToServe'
  BY <1>2 DEF IInv, CrewInv, PipeInv, RoomToServe, Given, Jobs!Room, Jobs!Given
<1>5. Heard'
  <2>1. \A q \in ToSet(procList) \ (unsaid' \cup calling') :
           /\ q \in Proc /\ q \notin unsaid
           /\ q # p => wpc'[q] = wpc[q] /\ pipe'[q] = pipe[q]
           /\ q = p => wpc'[q] = to
    BY <1>2, ListType DEF IInv
  <2>2. ASSUME NEW q \in ToSet(procList) \ (unsaid' \cup calling'), AtWork(q)' PROVE AtWork(q) /\ pipe'[q] = pipe[q]
    BY <2>1, <2>2 DEF AtWork
  <2> QED BY <2>1, <2>2 DEF IInv, Heard, Given, Jobs!Given
<1> QED BY <1>1, <1>3, <1>4, <1>5 DEF IInv

\* A worker process ends, and its threads with it.
LEMMA EndStep ==
    ASSUME IInv, NEW p \in Proc, wpc[p] \notin {"none", "closed", "aborted"},
           wpc' = [wpc EXCEPT ![p] = "gone"],
           UNCHANGED <<mpc, procList, isIdle, idleCount, unsaid, served>>, lost' \in Nat,
           crew' = [crew EXCEPT ![p] = NoThread], calling' = calling \ {p},
           \A q \in Proc \ {p} : lock = q => lock' = q,
           pipe' \in [Proc -> Seq(PipeByte)], \A q \in Proc \ {p} : pipe'[q] = pipe[q]
    PROVE  IInv'
<1>0. \A q \in Proc : crew'[q] = IF q = p THEN NoThread ELSE crew[q]
  BY DEF IInv, TypeOK
<1>1. /\ crew' \in [Proc -> CrewType] /\ unsaid' \subseteq Proc /\ calling' \subseteq Proc
      /\ served' \in Nat
  BY EmptyCrew DEF IInv, TypeOK, CrewType
<1>2. TypeOK'
  BY <1>1, WorkerType
<1>3. \A q \in Proc : wpc'[q] = IF q = p THEN "gone" ELSE wpc[q]
  BY DEF IInv, TypeOK
<1>4. DataType'
  BY DEF IInv, DataType, PipeByte
<1>5. CrewInv'
  <2>1. crew'[p].idle = 0 /\ crew'[p].total = 0
    BY <1>0, EmptyCrew
  <2>2. \A q \in Proc \ {p} : crew'[q] = crew[q] /\ wpc'[q] = wpc[q]
    BY <1>0, <1>3
  <2> QED BY <2>1, <2>2 DEF IInv, CrewInv, Given, Jobs!Given
<1>6. PipeInv' /\ RoomToServe'
  BY <1>0, <1>3 DEF IInv, PipeInv, RoomToServe, Jobs!Room
<1>7. Heard'
  BY <1>0, <1>3, ListType DEF IInv, Heard, AtWork, Given, Jobs!Given
<1> QED BY <1>2, <1>4, <1>5, <1>6, <1>7 DEF IInv

LEMMA SaysType ==
    ASSUME IInv, NEW p \in Proc, NEW b \in PipeByte, LF!Says(p, b)
    PROVE  /\ pipe' \in [Proc -> Seq(PipeByte)]
           /\ \A q \in Proc \ {p} : pipe'[q] = pipe[q]
           /\ pipe'[p] # <<>> /\ Last(pipe'[p]) = b
<1>1. pipe \in [Proc -> Seq(PipeByte)] /\ pipe' = [pipe EXCEPT ![p] = Append(pipe[p], b)]
  BY DEF IInv, DataType, PipeByte, LF!Says
<1>2. Append(pipe[p], b) \in Seq(PipeByte)
  BY <1>1, AppendNew
<1>3. Append(pipe[p], b) # <<>> /\ Last(Append(pipe[p], b)) = b
  BY <1>1, LastAppended
<1> QED BY <1>1, <1>2, <1>3

LEMMA DispatchStep ==
    ASSUME IInv, NEW p \in Proc, Dispatch(p)
    PROVE  IInv'
<1>1. /\ wpc[p] = "dispatch" /\ wpc' = [wpc EXCEPT ![p] = "served"] /\ Jobs(crew[p])!Room
      /\ crew' = [crew EXCEPT ![p] = Jobs(crew[p])!Taken]
      /\ UNCHANGED <<mpc, procList, isIdle, idleCount, lock, pipe, calling, unsaid, served,
                     lost>>
  BY DEF Dispatch, LF!Goes, masterVars, clientVars
<1>2. crew \in [Proc -> CrewType] /\ crew[p].idle <= crew[p].total
  BY DEF IInv, TypeOK, CrewType, CrewInv
<1>3. /\ Jobs(crew[p])!Taken \in CrewType
      /\ Jobs(crew[p])!Taken.idle <= Jobs(crew[p])!Taken.total
      /\ Jobs(crew[p])!Taken.total - Jobs(crew[p])!Taken.idle > 0
  BY <1>1, <1>2, TakenCrew
<1>4. /\ crew' \in [Proc -> CrewType] /\ crew'[p] = Jobs(crew[p])!Taken
      /\ \A q \in Proc \ {p} : crew'[q] = crew[q]
  BY <1>1, <1>2, <1>3
<1>5. \A q \in Proc : wpc'[q] = IF q = p THEN "served" ELSE wpc[q]
  BY <1>1, WorkerSame
<1>6. TypeOK'
  BY <1>1, <1>4, WorkerType DEF IInv, TypeOK
<1>7. crew'[p].idle <= crew'[p].total /\ Given(p)' # 0
  <2>1. crew'[p].total - crew'[p].idle # 0
    <3>1. crew'[p].total \in Int /\ crew'[p].idle \in Int
      BY <1>4, ThreadsSane DEF CrewType
    <3> QED BY <1>3, <1>4, <3>1
  <2> QED BY <1>3, <1>4, <2>1 DEF Given, Jobs!Given
<1>8. DataType' /\ PipeInv' /\ RoomToServe'
  BY <1>1, <1>4, <1>5 DEF IInv, DataType, PipeInv, RoomToServe, Jobs!Room
<1>9. CrewInv'
  BY <1>1, <1>4, <1>5, <1>7 DEF IInv, CrewInv, Given, Jobs!Given
<1>10. Heard'
  BY <1>1, <1>4, <1>5, <1>7, ListType DEF IInv, Heard, AtWork, Given, Jobs!Given
<1> QED BY <1>6, <1>8, <1>9, <1>10 DEF IInv

\* The thread that gets idle last calls the callback.
LEMMA FinishStep ==
    ASSUME IInv, NEW p \in Proc, Finish(p)
    PROVE  IInv'
<1>1. /\ Given(p) > 0 /\ crew' = [crew EXCEPT ![p] = Jobs(crew[p])!Rested]
      /\ calling' = calling \cup {q \in {p} : crew'[p].told} /\ served' = served + 1
      /\ UNCHANGED <<mpc, procList, isIdle, idleCount, wpc, lock, pipe, unsaid, lost>>
  BY DEF Finish, masterVars
<1>2. crew \in [Proc -> CrewType] /\ crew[p].total - crew[p].idle > 0
  BY <1>1 DEF IInv, TypeOK, CrewType, Given, Jobs!Given
<1>3. /\ Jobs(crew[p])!Rested \in CrewType
      /\ Jobs(crew[p])!Rested.idle = crew[p].idle + 1
      /\ Jobs(crew[p])!Rested.total = crew[p].total
      /\ Jobs(crew[p])!Rested.idle <= Jobs(crew[p])!Rested.total
      /\ crew[p].idle + 1 >= crew[p].total => Jobs(crew[p])!Rested.told
  BY <1>2, RestedCrew
<1>4. /\ crew' \in [Proc -> CrewType] /\ crew'[p] = Jobs(crew[p])!Rested
      /\ \A q \in Proc \ {p} : crew'[q] = crew[q]
  BY <1>1, <1>2, <1>3
<1>5. /\ crew[p].idle \in Nat /\ crew[p].total \in Nat
      /\ crew'[p].idle = crew[p].idle + 1 /\ crew'[p].total = crew[p].total
      /\ crew'[p].idle <= crew'[p].total
  BY <1>2, <1>3, <1>4, ThreadsSane DEF CrewType
<1>6. /\ calling' \subseteq calling \cup {p} /\ calling \subseteq calling'
      /\ crew'[p].told => p \in calling'
  BY <1>1
<1>7. wpc[p] \notin {"none", "gone", "aborted"}
  BY <1>1 DEF IInv, CrewInv
<1>8. TypeOK' /\ DataType'
  BY <1>1, <1>4, <1>6 DEF IInv, TypeOK, DataType, CrewType
<1>9. CrewInv'
  BY <1>1, <1>4, <1>5, <1>6, <1>7 DEF IInv, CrewInv, Given, Jobs!Given
<1>10. PipeInv'
  BY <1>1 DEF IInv, PipeInv
<1>11. RoomToServe'
  BY <1>1, <1>4, <1>5 DEF IInv, RoomToServe, Jobs!Room
<1>12. Heard'
  <2>1. ASSUME Given(p)' = 0 PROVE p \in calling'
    <3>1. crew'[p].total - crew'[p].idle = 0
      BY <2>1 DEF Given, Jobs!Given
    <3>2. crew[p].idle + 1 >= crew[p].total
      BY <1>5, <3>1
    <3> QED BY <1>3, <1>4, <1>6, <3>2
  <2>2. \A q \in ToSet(procList) \ {p} : q \in Proc /\ crew'[q] = crew[q]
    BY <1>4, ListType DEF IInv
  <2> QED BY <1>1, <1>6, <2>1, <2>2 DEF IInv, Heard, AtWork, Given, Jobs!Given
<1> QED BY <1>8, <1>9, <1>10, <1>11, <1>12 DEF IInv

\* The callback says so.
LEMMA ReportStep ==
    ASSUME IInv, NEW p \in Proc, Report(p)
    PROVE  IInv'
<1>1. /\ p \in calling /\ calling' = calling \ {p}
      /\ \/ wpc[p] # "closed" /\ LF!Says(p, LF!Idle)
         \/ wpc[p] = "closed" /\ pipe' = pipe
      /\ UNCHANGED <<mpc, procList, isIdle, idleCount, wpc, lock, crew, unsaid, served, lost>>
  BY DEF Report, masterVars, clientVars
<1>2. /\ pipe' \in [Proc -> Seq(PipeByte)] /\ \A q \in Proc \ {p} : pipe'[q] = pipe[q]
      /\ IF wpc[p] # "closed" THEN pipe'[p] # <<>> /\ Last(pipe'[p]) = LF!Idle
         ELSE pipe'[p] = pipe[p]
  <2>1. CASE LF!Says(p, LF!Idle) /\ wpc[p] # "closed"
    <3>1. LF!Idle \in PipeByte
      BY DEF PipeByte
    <3> QED BY <2>1, <3>1, SaysType
  <2>2. CASE wpc[p] = "closed" /\ pipe' = pipe
    BY <2>2 DEF IInv, DataType, PipeByte
  <2> QED BY <1>1, <2>1, <2>2
<1>3. wpc[p] \notin {"none", "gone", "aborted"}
  BY <1>1 DEF IInv, CrewInv
<1>4. TypeOK' /\ DataType'
  BY <1>1, <1>2 DEF IInv, TypeOK, DataType, PipeByte
<1>5. CrewInv' /\ RoomToServe'
  BY <1>1 DEF IInv, CrewInv, RoomToServe, Given, Jobs!Given, Jobs!Room
<1>6. PipeInv'
  BY <1>1, <1>2, <1>3 DEF IInv, PipeInv
<1>7. Heard'
  <2>1. ASSUME mpc # "done", p \in ToSet(procList) PROVE wpc[p] # "closed"
    BY <2>1 DEF IInv, TypeOK
  <2>2. \A q \in ToSet(procList) \ {p} : q \in Proc /\ (q \in calling' <=> q \in calling)
    BY <1>1, ListType DEF IInv
  <2> QED BY <1>1, <1>2, <2>1, <2>2 DEF IInv, Heard, AtWork, Given, Jobs!Given
<1> QED BY <1>4, <1>5, <1>6, <1>7 DEF IInv

\* The clients a worker has in hand are a number of clients.
LEMMA InHandNat == ASSUME IInv, NEW p \in Proc PROVE InHand(p) \in Nat
<1>1. crew[p] \in CrewType /\ crew[p].idle <= crew[p].total
  BY DEF IInv, TypeOK, CrewType, CrewInv
<1>2. Given(p) \in Nat
  BY <1>1, ThreadsSane DEF CrewType, Given, Jobs!Given
<1> QED BY <1>2 DEF InHand

LEMMA WorkerIInv ==
    ASSUME IInv, NEW p \in Proc,
           \/ MainStep(p) \/ AcceptIntr(p) \/ ThreadStep(p)
           \/ Die(p) \/ Killed(p) \/ Aborted(p)
    PROVE  IInv'
<1>0. /\ unsaid \subseteq Proc /\ lost \in Nat /\ pipe \in [Proc -> Seq(PipeByte)]
      /\ LF!Busy \in PipeByte /\ LF!Exit \in PipeByte
  BY DEF IInv, TypeOK, DataType, PipeByte
<1>1. CASE Lock(p)
  <2>1. /\ wpc[p] = "top" /\ wpc' = [wpc EXCEPT ![p] = "accept"] /\ Jobs(crew[p])!Room
        /\ UNCHANGED <<mpc, procList, isIdle, idleCount, crew, calling, unsaid, served, lost, pipe>>
        /\ LockKind # "none" => lock = NoProc /\ lock' = p
    BY <1>1 DEF Lock, LF!Goes, LF!TakeLock, masterVars, poolVars, clientVars
  <2>2. LockKind # "none" => lock' = p /\ \A q \in Proc \ {p} : lock = q => lock' = q
    BY <2>1, MTAssumption
  <2> QED BY <1>0, <2>1, <2>2, MoveStep DEF AtWork
<1>2. CASE Leave(p)
  <2>1. /\ wpc[p] = "top" /\ wpc' = [wpc EXCEPT ![p] = "delete"]
        /\ UNCHANGED <<mpc, procList, isIdle, idleCount, crew, calling, unsaid, served, lost, pipe,
                         lock>>
    BY <1>2 DEF Leave, LF!Goes, masterVars, poolVars, clientVars
  <2> QED BY <1>0, <2>1, MoveStep
<1>3. CASE Accept(p)
  <2>1. /\ wpc[p] = "accept" /\ wpc' = [wpc EXCEPT ![p] = "dispatch"]
        /\ UNCHANGED <<mpc, procList, isIdle, idleCount, crew, calling, unsaid, served, lost>>
        /\ LF!Says(p, LF!Busy)
    BY <1>3 DEF Accept, LF!Goes, masterVars, poolVars, clientVars
  <2>2. pipe' \in [Proc -> Seq(PipeByte)] /\ \A q \in Proc \ {p} : pipe'[q] = pipe[q]
    BY <1>0, <2>1, SaysType
  <2>3. Jobs(crew[p])!Room
    BY <2>1 DEF IInv, RoomToServe
  <2>4. LockKind # "none" => \A q \in Proc \ {p} : lock = q => lock' = q
    BY <2>1, UnlockOthers
  <2> QED BY <1>0, <2>1, <2>2, <2>3, <2>4, MoveStep
<1>4. CASE AcceptFail(p)
  <2>1. /\ wpc[p] = "accept"
        /\ UNCHANGED <<mpc, procList, isIdle, idleCount, crew, calling, unsaid, served>>
        /\ lost' = lost \/ lost' = lost + 1
        /\ \/ wpc' = [wpc EXCEPT ![p] = "served"] /\ pipe' = pipe
           \/ wpc' = [wpc EXCEPT ![p] = "delete"] /\ LF!Says(p, LF!Exit)
    BY <1>4 DEF AcceptFail, LF!Goes, masterVars, poolVars, clientVars
  <2>2. (LockKind # "none" => \A q \in Proc \ {p} : lock = q => lock' = q) /\ lost' \in Nat
    BY <1>0, <2>1, UnlockOthers
  <2>3. CASE wpc' = [wpc EXCEPT ![p] = "served"] /\ pipe' = pipe
    BY <1>0, <2>1, <2>2, <2>3, MoveStep DEF AtWork
  <2>4. CASE wpc' = [wpc EXCEPT ![p] = "delete"] /\ LF!Says(p, LF!Exit)
    <3>1. pipe' \in [Proc -> Seq(PipeByte)] /\ \A q \in Proc \ {p} : pipe'[q] = pipe[q]
      BY <1>0, <2>4, SaysType
    <3> QED BY <1>0, <2>1, <2>2, <2>4, <3>1, MoveStep
  <2> QED BY <2>1, <2>3, <2>4
<1>13. CASE AcceptIntr(p)
  <2>1. /\ wpc[p] = "accept" /\ wpc' = [wpc EXCEPT ![p] = "served"]
        /\ UNCHANGED <<mpc, procList, isIdle, idleCount, crew, calling, unsaid, served, lost,
                       pipe>>
    BY <1>13 DEF AcceptIntr, LF!AcceptIntr, LF!Goes, LF!masterVars, poolVars, clientVars
  <2>2. LockKind # "none" => \A q \in Proc \ {p} : lock = q => lock' = q
    BY <2>1, UnlockOthers
  <2> QED BY <1>0, <2>1, <2>2, MoveStep DEF AtWork
<1>5. CASE Dispatch(p)
  BY <1>5, DispatchStep
<1>6. CASE DispatchFail(p)
  <2>1. /\ wpc[p] = "dispatch" /\ wpc' = [wpc EXCEPT ![p] = "served"]
        /\ unsaid' = unsaid \cup {p}
        /\ lost' = lost + 1
        /\ UNCHANGED <<mpc, procList, isIdle, idleCount, crew, calling, pipe, lock, served>>
    BY <1>6 DEF DispatchFail, LF!Goes, masterVars
  <2>2. lost' \in Nat
    BY <1>0, <2>1
  <2> QED BY <1>0, <2>1, <2>2, MoveStep
<1>7. CASE TakePod(p)
  <2>1. /\ wpc[p] = "served"
        /\ UNCHANGED <<mpc, procList, isIdle, idleCount, crew, calling, unsaid, served, lost, pipe,
                         lock>>
        /\ \/ wpc' = [wpc EXCEPT ![p] = "delete"]
           \/ wpc' = [wpc EXCEPT ![p] = "top"]
    BY <1>7 DEF TakePod, LF!Goes, masterVars, poolVars, clientVars
  <2> QED BY <1>0, <2>1, MoveStep DEF AtWork
<1>8. CASE SayExit(p)
  <2>1. /\ UNCHANGED <<mpc, procList, isIdle, idleCount, lock, calling, unsaid, served, lost>>
        /\ crew' = [crew EXCEPT ![p] = NoThread] /\ calling = calling \ {p}
        /\ \/ /\ wpc[p] = "delete" /\ wpc' = [wpc EXCEPT ![p] = "gone"]
              /\ LF!Says(p, LF!Exit)
           \/ wpc[p] = "closed" /\ wpc' = [wpc EXCEPT ![p] = "aborted"] /\ pipe' = pipe
    BY <1>8 DEF SayExit, LF!Goes, masterVars, clientVars
  <2>2. CASE wpc[p] = "delete" /\ wpc' = [wpc EXCEPT ![p] = "gone"] /\ LF!Says(p, LF!Exit)
    <3>1. pipe' \in [Proc -> Seq(PipeByte)] /\ \A q \in Proc \ {p} : pipe'[q] = pipe[q]
      BY <1>0, <2>2, SaysType
    <3> QED BY <1>0, <2>1, <2>2, <3>1, EndStep
  <2>3. CASE wpc[p] = "closed" /\ wpc' = [wpc EXCEPT ![p] = "aborted"] /\ pipe' = pipe
    <3>1. \A q \in Proc : /\ wpc'[q] = IF q = p THEN "aborted" ELSE wpc[q]
                          /\ crew'[q] = IF q = p THEN NoThread ELSE crew[q]
      BY <2>1, <2>3 DEF IInv, TypeOK
    <3>2. crew' \in [Proc -> CrewType]
      BY <2>1, EmptyCrew DEF IInv, TypeOK, CrewType
    <3>3. wpc' \in [Proc -> {"none", "top", "accept", "dispatch", "served", "delete",
                             "gone", "closed", "aborted"}]
      BY <2>3 DEF IInv, TypeOK
    <3>4. TypeOK'
      BY <2>1, <2>3, <3>1, <3>2, <3>3 DEF IInv, TypeOK, CrewType
    <3>5. CrewInv'
      BY <2>1, <3>1, EmptyCrew DEF IInv, CrewInv, Given, Jobs!Given
    <3>6. DataType' /\ PipeInv' /\ RoomToServe' /\ Heard'
      BY <2>1, <2>3, <3>1, ListType DEF IInv, DataType, PipeInv, RoomToServe, Heard, AtWork,
         Given, Jobs!Given, Jobs!Room
    <3> QED BY <3>4, <3>5, <3>6 DEF IInv
  <2> QED BY <2>1, <2>2, <2>3
<1>9. CASE ThreadStep(p)
  BY <1>9, FinishStep, ReportStep DEF ThreadStep
<1>10. CASE Die(p)
  <2>1. /\ wpc[p] \notin {"none", "gone", "closed", "aborted"}
        /\ wpc' = [wpc EXCEPT ![p] = "gone"] /\ crew' = [crew EXCEPT ![p] = NoThread]
        /\ lock' = IF LockKind = "file" /\ lock = p THEN NoProc ELSE lock
        /\ calling' = calling \ {p} /\ lost' = lost + InHand(p)
        /\ UNCHANGED <<mpc, procList, isIdle, idleCount, unsaid, served, pipe>>
    BY <1>10 DEF Die, LF!Die, LF!masterVars
  <2>2. lost' \in Nat
    BY <1>0, <2>1, InHandNat
  <2> QED BY <1>0, <2>1, <2>2, EndStep
<1>11. CASE Killed(p)
  <2>1. /\ mpc = "done" /\ wpc' = [wpc EXCEPT ![p] = "none"]
        /\ crew' = [crew EXCEPT ![p] = NoThread]
        /\ calling' = calling \ {p} /\ lost' = lost + InHand(p)
        /\ UNCHANGED <<mpc, procList, isIdle, idleCount, lock, pipe, unsaid, served>>
    BY <1>11 DEF Killed, LF!Killed, LF!masterVars
  <2>2. \A q \in Proc : /\ wpc'[q] = IF q = p THEN "none" ELSE wpc[q]
                        /\ crew'[q] = IF q = p THEN NoThread ELSE crew[q]
    BY <2>1 DEF IInv, TypeOK
  <2>3. crew' \in [Proc -> CrewType]
    BY <2>1, EmptyCrew DEF IInv, TypeOK, CrewType
  <2>4. wpc' \in [Proc -> {"none", "top", "accept", "dispatch", "served", "delete",
                           "gone", "closed", "aborted"}]
    BY <2>1 DEF IInv, TypeOK
  <2>5. TypeOK'
    BY <1>0, <2>1, <2>2, <2>3, <2>4, InHandNat DEF IInv, TypeOK, CrewType
  <2>6. CrewInv'
    BY <2>1, <2>2, EmptyCrew DEF IInv, CrewInv, Given, Jobs!Given
  <2>7. DataType' /\ PipeInv' /\ RoomToServe' /\ Heard'
    BY <2>1, <2>2 DEF IInv, DataType, PipeInv, RoomToServe, Heard, Jobs!Room
  <2> QED BY <2>5, <2>6, <2>7 DEF IInv
<1>12. CASE Aborted(p)
  <2>1. /\ wpc[p] = "aborted" /\ wpc' = [wpc EXCEPT ![p] = "none"]
        /\ UNCHANGED <<mpc, procList, isIdle, idleCount, crew, calling, unsaid, served, lost,
                       pipe, lock>>
    BY <1>12 DEF Aborted, LF!Goes, masterVars, poolVars, clientVars
  <2>2. \A q \in Proc : wpc'[q] = IF q = p THEN "none" ELSE wpc[q]
    BY <2>1 DEF IInv, TypeOK
  <2>3. wpc' \in [Proc -> {"none", "top", "accept", "dispatch", "served", "delete",
                           "gone", "closed", "aborted"}]
    BY <2>1 DEF IInv, TypeOK
  <2>4. TypeOK'
    BY <2>1, <2>2, <2>3 DEF IInv, TypeOK
  <2>5. DataType' /\ CrewInv' /\ PipeInv' /\ RoomToServe'
    BY <2>1, <2>2 DEF IInv, DataType, CrewInv, PipeInv, RoomToServe, Given, Jobs!Given, Jobs!Room
  <2>6. Heard'
    BY <2>1, <2>2, ListType DEF IInv, Heard, AtWork, Given, Jobs!Given
  <2> QED BY <2>4, <2>5, <2>6 DEF IInv
<1> QED
  BY <1>1, <1>2, <1>3, <1>4, <1>5, <1>6, <1>7, <1>8, <1>9, <1>10, <1>11, <1>12, <1>13
  DEF MainStep

-----------------------------------------------------------------------------
(* The last word of a worker.                                              *)

\* Without the error path of accept() a worker says that it exits with its last
\* step, so that the master closes no pipe that is still in use.
ExitInv ==
    /\ \A p \in Proc : wpc[p] \notin {"closed", "aborted"}
    /\ mpc # "done" =>
          \A p \in Proc : pipe[p] # <<>> /\ Last(pipe[p]) = LF!Exit => wpc[p] = "gone"

LEMMA ExitMaster ==
    ASSUME IInv, ExitInv, MasterStep \/ SelectIntr \/ Shutdown \/ Connect \/ UNCHANGED vars
    PROVE  ExitInv'
<1>0. TypeOK /\ PipeInv /\ wpc \in [Proc -> {"none", "top", "accept", "dispatch", "served",
                                            "delete", "gone", "closed", "aborted"}]
      /\ pipe \in [Proc -> Seq(PipeByte)]
  BY DEF IInv, TypeOK, DataType, PipeByte
<1>a. ASSUME UNCHANGED <<wpc, pipe>>, mpc = "done" => mpc' = "done" PROVE ExitInv'
  BY <1>a DEF ExitInv
<1>b. ASSUME NEW p \in Proc, LF!Get(p), UNCHANGED pipe, mpc # "done" PROVE ExitInv'
  <2>1. wpc[p] = "none" /\ wpc' = [wpc EXCEPT ![p] = "top"] /\ pipe[p] = <<>>
    BY <1>0, <1>b, GetFacts DEF PipeInv
  <2> QED BY <1>0, <1>b, <2>1 DEF ExitInv
<1>1. CASE StartGet
  <2>1. mpc = "start" /\ UNCHANGED pipe
    BY <1>1 DEF StartGet, LF!StartGet
  <2>2. CASE LF!GetNull
    BY <1>a, <2>1, <2>2 DEF LF!GetNull
  <2> QED BY <1>1, <1>b, <2>1, <2>2 DEF StartGet, LF!StartGet
<1>2. CASE Fork
  <2>1. mpc = "fork" /\ UNCHANGED pipe
    BY <1>2 DEF Fork, LF!Fork
  <2>2. CASE UNCHANGED wpc
    BY <1>a, <2>1, <2>2
  <2> QED BY <1>2, <1>b, <2>1, <2>2 DEF Fork, LF!Fork, LF!GetNull
<1>3. CASE Recv
  <2>1. PICK p \in Proc : LF!RecvFrom(p)
    BY <1>3 DEF Recv, LF!Recv
  <2>2. /\ mpc = "recv" /\ mpc' = "recv" /\ pipe' = [pipe EXCEPT ![p] = <<>>]
        /\ \/ UNCHANGED wpc
           \/ LF!RemoveEntry(p) /\ pipe[p] # <<>> /\ Last(pipe[p]) = LF!Exit
           \/ LF!RemoveEntry(p) /\ wpc[p] = "gone"
    BY <2>1 DEF LF!RecvFrom, LF!SetIdle, LF!Told, LF!Last, Last
  <2>3. pipe'[p] = <<>> /\ \A q \in Proc \ {p} : pipe'[q] = pipe[q]
    BY <1>0, <2>2
  <2>4. CASE UNCHANGED wpc
    BY <2>2, <2>3, <2>4 DEF ExitInv
  <2>5. CASE LF!RemoveEntry(p)
    <3>1. wpc[p] = "gone" \/ wpc' = wpc
      BY <2>2 DEF ExitInv
    <3>2. wpc[p] = "gone" => wpc' = [wpc EXCEPT ![p] = "none"]
      BY <1>0, <2>5, RemoveFacts
    <3> QED BY <1>0, <2>2, <2>3, <2>4, <3>1, <3>2 DEF ExitInv
  <2> QED BY <2>2, <2>4, <2>5
<1>4. CASE StartEnd \/ Select \/ SelectIntr \/ Trim \/ Shutdown \/ Connect \/ UNCHANGED vars
  <2>1. UNCHANGED <<wpc, pipe>> /\ (mpc = "done" => mpc' = "done")
    BY <1>4 DEF StartEnd, Select, SelectIntr, Trim, Shutdown, Connect, LF!StartEnd, LF!Select,
       LF!SelectIntr, LF!Trim, LF!Shutdown, LF!Connect, LF!masterVars, LF!workerVars, vars,
       masterVars, poolVars, clientVars
  <2> QED BY <1>a, <2>1
<1> QED BY <1>1, <1>2, <1>3, <1>4 DEF MasterStep

LEMMA ExitWorker ==
    ASSUME "accept_fail" \notin Faults, IInv, ExitInv, NEW p \in Proc,
           \/ MainStep(p) \/ AcceptIntr(p) \/ ThreadStep(p)
           \/ Die(p) \/ Killed(p) \/ Aborted(p)
    PROVE  ExitInv'
<1>0. /\ wpc \in [Proc -> {"none", "top", "accept", "dispatch", "served",
                           "delete", "gone", "closed", "aborted"}]
      /\ pipe \in [Proc -> Seq(PipeByte)] /\ CrewInv
      /\ LF!Busy \in PipeByte /\ LF!Exit \in PipeByte /\ LF!Idle \in PipeByte
      /\ LF!Busy # LF!Exit /\ LF!Idle # LF!Exit
      /\ UNCHANGED mpc
  BY DEF IInv, TypeOK, DataType, PipeByte, LF!Busy, LF!Exit, LF!Idle, MainStep, Lock, Leave,
     Accept, AcceptFail, AcceptIntr, LF!AcceptIntr, Dispatch, DispatchFail, TakePod, SayExit, ThreadStep, Finish, Report,
     Die, Killed, Aborted, LF!Die, LF!Killed, LF!masterVars, masterVars
<1>a. ASSUME NEW to \in {"top", "accept", "dispatch", "served", "delete", "gone"},
             wpc' = [wpc EXCEPT ![p] = to], wpc[p] # "gone", UNCHANGED pipe
      PROVE  ExitInv'
  <2>1. \A q \in Proc : wpc'[q] = IF q = p THEN to ELSE wpc[q]
    BY <1>0, <1>a
  <2> QED BY <1>0, <1>a, <2>1 DEF ExitInv
<1>1. CASE Lock(p) \/ Leave(p) \/ Dispatch(p) \/ DispatchFail(p) \/ TakePod(p)
  <2>1. UNCHANGED pipe /\ \/ LF!Goes(p, "top", "accept") \/ LF!Goes(p, "top", "delete")
                          \/ LF!Goes(p, "dispatch", "served")
                          \/ LF!Goes(p, "served", "delete") \/ LF!Goes(p, "served", "top")
    BY <1>1 DEF Lock, Leave, Dispatch, DispatchFail, TakePod
  <2> QED BY <1>a, <2>1 DEF LF!Goes
<1>2. CASE Accept(p)
  <2>1. wpc' = [wpc EXCEPT ![p] = "dispatch"] /\ wpc[p] = "accept" /\ LF!Says(p, LF!Busy)
    BY <1>2 DEF Accept, LF!Goes
  <2>2. /\ \A q \in Proc \ {p} : pipe'[q] = pipe[q] /\ wpc'[q] = wpc[q]
        /\ Last(pipe'[p]) = LF!Busy /\ wpc'[p] = "dispatch"
    BY <1>0, <2>1, SaysType
  <2> QED BY <1>0, <2>2 DEF ExitInv
<1>3. CASE SayExit(p)
  <2>1. wpc' = [wpc EXCEPT ![p] = "gone"] /\ LF!Says(p, LF!Exit)
    BY <1>3 DEF SayExit, LF!Goes, ExitInv
  <2>2. /\ \A q \in Proc \ {p} : pipe'[q] = pipe[q] /\ wpc'[q] = wpc[q]
        /\ wpc'[p] = "gone"
    BY <1>0, <2>1, SaysType
  <2> QED BY <1>0, <2>2 DEF ExitInv
<1>4. CASE ThreadStep(p)
  <2>1. /\ UNCHANGED wpc
        /\ UNCHANGED pipe \/ (p \in calling /\ LF!Says(p, LF!Idle))
    BY <1>4 DEF ThreadStep, Finish, Report
  <2>2. CASE p \in calling /\ LF!Says(p, LF!Idle)
    <3>1. /\ \A q \in Proc \ {p} : pipe'[q] = pipe[q]
          /\ Last(pipe'[p]) = LF!Idle
      BY <1>0, <2>2, SaysType
    <3> QED BY <1>0, <2>1, <3>1 DEF ExitInv
  <2> QED BY <1>0, <2>1, <2>2 DEF ExitInv
<1>5. CASE Die(p)
  <2>1. wpc' = [wpc EXCEPT ![p] = "gone"] /\ wpc[p] # "gone" /\ UNCHANGED pipe
    BY <1>5 DEF Die, LF!Die
  <2> QED BY <1>a, <2>1
<1>6. CASE Killed(p)
  <2>1. mpc = "done" /\ wpc' = [wpc EXCEPT ![p] = "none"]
    BY <1>6 DEF Killed, LF!Killed
  <2> QED BY <1>0, <2>1 DEF ExitInv
<1>8. ~AcceptIntr(p)
  BY DEF AcceptIntr, LF!AcceptIntr
<1>7. ~Aborted(p)
  BY DEF Aborted, LF!Goes, ExitInv
<1> QED BY <1>1, <1>2, <1>3, <1>4, <1>5, <1>6, <1>7, <1>8 DEF MainStep, AcceptFail

-----------------------------------------------------------------------------
(* The theorems.                                                           *)

LEMMA InitInv == Init => IInv
<1> SUFFICES ASSUME Init PROVE IInv
  OBVIOUS
<1>1. /\ mpc = "start" /\ procList = <<>> /\ isIdle = [p \in Proc |-> FALSE]
      /\ idleCount = 0 /\ wpc = [p \in Proc |-> "none"] /\ pipe = [p \in Proc |-> <<>>]
      /\ crew = [p \in Proc |-> NoThread] /\ calling = {} /\ unsaid = {}
      /\ served = 0 /\ lost = 0
  BY DEF Init, LF!Init
<1>2. procList \in Seq(Proc) /\ DOMAIN procList = {} /\ ToSet(procList) = {}
  BY <1>1, EmptyList
<1>3. IsInjective(procList)
  BY <1>2 DEF IsInjective
<1>4. idleCount = Cardinality({p \in ToSet(procList) : isIdle[p]})
  <2>1. {p \in ToSet(procList) : isIdle[p]} = {}
    BY <1>2
  <2> QED BY <1>1, <2>1, FS_EmptySet
<1>5. crew \in [Proc -> CrewType]
  BY <1>1, EmptyCrew
<1>6. TypeOK
  BY <1>1, <1>2, <1>3, <1>4, <1>5 DEF TypeOK, CrewType
<1>7. DataType
  <2>1. <<>> \in Seq({LF!Busy, LF!Idle, LF!Exit})
    OBVIOUS
  <2> QED BY <1>1, <2>1 DEF DataType
<1>8. CrewInv
  BY <1>1, EmptyCrew DEF CrewInv, Given, Jobs!Given
<1>9. PipeInv /\ RoomToServe /\ Heard
  BY <1>1, <1>2 DEF PipeInv, RoomToServe, Heard
<1> QED BY <1>6, <1>7, <1>8, <1>9 DEF IInv

\* The inductive invariant holds in every state of the server.
THEOREM Invariance == Spec => []IInv
<1>1. IInv /\ [Next]_vars => IInv'
  <2> SUFFICES ASSUME IInv, [Next]_vars PROVE IInv'
    OBVIOUS
  <2> QED BY MasterIInv, WorkerIInv DEF Next
<1> QED BY InitInv, <1>1, PTL DEF Spec

\* The variables keep their types, idleCount is the number of entries marked
\* idle, and one worker at a time is in accept() when there is a lock.
THEOREM TypeCorrect == Spec => []TypeOK
<1>1. IInv => TypeOK
  BY DEF IInv
<1> QED BY Invariance, <1>1, PTL

\* After wait4idler() a worker has a thread for the connection it accepts,
\* whatever its threads do in between.
THEOREM RoomSafety == Spec => []RoomToServe
<1>1. IInv => RoomToServe
  BY DEF IInv
<1> QED BY Invariance, <1>1, PTL

\* The master hears of every worker that has no connection any more, although
\* two threads of the worker write to the pipe.
THEOREM HeardSafety == Spec => []IdleHeard
<1>1. IInv => IdleHeard
  BY DEF IInv, Heard, IdleHeard
<1> QED BY Invariance, <1>1, PTL

\* The assertion on the write of the last byte, spprocmtsvr.cpp:170, can fail
\* only behind an error of accept() that is not an aborted connection: while
\* there is none, the last word of each worker reaches the master, however pods,
\* deaths, shutdown() and the threads of the worker fall.
THEOREM WordHeard == "accept_fail" \notin Faults => (Spec => []LastWord)
<1> SUFFICES ASSUME "accept_fail" \notin Faults PROVE Spec => []LastWord
  OBVIOUS
<1>1. Init => ExitInv
  BY DEF Init, LF!Init, ExitInv
<1>2. IInv /\ ExitInv /\ [Next]_vars => ExitInv'
  BY ExitMaster, ExitWorker DEF Next
<1>3. ExitInv => LastWord
  BY DEF ExitInv, LastWord
<1> QED BY <1>1, <1>2, <1>3, Invariance, PTL DEF Spec

=============================================================================
