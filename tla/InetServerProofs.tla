-------------------------- MODULE InetServerProofs ---------------------------
(***************************************************************************)
(* Proofs of the safety properties of InetServer, for every set of pipes   *)
(* and clients, every setting of the server and every number of faults.    *)
(***************************************************************************)
EXTENDS InetServer, ListLemmas, FiniteSetTheorems, TLAPS

-----------------------------------------------------------------------------
(* The inductive invariant.                                                *)

\* Processes the server has: in the pool, busy, or returned by get().
Held == {c \in Conn : c \in idle \/ lease[c] # NoConn}

DataType ==
    /\ inbox \in [Conn -> Seq(Client)]
    /\ outbox \in [Conn -> Seq(Conn)]
    /\ info \in Conn \cup {NoConn}
    /\ IsFiniteSet(idle)
    /\ \A c \in Conn : lease[c] \in {c, NoConn} /\ (c \in idle => lease[c] = NoConn)

\* Where start() is says what it has in hand: the process that get() returned
\* and the client that was accepted.  It looks at the listening socket only
\* when there is room for another busy process.
Control ==
    /\ info # NoConn <=> mpc \in {"accept", "send"}
    /\ mpc = "send" => client \in Client
    /\ mpc = "start" => busyList = <<>>
    /\ mpc = "get" => Len(busyList) < MaxProc

\* A process that is not busy has nothing to read and nothing written, and
\* nothing can reach a dead one.
Quiet ==
    mpc # "done" =>
       \A c \in Conn \ ToSet(busyList) : inbox[c] = <<>> /\ outbox[c] = <<>>
DeadQuiet == \A c \in Conn : worker[c] = "dead" => inbox[c] = <<>>

Mail == Quiet /\ DeadQuiet /\ BusyHeard /\ IdleEmpty

\* A process that the server has was made by fork() and may have died since; it
\* does not end by itself.
HeldUp == mpc # "done" => \A c \in Held : worker[c] \in {"up", "dead"}

IInv == TypeOK /\ DataType /\ Control /\ Mail /\ ProcLimit /\ HeldUp /\ Placed

-----------------------------------------------------------------------------
(* The arguments of the server and its list.                               *)

LEMMA ArgsSane ==
    /\ MinIdleProc \in Nat /\ MaxIdleProc \in Nat /\ MaxProc \in Nat
    /\ ProcBound \in Nat /\ MinIdleProc <= ProcBound /\ MaxProc <= ProcBound
<1>1. MinIdleProc \in Nat
  BY ArgsAssumption DEF MinIdleProc
<1>2. MaxIdleProc \in Nat
  BY <1>1, ArgsAssumption DEF MaxIdleProc
<1>3. MaxProc \in Nat
  BY <1>2, ArgsAssumption DEF MaxProc
<1> QED BY <1>1, <1>2, <1>3 DEF ProcBound

LEMMA ListType ==
    ASSUME TypeOK
    PROVE  /\ busyList \in Seq(Conn) /\ Len(busyList) \in Nat
           /\ DOMAIN busyList = 1..Len(busyList)
           /\ Distinct(busyList) /\ ToSet(busyList) \subseteq Conn
           /\ IsFiniteSet(ToSet(busyList))
           /\ Cardinality(ToSet(busyList)) = Len(busyList)
<1>1. /\ busyList \in Seq(Conn) /\ Len(busyList) \in Nat
      /\ DOMAIN busyList = 1..Len(busyList)
  BY DEF TypeOK
<1>2. Distinct(busyList)
  BY <1>1 DEF TypeOK, Distinct, IsInjective
<1>3. ToSet(busyList) \subseteq Conn
  BY <1>1 DEF ToSet
<1>4. IsFiniteSet(ToSet(busyList)) /\ Cardinality(ToSet(busyList)) = Len(busyList)
  BY <1>1, <1>2, DistinctCardinality
<1> QED BY <1>1, <1>2, <1>3, <1>4

LEMMA DistinctInjective ==
    ASSUME NEW S, NEW s \in Seq(S), Distinct(s)
    PROVE  IsInjective(s)
BY DEF Distinct, IsInjective

\* takeItem() takes one process out of busyList.
LEMMA UnbusyList ==
    ASSUME TypeOK, NEW c \in Conn, Unbusy(c)
    PROVE  /\ busyList' \in Seq(Conn) /\ IsInjective(busyList')
           /\ Len(busyList') = Len(busyList) - 1
           /\ c \in ToSet(busyList)
           /\ ToSet(busyList') = ToSet(busyList) \ {c}
<1>1. PICK i \in 1..Len(busyList) : busyList[i] = c /\ busyList' = RemoveAt(busyList, i)
  BY DEF Unbusy
<1>2. /\ busyList' \in Seq(Conn) /\ Distinct(busyList')
      /\ Len(busyList') = Len(busyList) - 1
      /\ ToSet(busyList') = ToSet(busyList) \ {c}
  BY <1>1, ListType, RemoveOne
<1>3. IsInjective(busyList')
  BY <1>2, DistinctInjective
<1>4. c \in ToSet(busyList)
  BY <1>1, ListType DEF ToSet
<1> QED BY <1>2, <1>3, <1>4

\* The process that was lent is lent no more: what save() and erase() do.
Returned(c) ==
    /\ idle' \in {idle, idle \cup {c}}
    /\ lease' = [lease EXCEPT ![c] = NoConn]
    /\ worker' \in [Conn -> {"none", "up", "dead", "stuck"}]
    /\ \A d \in Conn : worker'[d] = worker[d] \/ (d = c /\ worker[c] = "dead")
    /\ worker[c] = "dead" => worker'[c] \in {"dead", "none"}
    /\ UNCHANGED inbox

LEMMA EraseFacts ==
    ASSUME TypeOK, NEW c \in Conn, Erase(c)
    PROVE  Returned(c) /\ outbox' = [outbox EXCEPT ![c] = <<>>]
<1>1. /\ idle' = idle /\ lease' = [lease EXCEPT ![c] = NoConn] /\ inbox' = inbox
      /\ worker' = [worker EXCEPT ![c] = IF @ = "dead" THEN "none" ELSE @]
      /\ outbox' = [outbox EXCEPT ![c] = <<>>]
  BY DEF Erase, Close, Pool!Retire
<1> QED BY <1>1 DEF Returned, TypeOK

LEMMA SaveFacts ==
    ASSUME TypeOK, DataType, NEW c \in Conn, lease[c] = c, Save(c)
    PROVE  Returned(c)
<1>1. CASE Pool!GiveBack(c) /\ UNCHANGED <<worker, inbox>>
  <2>1. /\ idle' = idle \cup {c} /\ lease' = [lease EXCEPT ![c] = NoConn]
        /\ inbox' = inbox /\ worker' = worker
    BY <1>1 DEF Pool!GiveBack
  <2> QED BY <2>1 DEF Returned, TypeOK
<1>2. CASE Pool!Retire(c) /\ Close(c)
  BY <1>2, EraseFacts DEF Erase
<1> QED BY <1>1, <1>2 DEF Save

\* save() leaves a process that it keeps as it is.
LEMMA SaveUp ==
    ASSUME TypeOK, DataType, HeldUp, mpc # "done", NEW c \in Conn, lease[c] = c, Save(c)
    PROVE  worker'[c] \in {"up", "dead"} \/ c \notin idle'
<1>1. CASE Pool!GiveBack(c) /\ UNCHANGED <<worker, inbox>>
  BY <1>1, InetAssumption DEF HeldUp, Held
<1>2. CASE Pool!Retire(c) /\ Close(c)
  BY <1>2, InetAssumption DEF Pool!Retire, DataType
<1> QED BY <1>1, <1>2 DEF Save

LEMMA HeldFacts ==
    ASSUME TypeOK, DataType
    PROVE  /\ Held = idle \cup ToSet(busyList) \cup ({info} \ {NoConn})
           /\ IsFiniteSet(Held) /\ Cardinality(Held) \in Nat
<1>1. Held = idle \cup ToSet(busyList) \cup ({info} \ {NoConn})
  BY DEF Held, TypeOK
<1>2. IsFiniteSet({info} \ {NoConn})
  BY FS_Singleton, FS_Difference
<1>3. IsFiniteSet(idle \cup ToSet(busyList))
  BY ListType, FS_Union DEF DataType
<1>4. IsFiniteSet(Held)
  BY <1>1, <1>2, <1>3, FS_Union
<1> QED BY <1>1, <1>4, FS_CardinalityType

-----------------------------------------------------------------------------
(* Types, and where the loop is.                                           *)

LEMMA FaultType ==
    ASSUME TypeOK, NEW f, Fault(f)
    PROVE  faults' \in 0..FaultBound
BY InetAssumption DEF Fault, TypeOK

LEMMA NewIdleType ==
    ASSUME TypeOK, DataType, Control, NewIdle, UNCHANGED <<loopVars, fate>>,
           mpc' \in {"start", "top"}, mpc \in {"start", "scan"}, mpc = mpc' \/ mpc' = "top"
    PROVE  TypeOK' /\ DataType' /\ Control'
<1>1. PICK c \in Conn : /\ Pool!Prefork(c) /\ worker' = [worker EXCEPT ![c] = "up"]
                        /\ UNCHANGED <<inbox, outbox, faults>>
  BY DEF NewIdle
<1>2. idle' = idle \cup {c} /\ UNCHANGED lease /\ lease[c] = NoConn
  BY <1>1 DEF Pool!Prefork, Pool!Lent, DataType
<1>3. IsFiniteSet(idle')
  BY <1>2, FS_AddElement DEF DataType
<1>4. TypeOK'
  BY <1>1, <1>2 DEF TypeOK, loopVars
<1>5. DataType'
  BY <1>1, <1>2, <1>3 DEF DataType, loopVars
<1>6. Control'
  BY DEF Control, loopVars
<1> QED BY <1>4, <1>5, <1>6

LEMMA NoProcessType ==
    ASSUME TypeOK, NoProcess
    PROVE  /\ UNCHANGED <<idle, lease, worker, inbox, outbox>>
           /\ faults' \in 0..FaultBound
<1>1. UNCHANGED <<idle, lease, worker, inbox, outbox>>
  BY DEF NoProcess, poolVars, workerVars
<1>2. CASE Fault("get_fail")
  BY <1>1, <1>2, FaultType
<1>3. CASE UNCHANGED faults
  BY <1>1, <1>3 DEF TypeOK
<1> QED BY <1>2, <1>3 DEF NoProcess

LEMMA GetFacts ==
    ASSUME TypeOK, DataType, Control, NEW c \in Conn, Get(c)
    PROVE  /\ idle' = idle \ {c} /\ lease[c] = NoConn /\ lease' = [lease EXCEPT ![c] = c]
           /\ c \notin ToSet(busyList) /\ info = NoConn /\ info' = c
           /\ \/ c \in idle /\ worker' = worker
              \/ idle = {} /\ worker' = [worker EXCEPT ![c] = "up"]
           /\ mpc = "get" /\ mpc' = "accept"
           /\ UNCHANGED <<rset, forced, client, busyList, stop, inbox, outbox, fate, faults>>
<1>1. /\ idle' = idle \ {c} /\ lease[c] = NoConn /\ lease' = [lease EXCEPT ![c] = c]
      /\ info' = c /\ mpc = "get" /\ mpc' = "accept"
      /\ UNCHANGED <<rset, forced, client, busyList, stop, inbox, outbox, fate, faults>>
  BY DEF Get, Pool!Lend
<1>2. c \notin ToSet(busyList) /\ info = NoConn
  BY <1>1 DEF TypeOK, Control
<1>3. \/ c \in idle /\ worker' = worker
      \/ idle = {} /\ worker' = [worker EXCEPT ![c] = "up"]
  BY DEF Get
<1> QED BY <1>1, <1>2, <1>3

\* The process that was lent is given back or erased, and nothing else is.
LEMMA ReturnedType ==
    ASSUME TypeOK, DataType, NEW c \in Conn, Returned(c),
           busyList' \in Seq(Conn), IsInjective(busyList'), info' \in Conn \cup {NoConn},
           ToSet(busyList') \cup ({info'} \ {NoConn})
              = (ToSet(busyList) \cup ({info} \ {NoConn})) \ {c},
           info' \notin ToSet(busyList'),
           rset' \subseteq ToSet(busyList') \cup {Listen},
           mpc' \in {"top", "scan"},
           fate' \in [Client -> {"new", "pending", "accepted", "served", "lost"}],
           faults' \in 0..FaultBound, outbox' \in [Conn -> Seq(Conn)]
    PROVE  TypeOK' /\ DataType'
<1>1. /\ idle' \in {idle, idle \cup {c}} /\ lease' = [lease EXCEPT ![c] = NoConn]
      /\ worker' \in [Conn -> {"none", "up", "dead", "stuck"}] /\ UNCHANGED inbox
  BY DEF Returned
<1>2. IsFiniteSet(idle')
  <2>1. IsFiniteSet(idle) /\ IsFiniteSet(idle \cup {c})
    BY FS_AddElement DEF DataType
  <2> QED BY <1>1, <2>1
<1>3. idle' \subseteq Conn /\ lease' \in [Conn -> Conn \cup {NoConn}]
  BY <1>1 DEF TypeOK
<1>4. {d \in Conn : lease'[d] # NoConn} = ToSet(busyList') \cup ({info'} \ {NoConn})
  <2>1. {d \in Conn : lease'[d] # NoConn} = {d \in Conn : lease[d] # NoConn} \ {c}
    BY <1>1 DEF TypeOK
  <2> QED BY <2>1 DEF TypeOK
<1>5. TypeOK'
  BY <1>1, <1>3, <1>4 DEF TypeOK
<1>6. DataType'
  <2>1. \A d \in Conn : lease'[d] \in {d, NoConn} /\ (d \in idle' => lease'[d] = NoConn)
    BY <1>1 DEF DataType, TypeOK
  <2> QED BY <1>1, <1>2, <2>1 DEF DataType
<1> QED BY <1>5, <1>6

LEMMA AfterListenFacts ==
    ASSUME TypeOK, AfterListen
    PROVE  /\ rset' = rset \ {Listen} /\ mpc' \in {"top", "scan"}
           /\ info' = NoConn /\ client' = NoClient
           /\ NoConn \notin ToSet(busyList)
<1>1. NoConn \notin ToSet(busyList)
  BY ListType, InetAssumption
<1> QED BY <1>1 DEF AfterListen

LEMMA ControlAfter ==
    ASSUME Control, mpc' \in {"top", "scan"}, info' = NoConn
    PROVE  Control'
BY DEF Control

LEMMA ScanType ==
    ASSUME TypeOK, DataType, Control, NEW c \in Conn, Scan(c)
    PROVE  TypeOK' /\ DataType' /\ Control'
<1>1. /\ mpc = "scan" /\ mpc' = "scan" /\ rset' = rset \ {c} /\ Unbusy(c)
      /\ UNCHANGED <<info, client, fate, faults>>
  BY DEF Scan
<1>2. info = NoConn
  BY <1>1 DEF Control
<1>3. /\ busyList' \in Seq(Conn) /\ IsInjective(busyList') /\ c \in ToSet(busyList)
      /\ ToSet(busyList') = ToSet(busyList) \ {c}
  BY <1>1, UnbusyList
<1>4. lease[c] = c
  BY <1>3 DEF TypeOK, DataType
<1>5. Returned(c) /\ outbox' = [outbox EXCEPT ![c] = <<>>]
  BY <1>4, SaveFacts, EraseFacts DEF Scan
<1>6. outbox' \in [Conn -> Seq(Conn)]
  BY <1>5 DEF DataType
<1>7. NoConn \notin ToSet(busyList')
  BY <1>3, ListType, InetAssumption
<1>8. rset' \subseteq ToSet(busyList') \cup {Listen}
  BY <1>1, <1>3 DEF TypeOK
<1>9. TypeOK' /\ DataType'
  BY <1>1, <1>2, <1>3, <1>5, <1>6, <1>7, <1>8, ReturnedType DEF TypeOK
<1> QED BY <1>1, <1>2, <1>9, ControlAfter

LEMMA WorkerType ==
    ASSUME TypeOK, DataType, Control, NEW c \in Conn, WorkerStep(c) \/ WorkerDie(c)
    PROVE  TypeOK' /\ DataType' /\ Control'
<1>1. UNCHANGED <<idle, lease, mpc, rset, info, client, busyList>>
  BY DEF WorkerStep, WorkerServe, WorkerEof, WorkerDie, poolVars, loopVars
<1>2. Control'
  BY <1>1 DEF Control
<1>3. CASE WorkerServe(c)
  <2>1. /\ worker' \in [Conn -> {"none", "up", "dead", "stuck"}]
        /\ inbox' \in [Conn -> Seq(Client)] /\ outbox' \in [Conn -> Seq(Conn)]
    <3>1. inbox[c] \in Seq(Client) /\ inbox[c] # <<>> /\ outbox[c] \in Seq(Conn)
      BY <1>3 DEF WorkerServe, DataType
    <3>2. Tail(inbox[c]) \in Seq(Client) /\ Append(outbox[c], c) \in Seq(Conn)
      BY <3>1
    <3>3. inbox' = [inbox EXCEPT ![c] = Tail(inbox[c])]
      BY <1>3 DEF WorkerServe
    <3>4. \/ outbox' = [outbox EXCEPT ![c] = Append(outbox[c], c)] /\ UNCHANGED worker
          \/ worker' = [worker EXCEPT ![c] = "stuck"] /\ UNCHANGED outbox
      BY <1>3 DEF WorkerServe
    <3>5. inbox' \in [Conn -> Seq(Client)] /\ outbox' \in [Conn -> Seq(Conn)]
      BY <3>2, <3>3, <3>4 DEF DataType
    <3> QED BY <3>4, <3>5 DEF TypeOK
  <2>2. fate' \in [Client -> {"new", "pending", "accepted", "served", "lost"}]
    BY <1>3 DEF WorkerServe, TypeOK
  <2>3. UNCHANGED faults
    BY <1>3 DEF WorkerServe
  <2> QED BY <1>1, <1>2, <2>1, <2>2, <2>3 DEF TypeOK, DataType
<1>4. CASE WorkerEof(c)
  BY <1>1, <1>2, <1>4 DEF WorkerEof, TypeOK, DataType
<1>5. CASE WorkerDie(c)
  <2>1. faults' \in 0..FaultBound
    BY <1>5, FaultType DEF WorkerDie
  <2>2. fate' \in [Client -> {"new", "pending", "accepted", "served", "lost"}]
    BY <1>5 DEF WorkerDie, TypeOK
  <2>3. /\ worker' \in [Conn -> {"none", "up", "dead", "stuck"}]
        /\ inbox' \in [Conn -> Seq(Client)] /\ UNCHANGED outbox
    BY <1>5 DEF WorkerDie, TypeOK, DataType
  <2> QED BY <1>1, <1>2, <2>1, <2>2, <2>3 DEF TypeOK, DataType
<1> QED BY <1>3, <1>4, <1>5 DEF WorkerStep

LEMMA TypeStep ==
    TypeOK /\ DataType /\ Control /\ [Next]_vars => TypeOK' /\ DataType' /\ Control'
<1> SUFFICES ASSUME TypeOK, DataType, Control, [Next]_vars
             PROVE  TypeOK' /\ DataType' /\ Control'
  OBVIOUS
<1> DEFINE Goal == TypeOK' /\ DataType' /\ Control'
<1>1. CASE StartEnsure
  <2>1. mpc = "start" /\ UNCHANGED <<loopVars, fate>>
    BY <1>1 DEF StartEnsure
  <2>2. ASSUME NewIdle, UNCHANGED mpc PROVE Goal
    BY <2>1, <2>2, NewIdleType
  <2>3. ASSUME NoProcess, mpc' = "top" PROVE Goal
    BY <2>1, <2>3, NoProcessType DEF TypeOK, DataType, Control, loopVars
  <2> QED BY <1>1, <2>2, <2>3 DEF StartEnsure
<1>2. CASE StartEnd \/ Stopped \/ SelectStop
  <2>1. /\ UNCHANGED <<idle, lease, worker, inbox, outbox, rset, info, client, busyList, fate,
                       faults>>
        /\ mpc \notin {"accept", "send"}
        /\ \/ mpc' \in {"top", "done", "scan"}
           \/ mpc' = "get" /\ Len(busyList) < MaxProc
    BY <1>2 DEF StartEnd, Stopped, SelectStop, LookAt, MayAccept, poolVars, loopVars, workerVars
  <2> QED BY <2>1 DEF TypeOK, DataType, Control
<1>3. CASE Top
  <2>1. /\ UNCHANGED <<idle, lease, worker, inbox, outbox, info, client, busyList, fate, faults>>
        /\ mpc = "top" /\ mpc' = "select"
        /\ rset' \subseteq ToSet(busyList) \cup {Listen}
    BY <1>3 DEF Top, poolVars, workerVars
  <2> QED BY <2>1 DEF TypeOK, DataType, Control
<1>4. CASE Select
  <2>1. /\ UNCHANGED <<idle, lease, worker, inbox, outbox, info, client, busyList, fate, faults>>
        /\ mpc = "select" /\ rset' \subseteq rset
        /\ mpc' = "scan" \/ (mpc' = "get" /\ Len(busyList) < MaxProc)
    BY <1>4 DEF Select, LookAt, MayAccept, poolVars, workerVars
  <2> QED BY <2>1 DEF TypeOK, DataType, Control
<1>5. ASSUME NEW c \in Conn, Get(c) PROVE Goal
  <2>1. IsFiniteSet(idle')
    <3>1. IsFiniteSet(idle \ {c})
      BY FS_RemoveElement DEF DataType
    <3> QED BY <1>5, <3>1, GetFacts
  <2>2. {d \in Conn : lease'[d] # NoConn} = {d \in Conn : lease[d] # NoConn} \cup {c}
    BY <1>5, GetFacts, InetAssumption DEF TypeOK
  <2>3. {d \in Conn : lease'[d] # NoConn} = ToSet(busyList') \cup ({info'} \ {NoConn})
    BY <1>5, <2>2, GetFacts, InetAssumption DEF TypeOK
  <2>4. /\ worker' \in [Conn -> {"none", "up", "dead", "stuck"}] /\ idle' \subseteq Conn
        /\ lease' \in [Conn -> Conn \cup {NoConn}]
    BY <1>5, GetFacts DEF TypeOK
  <2>5. TypeOK'
    BY <1>5, <2>3, <2>4, GetFacts DEF TypeOK
  <2>6. DataType'
    <3>1. /\ lease' = [lease EXCEPT ![c] = c] /\ info' = c /\ idle' = idle \ {c}
          /\ UNCHANGED <<inbox, outbox>>
      BY <1>5, GetFacts
    <3>2. \A d \in Conn : lease'[d] \in {d, NoConn} /\ (d \in idle' => lease'[d] = NoConn)
      BY <3>1 DEF DataType, TypeOK
    <3> QED BY <2>1, <3>1, <3>2 DEF DataType
  <2>7. Control'
    BY <1>5, GetFacts, InetAssumption DEF Control
  <2> QED BY <2>5, <2>6, <2>7
<1>6. ASSUME NEW c \in Conn, GetDrop(c) PROVE Goal
  <2>1. /\ idle' = idle \ {c} /\ worker' = [worker EXCEPT ![c] = "none"]
        /\ UNCHANGED <<lease, mpc, rset, info, client, busyList, inbox, outbox, fate, faults>>
    BY <1>6 DEF GetDrop, Pool!Discard, loopVars
  <2>2. IsFiniteSet(idle')
    BY <2>1, FS_RemoveElement DEF DataType
  <2> QED BY <2>1, <2>2 DEF TypeOK, DataType, Control
<1>7. CASE GetNull
  <2>1. NoProcess /\ AfterListen /\ mpc = "get" /\ UNCHANGED <<busyList, fate>>
    BY <1>7 DEF GetNull
  <2>2. info = NoConn
    BY <2>1 DEF Control
  <2> QED
    BY <2>1, <2>2, NoProcessType, AfterListenFacts, ControlAfter DEF TypeOK, DataType
<1>8. ASSUME NEW k \in Client, Accept(k) PROVE Goal
  <2>1. /\ mpc = "accept" /\ mpc' = "send" /\ client' = k
        /\ fate' = [fate EXCEPT ![k] = "accepted"]
        /\ UNCHANGED <<idle, lease, worker, inbox, outbox, rset, info, busyList, faults>>
    BY <1>8 DEF Accept, poolVars, workerVars
  <2> QED BY <2>1 DEF TypeOK, DataType, Control
<1>9. CASE AcceptFail
  <2>1. /\ mpc = "accept" /\ Save(info) /\ UNCHANGED <<outbox, busyList>> /\ AfterListen
        /\ faults' \in 0..FaultBound
        /\ \/ UNCHANGED fate
           \/ \E k \in Pending : fate' = [fate EXCEPT ![k] = "lost"]
    BY <1>9, FaultType DEF AcceptFail
  <2>2. info \in Conn /\ lease[info] = info /\ info \notin ToSet(busyList)
    BY <2>1 DEF TypeOK, DataType, Control
  <2>3. Returned(info)
    BY <2>1, <2>2, SaveFacts
  <2>4. fate' \in [Client -> {"new", "pending", "accepted", "served", "lost"}]
    BY <2>1 DEF TypeOK
  <2>5. TypeOK' /\ DataType'
    <3>1. /\ rset' = rset \ {Listen} /\ mpc' \in {"top", "scan"} /\ info' = NoConn
          /\ NoConn \notin ToSet(busyList)
      BY <2>1, AfterListenFacts
    <3>2. ToSet(busyList') \cup ({info'} \ {NoConn})
             = (ToSet(busyList) \cup ({info} \ {NoConn})) \ {info}
      BY <2>1, <2>2, <3>1
    <3>3. outbox' \in [Conn -> Seq(Conn)] /\ faults' \in 0..FaultBound
      BY <2>1, <2>4 DEF DataType, TypeOK
    <3> QED BY <2>1, <2>2, <2>3, <2>4, <3>1, <3>2, <3>3, ReturnedType DEF TypeOK
  <2> QED BY <2>1, <2>5, AfterListenFacts, ControlAfter
<1>10. CASE SendFd
  <2>1. /\ mpc = "send" /\ AfterListen /\ busyList' = Append(busyList, info)
        /\ inbox' = [inbox EXCEPT ![info] = Append(@, client)]
        /\ UNCHANGED <<idle, lease, worker, outbox, fate, faults>>
    BY <1>10 DEF SendFd, poolVars
  <2>2. info \in Conn /\ client \in Client /\ info \notin ToSet(busyList)
    BY <2>1 DEF TypeOK, DataType, Control
  <2>3. /\ busyList' \in Seq(Conn) /\ Distinct(busyList')
        /\ ToSet(busyList') = ToSet(busyList) \cup {info}
    BY <2>1, <2>2, ListType, AppendNew
  <2>4. IsInjective(busyList') /\ NoConn \notin ToSet(busyList')
    BY <2>2, <2>3, ListType, InetAssumption, DistinctInjective
  <2>5. TypeOK'
    BY <2>1, <2>2, <2>3, <2>4, AfterListenFacts, InetAssumption DEF TypeOK
  <2>6. DataType'
    BY <2>1, <2>2, AfterListenFacts DEF DataType
  <2> QED BY <2>1, <2>5, <2>6, AfterListenFacts, ControlAfter
<1>11. CASE SendFail
  <2>1. /\ mpc = "send" /\ Erase(info) /\ AfterListen
        /\ fate' = [fate EXCEPT ![client] = "lost"] /\ UNCHANGED <<busyList, faults>>
    BY <1>11 DEF SendFail
  <2>2. info \in Conn /\ lease[info] = info /\ info \notin ToSet(busyList)
    BY <2>1 DEF TypeOK, DataType, Control
  <2>3. Returned(info) /\ outbox' = [outbox EXCEPT ![info] = <<>>]
    BY <2>1, <2>2, EraseFacts
  <2>4. /\ fate' \in [Client -> {"new", "pending", "accepted", "served", "lost"}]
        /\ outbox' \in [Conn -> Seq(Conn)]
    <3>1. fate' \in [Client -> {"new", "pending", "accepted", "served", "lost"}]
      BY <2>1 DEF TypeOK
    <3>2. outbox' \in [Conn -> Seq(Conn)]
      BY <2>2, <2>3 DEF DataType
    <3> QED BY <3>1, <3>2
  <2>5. TypeOK' /\ DataType'
    <3>1. /\ rset' = rset \ {Listen} /\ mpc' \in {"top", "scan"} /\ info' = NoConn
          /\ NoConn \notin ToSet(busyList)
      BY <2>1, AfterListenFacts
    <3>2. ToSet(busyList') \cup ({info'} \ {NoConn})
             = (ToSet(busyList) \cup ({info} \ {NoConn})) \ {info}
      BY <2>1, <2>2, <3>1
    <3>3. outbox' \in [Conn -> Seq(Conn)] /\ faults' \in 0..FaultBound
      BY <2>1, <2>4 DEF DataType, TypeOK
    <3> QED BY <2>1, <2>2, <2>3, <2>4, <3>1, <3>2, <3>3, ReturnedType DEF TypeOK
  <2> QED BY <2>1, <2>5, AfterListenFacts, ControlAfter
<1>12. ASSUME NEW c \in Conn, Scan(c) PROVE Goal
  BY <1>12, ScanType
<1>13. CASE Ensure
  <2>1. mpc = "scan" /\ mpc' = "top" /\ UNCHANGED <<loopVars, fate>>
    BY <1>13 DEF Ensure
  <2>2. ASSUME NewIdle PROVE Goal
    BY <2>1, <2>2, NewIdleType
  <2>3. ASSUME NoProcess PROVE Goal
    BY <2>1, <2>3, NoProcessType DEF TypeOK, DataType, Control, loopVars
  <2>4. ASSUME UNCHANGED <<poolVars, workerVars, faults>> PROVE Goal
    BY <2>1, <2>4 DEF TypeOK, DataType, Control, loopVars, poolVars, workerVars
  <2> QED BY <1>13, <2>2, <2>3, <2>4 DEF Ensure
<1>14. ASSUME NEW c \in Conn, WorkerStep(c) \/ WorkerDie(c) PROVE Goal
  BY <1>14, WorkerType
<1>15. ASSUME NEW k \in Client, Connect(k) PROVE Goal
  BY <1>15 DEF Connect, TypeOK, DataType, Control, poolVars, loopVars, workerVars
<1>16. CASE Shutdown \/ UNCHANGED vars
  BY <1>16 DEF Shutdown, vars, TypeOK, DataType, Control, poolVars, loopVars, workerVars
<1> QED
  BY <1>1, <1>2, <1>3, <1>4, <1>5, <1>6, <1>7, <1>8, <1>9, <1>10, <1>11, <1>12, <1>13,
     <1>14, <1>15, <1>16 DEF Next, ServerStep

-----------------------------------------------------------------------------
(* What is on its way to and from the workers.                             *)

\* A busy process that is given back or erased leaves nothing behind.
LEMMA ReturnedMail ==
    ASSUME TypeOK, Mail, NEW c \in Conn, Returned(c), outbox'[c] = <<>>, inbox[c] = <<>>,
           \A d \in Conn \ {c} : outbox'[d] = outbox[d],
           ToSet(busyList') = ToSet(busyList) \ {c}, mpc # "done"
    PROVE  Mail'
<1>1. /\ idle' \in {idle, idle \cup {c}} /\ UNCHANGED inbox
      /\ \A d \in Conn \ {c} : worker'[d] = worker[d]
      /\ worker'[c] = "dead" => worker[c] = "dead"
  BY DEF Returned
<1>2. ToSet(busyList) \subseteq Conn /\ idle \subseteq Conn
  BY ListType DEF TypeOK
<1>3. Quiet'
  BY <1>1 DEF Mail, Quiet
<1>4. DeadQuiet'
  BY <1>1 DEF Mail, DeadQuiet
<1>5. BusyHeard'
  <2>1. \A d \in ToSet(busyList') : /\ d \in ToSet(busyList) /\ worker'[d] = worker[d]
                                    /\ inbox'[d] = inbox[d] /\ outbox'[d] = outbox[d]
    BY <1>1, <1>2
  <2> QED BY <2>1 DEF Mail, BusyHeard
<1>6. IdleEmpty'
  BY <1>1, <1>2 DEF Mail, IdleEmpty
<1> QED BY <1>3, <1>4, <1>5, <1>6 DEF Mail

LEMMA WorkerMail ==
    ASSUME TypeOK, DataType, Mail, NEW c \in Conn, WorkerStep(c) \/ WorkerDie(c)
    PROVE  Mail'
<1>1. UNCHANGED <<idle, lease, mpc, busyList>>
  BY DEF WorkerStep, WorkerServe, WorkerEof, WorkerDie, poolVars, loopVars
<1>2. ToSet(busyList) \subseteq Conn /\ idle \subseteq Conn
  BY ListType DEF TypeOK
<1>3. CASE WorkerServe(c)
  <2>1. /\ inbox[c] \in Seq(Client) /\ inbox[c] # <<>> /\ outbox[c] \in Seq(Conn)
        /\ worker[c] = "up" /\ inbox' = [inbox EXCEPT ![c] = Tail(inbox[c])]
    BY <1>3 DEF WorkerServe, DataType
  <2>2. \A d \in Conn \ {c} : /\ worker'[d] = worker[d] /\ inbox'[d] = inbox[d]
                              /\ outbox'[d] = outbox[d]
    BY <1>3 DEF WorkerServe, TypeOK, DataType
  <2>3. /\ Len(Tail(inbox[c])) = Len(inbox[c]) - 1 /\ Len(inbox[c]) \in Nat
        /\ Len(Append(outbox[c], c)) = Len(outbox[c]) + 1 /\ Len(outbox[c]) \in Nat
    BY <2>1
  <2>4. c \notin idle
    BY <2>1 DEF Mail, IdleEmpty
  <2>5. mpc # "done" => c \in ToSet(busyList)
    BY <2>1 DEF Mail, Quiet
  <2>6. Quiet' /\ IdleEmpty'
    BY <1>1, <1>2, <2>2, <2>4, <2>5 DEF Mail, Quiet, IdleEmpty
  <2>7. DeadQuiet'
    <3>1. worker'[c] # "dead"
      BY <1>3, <2>1 DEF WorkerServe, TypeOK
    <3> QED BY <2>2, <3>1 DEF Mail, DeadQuiet
  <2>8. BusyHeard'
    <3> SUFFICES ASSUME mpc # "done" PROVE BusyHeard'
      BY <1>1 DEF BusyHeard
    <3>1. Open(c)
      BY <2>5 DEF Open, TypeOK
    <3>2. outbox' = [outbox EXCEPT ![c] = Append(outbox[c], c)]
      BY <1>3, <3>1 DEF WorkerServe
    <3>3. Len(inbox[c]) + Len(outbox[c]) = 1
      BY <2>1, <2>5 DEF Mail, BusyHeard
    <3>4. inbox'[c] = Tail(inbox[c]) /\ outbox'[c] = Append(outbox[c], c)
      BY <2>1, <3>2 DEF DataType
    <3>5. Len(inbox'[c]) + Len(outbox'[c]) = 1
      <4>1. \A m, n \in Nat : m + n = 1 => (m - 1) + (n + 1) = 1
        OBVIOUS
      <4>2. (Len(inbox[c]) - 1) + (Len(outbox[c]) + 1) = 1
        BY <2>3, <3>3, <4>1, Zenon
      <4> QED BY <2>3, <3>4, <4>2, Zenon
    <3> QED BY <1>1, <1>2, <2>2, <3>5 DEF Mail, BusyHeard
  <2> QED BY <2>6, <2>7, <2>8 DEF Mail
<1>4. CASE WorkerEof(c)
  <2>1. /\ worker[c] = "up" /\ ~Open(c) /\ worker' = [worker EXCEPT ![c] = "none"]
        /\ UNCHANGED <<inbox, outbox>>
    BY <1>4 DEF WorkerEof
  <2>2. mpc # "done" => c \notin ToSet(busyList)
    BY <2>1 DEF Open, TypeOK
  <2> QED
    BY <1>1, <1>2, <2>1, <2>2 DEF Mail, Quiet, DeadQuiet, BusyHeard, IdleEmpty, TypeOK
<1>5. CASE WorkerDie(c)
  <2>1. /\ worker' = [worker EXCEPT ![c] = "dead"] /\ inbox' = [inbox EXCEPT ![c] = <<>>]
        /\ UNCHANGED outbox
    BY <1>5 DEF WorkerDie
  <2> QED
    BY <1>1, <1>2, <2>1 DEF Mail, Quiet, DeadQuiet, BusyHeard, IdleEmpty, TypeOK, DataType
<1> QED BY <1>3, <1>4, <1>5 DEF WorkerStep

LEMMA MailStep ==
    TypeOK /\ DataType /\ Control /\ Mail /\ [Next]_vars => Mail'
<1> SUFFICES ASSUME TypeOK, DataType, Control, Mail, [Next]_vars PROVE Mail'
  OBVIOUS
<1>0. ToSet(busyList) \subseteq Conn /\ idle \subseteq Conn
  BY ListType DEF TypeOK
<1>a. ASSUME UNCHANGED <<idle, worker, inbox, outbox, busyList>>,
             mpc = "done" => mpc' = "done"
      PROVE  Mail'
  BY <1>a DEF Mail, Quiet, DeadQuiet, BusyHeard, IdleEmpty
\* A process that was not busy joins or leaves the pool.
<1>b. ASSUME NEW c \in Conn, c \notin ToSet(busyList), mpc # "done",
             idle' \subseteq idle \cup {c},
             NEW w, worker' = [worker EXCEPT ![c] = w],
             UNCHANGED <<inbox, outbox, busyList>>
      PROVE  Mail'
  <2>1. inbox[c] = <<>> /\ outbox[c] = <<>>
    BY <1>b DEF Mail, Quiet
  <2>2. \A d \in Conn \ {c} : worker'[d] = worker[d]
    BY <1>b DEF TypeOK
  <2>3. Quiet' /\ IdleEmpty' /\ DeadQuiet'
    BY <1>0, <1>b, <2>1, <2>2 DEF Mail, Quiet, IdleEmpty, DeadQuiet
  <2>4. BusyHeard'
    BY <1>0, <1>b, <2>2 DEF Mail, BusyHeard
  <2> QED BY <2>3, <2>4 DEF Mail
<1>c. ASSUME NewIdle, mpc # "done", UNCHANGED busyList PROVE Mail'
  <2>1. PICK c \in Conn : /\ Pool!Prefork(c) /\ worker' = [worker EXCEPT ![c] = "up"]
                          /\ UNCHANGED <<inbox, outbox>>
    BY <1>c DEF NewIdle
  <2>2. lease[c] = NoConn /\ idle' = idle \cup {c}
    BY <2>1 DEF Pool!Prefork, Pool!Lent, DataType
  <2>3. c \notin ToSet(busyList)
    BY <2>2 DEF TypeOK
  <2> QED BY <1>b, <1>c, <2>1, <2>2, <2>3
<1>d. ASSUME NoProcess, mpc # "done", UNCHANGED busyList PROVE Mail'
  BY <1>a, <1>d, NoProcessType
<1>1. CASE StartEnsure
  BY <1>1, <1>c, <1>d DEF StartEnsure, loopVars
<1>2. CASE Ensure
  BY <1>2, <1>a, <1>c, <1>d DEF Ensure, loopVars, poolVars, workerVars
<1>3. CASE StartEnd \/ Stopped \/ SelectStop \/ Top \/ Select \/ Shutdown
  BY <1>3, <1>a DEF StartEnd, Stopped, SelectStop, Top, Select, Shutdown, poolVars, loopVars,
                    workerVars
<1>4. ASSUME NEW c \in Conn, Get(c) PROVE Mail'
  <2>1. /\ c \notin ToSet(busyList) /\ mpc # "done" /\ idle' = idle \ {c}
        /\ UNCHANGED <<inbox, outbox, busyList>>
        /\ worker' = worker \/ worker' = [worker EXCEPT ![c] = "up"]
    BY <1>4, GetFacts
  <2>2. worker = [worker EXCEPT ![c] = worker[c]]
    BY DEF TypeOK
  <2> QED BY <1>b, <2>1, <2>2
<1>5. ASSUME NEW c \in Conn, GetDrop(c) PROVE Mail'
  <2>1. /\ idle' = idle \ {c} /\ worker' = [worker EXCEPT ![c] = "none"] /\ mpc # "done"
        /\ UNCHANGED <<inbox, outbox, busyList>>
    BY <1>5 DEF GetDrop, Pool!Discard, loopVars
  <2>2. c \in idle
    BY <1>5 DEF GetDrop, Pool!Discard
  <2>3. c \notin ToSet(busyList)
    BY <2>2 DEF TypeOK, DataType
  <2> QED BY <1>b, <2>1, <2>3
<1>6. CASE GetNull
  BY <1>6, <1>d DEF GetNull
<1>7. ASSUME NEW k \in Client, Accept(k) PROVE Mail'
  BY <1>7, <1>a DEF Accept, poolVars, workerVars
<1>8. CASE AcceptFail
  <2>1. mpc = "accept" /\ Save(info) /\ UNCHANGED <<outbox, busyList>>
    BY <1>8 DEF AcceptFail
  <2>2. info \in Conn /\ lease[info] = info /\ info \notin ToSet(busyList)
    BY <2>1 DEF TypeOK, DataType, Control
  <2>3. Returned(info) /\ inbox[info] = <<>> /\ outbox[info] = <<>>
    BY <2>1, <2>2, SaveFacts DEF Mail, Quiet
  <2>4. ToSet(busyList') = ToSet(busyList) \ {info}
    BY <2>1, <2>2
  <2> QED BY <2>1, <2>2, <2>3, <2>4, ReturnedMail
<1>9. CASE SendFd
  <2>1. /\ mpc = "send" /\ busyList' = Append(busyList, info) /\ worker[info] # "dead"
        /\ inbox' = [inbox EXCEPT ![info] = Append(@, client)]
        /\ UNCHANGED <<idle, lease, worker, outbox>>
    BY <1>9 DEF SendFd, poolVars
  <2>2. info \in Conn /\ client \in Client /\ info \notin ToSet(busyList) /\ lease[info] = info
    BY <2>1 DEF TypeOK, DataType, Control
  <2>3. ToSet(busyList') = ToSet(busyList) \cup {info}
    BY <2>1, <2>2, ListType, AppendNew
  <2>4. inbox[info] = <<>> /\ outbox[info] = <<>>
    BY <2>1, <2>2 DEF Mail, Quiet
  <2>5. Len(inbox'[info]) = 1 /\ Len(outbox'[info]) = 0
    <3>1. inbox'[info] = <<client>>
      BY <2>1, <2>2, <2>4 DEF DataType
    <3> QED BY <2>1, <2>4, <3>1
  <2>6. \A d \in Conn \ {info} : inbox'[d] = inbox[d]
    BY <2>1 DEF DataType
  <2>7. info \notin idle
    BY <2>2, InetAssumption DEF DataType
  <2>8. Quiet' /\ DeadQuiet'
    BY <1>0, <2>1, <2>3, <2>6 DEF Mail, Quiet, DeadQuiet
  <2>9. IdleEmpty'
    BY <1>0, <2>1, <2>6, <2>7 DEF Mail, IdleEmpty
  <2>10. Len(inbox'[info]) + Len(outbox'[info]) = 1
    BY <2>5
  <2>11. BusyHeard'
    BY <1>0, <2>1, <2>3, <2>6, <2>10 DEF Mail, BusyHeard
  <2> QED BY <2>8, <2>9, <2>11 DEF Mail
<1>10. CASE SendFail
  <2>1. mpc = "send" /\ Erase(info) /\ UNCHANGED busyList
    BY <1>10 DEF SendFail
  <2>2. info \in Conn /\ info \notin ToSet(busyList)
    BY <2>1 DEF TypeOK, DataType, Control
  <2>3. /\ Returned(info) /\ inbox[info] = <<>>
        /\ outbox' = [outbox EXCEPT ![info] = <<>>]
    BY <2>1, <2>2, EraseFacts DEF Mail, Quiet
  <2>4. /\ ToSet(busyList') = ToSet(busyList) \ {info} /\ outbox'[info] = <<>>
        /\ \A d \in Conn \ {info} : outbox'[d] = outbox[d]
    BY <2>1, <2>2, <2>3 DEF DataType
  <2> QED BY <2>1, <2>2, <2>3, <2>4, ReturnedMail
<1>11. ASSUME NEW c \in Conn, Scan(c) PROVE Mail'
  <2>1. mpc = "scan" /\ Unbusy(c)
    BY <1>11 DEF Scan
  <2>2. c \in ToSet(busyList) /\ ToSet(busyList') = ToSet(busyList) \ {c}
    BY <2>1, UnbusyList
  <2>3. lease[c] = c
    BY <2>2 DEF TypeOK, DataType
  <2>4. Returned(c) /\ outbox' = [outbox EXCEPT ![c] = <<>>]
    BY <1>11, <2>3, SaveFacts, EraseFacts DEF Scan
  <2>5. inbox[c] = <<>>
    <3>1. CASE worker[c] = "dead"
      BY <3>1 DEF Mail, DeadQuiet
    <3>2. CASE worker[c] # "dead"
      <4>1. Len(inbox[c]) + Len(outbox[c]) = 1 /\ outbox[c] # <<>>
        BY <1>11, <2>1, <2>2, <3>2 DEF Mail, BusyHeard, Scan
      <4>2. /\ inbox[c] \in Seq(Client) /\ outbox[c] \in Seq(Conn)
        BY DEF DataType
      <4>3. Len(outbox[c]) \in Nat \ {0} /\ Len(inbox[c]) \in Nat
        BY <4>1, <4>2, EmptySeq
      <4>4. \A m \in Nat, n \in Nat \ {0} : m + n = 1 => m = 0
        OBVIOUS
      <4>5. Len(inbox[c]) = 0
        BY <4>1, <4>3, <4>4, Zenon
      <4> QED BY <4>2, <4>5, EmptySeq
    <3> QED BY <3>1, <3>2
  <2>6. outbox'[c] = <<>> /\ \A d \in Conn \ {c} : outbox'[d] = outbox[d]
    BY <2>4 DEF DataType
  <2> QED BY <2>1, <2>2, <2>4, <2>5, <2>6, ReturnedMail
<1>12. ASSUME NEW c \in Conn, WorkerStep(c) \/ WorkerDie(c) PROVE Mail'
  BY <1>12, WorkerMail
<1>13. ASSUME NEW k \in Client, Connect(k) PROVE Mail'
  BY <1>13, <1>a DEF Connect, poolVars, loopVars, workerVars
<1>14. CASE UNCHANGED vars
  BY <1>14, <1>a DEF vars, poolVars, loopVars, workerVars
<1> QED
  BY <1>1, <1>2, <1>3, <1>4, <1>5, <1>6, <1>7, <1>8, <1>9, <1>10, <1>11, <1>12, <1>13,
     <1>14 DEF Next, ServerStep

-----------------------------------------------------------------------------
(* The number of processes.                                                *)

\* Another process is held when there was room for it.
LEMMA OneMore ==
    ASSUME TypeOK, DataType, NEW c, NEW k \in Int, Cardinality(Held) < k, k <= ProcBound,
           Held' \subseteq Held \cup {c}
    PROVE  ProcLimit'
<1>1. IsFiniteSet(Held \cup {c}) /\ Cardinality(Held \cup {c}) <= Cardinality(Held) + 1
      /\ Cardinality(Held) \in Nat
  BY HeldFacts, FS_AddElement
<1>2. /\ IsFiniteSet(Held') /\ Cardinality(Held') \in Nat
      /\ Cardinality(Held') <= Cardinality(Held \cup {c})
  BY <1>1, FS_Subset, FS_CardinalityType
<1>3. Cardinality(Held \cup {c}) \in Nat
  BY <1>1, FS_CardinalityType
<1>4. Cardinality(Held') <= ProcBound
  BY <1>1, <1>2, <1>3, ArgsSane
<1> QED BY <1>4 DEF ProcLimit, Held

LEMMA NoMore ==
    ASSUME TypeOK, DataType, ProcLimit, Held' \subseteq Held
    PROVE  ProcLimit'
<1>1. IsFiniteSet(Held) /\ Cardinality(Held) \in Nat /\ Cardinality(Held) <= ProcBound
  BY HeldFacts DEF ProcLimit, Held
<1>2. Cardinality(Held') <= Cardinality(Held) /\ Cardinality(Held') \in Nat
  BY <1>1, FS_Subset, FS_CardinalityType
<1>3. Cardinality(Held') <= ProcBound
  BY <1>1, <1>2, ArgsSane
<1> QED BY <1>3 DEF ProcLimit, Held

LEMMA LimitStep ==
    TypeOK /\ DataType /\ Control /\ ProcLimit /\ [Next]_vars => ProcLimit'
<1> SUFFICES ASSUME TypeOK, DataType, Control, ProcLimit, [Next]_vars PROVE ProcLimit'
  OBVIOUS
<1>a. ASSUME UNCHANGED <<idle, lease>> PROVE ProcLimit'
  BY <1>a, NoMore DEF Held
<1>b. ASSUME NEW c \in Conn, Returned(c), lease[c] = c PROVE ProcLimit'
  <2>1. c \in Held
    BY <1>b, InetAssumption DEF Held
  <2>2. Held' \subseteq Held
    BY <1>b, <2>1 DEF Held, Returned, TypeOK
  <2> QED BY <2>2, NoMore
<1>c. ASSUME NewIdle, NEW k \in Int, Cardinality(Held) < k, k <= ProcBound PROVE ProcLimit'
  <2>1. PICK c \in Conn : Pool!Prefork(c)
    BY <1>c DEF NewIdle
  <2>2. Held' \subseteq Held \cup {c}
    BY <2>1 DEF Pool!Prefork, Held
  <2> QED BY <1>c, <2>2, OneMore
<1>d. Cardinality(idle) \in Nat /\ IsFiniteSet(idle)
  BY FS_CardinalityType DEF DataType
<1>1. CASE StartEnsure
  <2>1. mpc = "start" /\ Cardinality(idle) < MinIdleProc
    BY <1>1 DEF StartEnsure
  <2>2. Held = idle
    BY <2>1, HeldFacts, EmptyList DEF Control
  <2>3. CASE NewIdle
    BY <1>c, <2>1, <2>2, <2>3, ArgsSane
  <2>4. CASE NoProcess
    BY <1>a, <2>4, NoProcessType
  <2> QED BY <1>1, <2>3, <2>4 DEF StartEnsure
<1>2. CASE Ensure
  <2>1. mpc = "scan"
    BY <1>2 DEF Ensure
  <2>2. Held = idle \cup ToSet(busyList)
    BY <2>1, HeldFacts DEF Control
  <2>3. /\ Cardinality(idle \cap ToSet(busyList)) \in Nat
        /\ Cardinality(Held) = Cardinality(idle) + Cardinality(ToSet(busyList))
                                 - Cardinality(idle \cap ToSet(busyList))
    <3>1. IsFiniteSet(idle \cap ToSet(busyList))
      BY <1>d, FS_Subset
    <3> QED BY <1>d, <2>2, <3>1, ListType, FS_Union, FS_CardinalityType
  <2>4. Cardinality(Held) <= Cardinality(idle) + Len(busyList) /\ Cardinality(Held) \in Nat
    BY <1>d, <2>3, ListType, HeldFacts
  <2>5. CASE Cardinality(idle) + Len(busyList) < MaxProc /\ NewIdle
    <3>1. Cardinality(Held) < MaxProc
      BY <1>d, <2>4, <2>5, ListType, ArgsSane
    <3> QED BY <1>c, <2>5, <3>1, ArgsSane
  <2>6. CASE NoProcess
    BY <1>a, <2>6, NoProcessType
  <2>7. CASE UNCHANGED poolVars
    BY <1>a, <2>7 DEF poolVars
  <2> QED BY <1>2, <2>5, <2>6, <2>7 DEF Ensure
<1>3. ASSUME NEW c \in Conn, Get(c) PROVE ProcLimit'
  <2>1. /\ idle' = idle \ {c} /\ lease' = [lease EXCEPT ![c] = c] /\ mpc = "get"
        /\ c \in idle \/ idle = {}
    BY <1>3, GetFacts
  <2>2. Held' \subseteq Held \cup {c}
    BY <2>1 DEF Held, TypeOK
  <2>3. CASE c \in idle
    <3>1. Held' \subseteq Held
      BY <2>2, <2>3 DEF Held
    <3> QED BY <3>1, NoMore
  <2>4. CASE idle = {}
    <3>1. Held = ToSet(busyList) /\ Len(busyList) < MaxProc
      BY <2>1, <2>4, HeldFacts DEF Control
    <3>2. Cardinality(Held) < MaxProc
      BY <3>1, ListType
    <3> QED BY <2>2, <3>2, OneMore, ArgsSane
  <2> QED BY <2>1, <2>3, <2>4
<1>4. ASSUME NEW c \in Conn, GetDrop(c) PROVE ProcLimit'
  <2>1. Held' \subseteq Held
    BY <1>4 DEF GetDrop, Pool!Discard, Held
  <2> QED BY <2>1, NoMore
<1>5. CASE GetNull
  BY <1>5, <1>a, NoProcessType DEF GetNull
<1>6. CASE AcceptFail
  <2>1. Save(info) /\ info \in Conn /\ lease[info] = info
    BY <1>6 DEF AcceptFail, TypeOK, DataType, Control
  <2> QED BY <1>b, <2>1, SaveFacts
<1>7. CASE SendFail
  <2>1. Erase(info) /\ info \in Conn /\ lease[info] = info
    BY <1>7 DEF SendFail, TypeOK, DataType, Control
  <2> QED BY <1>b, <2>1, EraseFacts
<1>8. ASSUME NEW c \in Conn, Scan(c) PROVE ProcLimit'
  <2>1. c \in ToSet(busyList)
    BY <1>8, UnbusyList DEF Scan
  <2>2. lease[c] = c
    BY <2>1 DEF TypeOK, DataType
  <2> QED BY <1>8, <1>b, <2>2, SaveFacts, EraseFacts DEF Scan
<1>9. CASE StartEnd \/ Stopped \/ SelectStop \/ Top \/ Select \/ Shutdown \/ SendFd
  BY <1>9, <1>a DEF StartEnd, Stopped, SelectStop, Top, Select, Shutdown, SendFd, poolVars
<1>10. ASSUME NEW k \in Client, Accept(k) \/ Connect(k) PROVE ProcLimit'
  BY <1>10, <1>a DEF Accept, Connect, poolVars
<1>11. ASSUME NEW c \in Conn, WorkerStep(c) \/ WorkerDie(c) PROVE ProcLimit'
  BY <1>11, <1>a DEF WorkerStep, WorkerServe, WorkerEof, WorkerDie, poolVars
<1>12. CASE UNCHANGED vars
  BY <1>12, <1>a DEF vars, poolVars
<1> QED
  BY <1>1, <1>2, <1>3, <1>4, <1>5, <1>6, <1>7, <1>8, <1>9, <1>10, <1>11, <1>12
     DEF Next, ServerStep

-----------------------------------------------------------------------------
(* Where the clients are.                                                  *)

LEMMA HeldUpStep ==
    TypeOK /\ DataType /\ Control /\ HeldUp /\ [Next]_vars => HeldUp'
<1> SUFFICES ASSUME TypeOK, DataType, Control, HeldUp, [Next]_vars PROVE HeldUp'
  OBVIOUS
<1>a. ASSUME UNCHANGED <<idle, lease, worker>>, mpc = "done" => mpc' = "done"
      PROVE  HeldUp'
  BY <1>a DEF HeldUp, Held
<1>b. ASSUME NEW c \in Conn, Returned(c), lease[c] = c, mpc # "done",
             worker'[c] \in {"up", "dead"} \/ c \notin idle'
      PROVE  HeldUp'
  <2>1. c \in Held
    BY <1>b, InetAssumption DEF Held
  <2>2. lease'[c] = NoConn /\ \A d \in Held' : d \in Held /\ d \in Conn /\ (d = c => c \in idle')
    BY <1>b, <2>1 DEF Held, Returned, TypeOK
  <2> QED BY <1>b, <2>1, <2>2 DEF HeldUp, Returned
<1>c. ASSUME NEW c \in Conn, worker' = [worker EXCEPT ![c] = "up"], Held' \subseteq Held \cup {c},
             mpc # "done"
      PROVE  HeldUp'
  BY <1>c DEF HeldUp, TypeOK, Held
<1>d. ASSUME NewIdle, mpc # "done" PROVE HeldUp'
  <2>1. PICK c \in Conn : Pool!Prefork(c) /\ worker' = [worker EXCEPT ![c] = "up"]
    BY <1>d DEF NewIdle
  <2>2. Held' \subseteq Held \cup {c}
    BY <2>1 DEF Pool!Prefork, Held
  <2> QED BY <1>c, <1>d, <2>1, <2>2
<1>e. ASSUME NoProcess, mpc # "done" PROVE HeldUp'
  BY <1>a, <1>e, NoProcessType
<1>1. CASE StartEnsure \/ Ensure
  BY <1>1, <1>a, <1>d, <1>e DEF StartEnsure, Ensure, poolVars, workerVars
<1>2. CASE StartEnd \/ Stopped \/ SelectStop \/ Top \/ Select \/ Shutdown \/ SendFd
  BY <1>2, <1>a DEF StartEnd, Stopped, SelectStop, Top, Select, Shutdown, SendFd, poolVars,
                    workerVars
<1>3. ASSUME NEW c \in Conn, Get(c) PROVE HeldUp'
  <2>1. /\ idle' = idle \ {c} /\ lease' = [lease EXCEPT ![c] = c] /\ mpc = "get"
        /\ \/ c \in idle /\ worker' = worker
           \/ worker' = [worker EXCEPT ![c] = "up"]
    BY <1>3, GetFacts
  <2>2. Held' \subseteq Held \cup {c}
    BY <2>1 DEF Held, TypeOK
  <2>3. CASE c \in idle /\ worker' = worker
    <3>1. Held' \subseteq Held
      BY <2>2, <2>3 DEF Held
    <3> QED BY <2>1, <2>3, <3>1 DEF HeldUp
  <2> QED BY <1>c, <2>1, <2>2, <2>3
<1>4. ASSUME NEW c \in Conn, GetDrop(c) PROVE HeldUp'
  <2>1. /\ idle' = idle \ {c} /\ UNCHANGED lease /\ c \in idle /\ mpc = "get"
        /\ worker' = [worker EXCEPT ![c] = "none"]
    BY <1>4 DEF GetDrop, Pool!Discard
  <2>2. Held' \subseteq Held \ {c}
    BY <2>1 DEF Held, DataType
  <2> QED BY <2>1, <2>2 DEF HeldUp, TypeOK
<1>5. CASE GetNull
  BY <1>5, <1>e DEF GetNull
<1>6. CASE AcceptFail
  <2>1. Save(info) /\ info \in Conn /\ lease[info] = info /\ mpc = "accept"
    BY <1>6 DEF AcceptFail, TypeOK, DataType, Control
  <2> QED BY <1>b, <2>1, SaveFacts, SaveUp
<1>7. CASE SendFail
  <2>1. Erase(info) /\ info \in Conn /\ lease[info] = info /\ mpc = "send"
    BY <1>7 DEF SendFail, TypeOK, DataType, Control
  <2>2. info \notin idle'
    BY <2>1, InetAssumption DEF Erase, Pool!Retire, DataType
  <2> QED BY <1>b, <2>1, <2>2, EraseFacts
<1>8. ASSUME NEW c \in Conn, Scan(c) PROVE HeldUp'
  <2>1. lease[c] = c /\ c \notin idle
    BY <1>8, UnbusyList, InetAssumption DEF TypeOK, DataType, Scan
  <2>2. CASE Save(c)
    BY <1>8, <1>b, <2>1, <2>2, SaveFacts, SaveUp DEF Scan
  <2>3. CASE Erase(c)
    <3>1. c \notin idle'
      BY <2>1, <2>3 DEF Erase, Pool!Retire
    <3> QED BY <1>8, <1>b, <2>1, <2>3, <3>1, EraseFacts DEF Scan
  <2> QED BY <1>8, <2>2, <2>3 DEF Scan
<1>9. ASSUME NEW k \in Client, Accept(k) \/ Connect(k) PROVE HeldUp'
  BY <1>9, <1>a DEF Accept, Connect, poolVars, workerVars
<1>10. ASSUME NEW c \in Conn, WorkerStep(c) \/ WorkerDie(c) PROVE HeldUp'
  <2>1. UNCHANGED <<idle, lease, mpc>>
    BY <1>10 DEF WorkerStep, WorkerServe, WorkerEof, WorkerDie, poolVars
  <2>2. \A d \in Conn : worker'[d] = worker[d] \/ worker'[d] = "dead" \/ (d = c /\ ~Open(c))
    BY <1>10 DEF WorkerStep, WorkerServe, WorkerEof, WorkerDie, TypeOK
  <2> QED BY <2>1, <2>2 DEF HeldUp, Held, Open
<1>11. CASE UNCHANGED vars
  BY <1>11, <1>a DEF vars, poolVars, workerVars
<1> QED
  BY <1>1, <1>2, <1>3, <1>4, <1>5, <1>6, <1>7, <1>8, <1>9, <1>10, <1>11
     DEF Next, ServerStep

LEMMA PlacedStep ==
    TypeOK /\ DataType /\ Control /\ Mail /\ HeldUp /\ Placed /\ [Next]_vars => Placed'
<1> SUFFICES ASSUME TypeOK, DataType, Control, Mail, HeldUp, Placed, [Next]_vars
             PROVE  Placed'
  OBVIOUS
<1>0. /\ \A k \in Client : fate[k] = "accepted" =>
             (mpc = "send" /\ client = k) \/ \E c \in Conn : inbox[c] = <<k>>
      /\ \A c \in Conn : inbox[c] # <<>> =>
             worker[c] = "up" /\ \E k \in Client : inbox[c] = <<k>> /\ fate[k] = "accepted"
      /\ \A c, d \in Conn : inbox[c] # <<>> /\ inbox[c] = inbox[d] => c = d
      /\ mpc = "send" => fate[client] = "accepted" /\ \A c \in Conn : inbox[c] # <<client>>
      /\ \A j, k : <<j>> = <<k>> => j = k
      /\ \A k : <<k>> # <<>>
  BY DEF Placed
\* Nothing is sent or taken: only processes without a client change.
<1>a. ASSUME UNCHANGED inbox, \A c \in Conn : worker'[c] = worker[c] \/ inbox[c] = <<>>,
             \A k \in Client : fate'[k] = "accepted" <=> fate[k] = "accepted",
             mpc # "send", mpc' # "send"
      PROVE  Placed'
  BY <1>0, <1>a DEF Placed
<1>b. ASSUME UNCHANGED <<inbox, fate>>, NEW c \in Conn, Returned(c), mpc # "send", mpc' # "send"
      PROVE  Placed'
  <2>1. \A d \in Conn : worker'[d] = worker[d] \/ inbox[d] = <<>>
    BY <1>b DEF Returned, Mail, DeadQuiet
  <2> QED BY <1>a, <1>b, <2>1
<1>c. ASSUME NEW c \in Conn, inbox[c] = <<>>, NEW w, worker' = [worker EXCEPT ![c] = w],
             UNCHANGED <<inbox, fate>>, mpc # "send", mpc' # "send"
      PROVE  Placed'
  BY <1>a, <1>c DEF TypeOK
<1>d. ASSUME NewIdle, UNCHANGED fate, mpc \in {"start", "scan"}, mpc' # "send" PROVE Placed'
  <2>1. PICK c \in Conn : /\ Pool!Prefork(c) /\ worker' = [worker EXCEPT ![c] = "up"]
                          /\ UNCHANGED inbox
    BY <1>d DEF NewIdle
  <2>2. c \notin ToSet(busyList)
    BY <2>1 DEF Pool!Prefork, Pool!Lent, DataType, TypeOK
  <2>3. inbox[c] = <<>>
    BY <1>d, <2>2 DEF Mail, Quiet
  <2> QED BY <1>c, <1>d, <2>1, <2>3
<1>e. ASSUME UNCHANGED <<inbox, worker, fate>>, mpc # "send", mpc' # "send" PROVE Placed'
  BY <1>a, <1>e
\* The one client in the pipe of a worker is served, or lost with the worker.
<1>f. ASSUME NEW c \in Conn, NEW k \in Client, inbox[c] = <<k>>, fate[k] = "accepted",
             inbox'[c] = <<>>, \A d \in Conn \ {c} : inbox'[d] = inbox[d],
             fate'[k] # "accepted", \A j \in Client \ {k} : fate'[j] = fate[j],
             \A d \in Conn : d # c => worker'[d] = worker[d], UNCHANGED <<mpc, client>>
      PROVE  Placed'
  <2>1. mpc = "send" => client # k /\ client \in Client
    BY <1>0, <1>f DEF Control
  <2>2. \A j \in Client : fate'[j] = "accepted" =>
           (mpc' = "send" /\ client' = j) \/ \E d \in Conn : inbox'[d] = <<j>>
    BY <1>0, <1>f
  <2>3. \A d \in Conn : inbox'[d] # <<>> =>
           worker'[d] = "up" /\ \E j \in Client : inbox'[d] = <<j>> /\ fate'[j] = "accepted"
    <3> SUFFICES ASSUME NEW d \in Conn, inbox'[d] # <<>>
                 PROVE  /\ worker'[d] = "up"
                        /\ \E j \in Client : inbox'[d] = <<j>> /\ fate'[j] = "accepted"
      OBVIOUS
    <3>1. d # c /\ inbox'[d] = inbox[d]
      BY <1>f
    <3>2. PICK j \in Client : inbox[d] = <<j>> /\ fate[j] = "accepted"
      BY <1>0, <3>1
    <3>3. j # k
      BY <1>0, <1>f, <3>1, <3>2
    <3> QED BY <1>0, <1>f, <3>1, <3>2, <3>3
  <2>4. \A d, e \in Conn : inbox'[d] # <<>> /\ inbox'[d] = inbox'[e] => d = e
    BY <1>0, <1>f
  <2>5. mpc' = "send" => fate'[client'] = "accepted" /\ \A d \in Conn : inbox'[d] # <<client'>>
    BY <1>0, <1>f, <2>1
  <2> QED BY <2>2, <2>3, <2>4, <2>5 DEF Placed
<1>1. CASE StartEnsure
  BY <1>1, <1>d, <1>e, NoProcessType DEF StartEnsure
<1>2. CASE Ensure
  BY <1>2, <1>d, <1>e, NoProcessType DEF Ensure, workerVars
<1>3. CASE StartEnd \/ Stopped \/ SelectStop \/ Top \/ Select
  BY <1>3, <1>e DEF StartEnd, Stopped, SelectStop, Top, Select, LookAt, MayAccept, workerVars
<1>4. ASSUME NEW c \in Conn, Get(c) PROVE Placed'
  <2>1. /\ c \notin ToSet(busyList) /\ mpc = "get" /\ mpc' = "accept"
        /\ UNCHANGED <<inbox, fate>>
        /\ worker' = worker \/ worker' = [worker EXCEPT ![c] = "up"]
    BY <1>4, GetFacts
  <2>2. inbox[c] = <<>>
    BY <2>1 DEF Mail, Quiet
  <2> QED BY <1>c, <1>e, <2>1, <2>2
<1>5. ASSUME NEW c \in Conn, GetDrop(c) PROVE Placed'
  <2>1. /\ worker' = [worker EXCEPT ![c] = "none"] /\ worker[c] = "dead"
        /\ UNCHANGED <<inbox, fate>> /\ mpc = "get" /\ mpc' = "get"
    BY <1>5 DEF GetDrop
  <2> QED BY <1>c, <2>1 DEF Mail, DeadQuiet
<1>6. CASE GetNull
  BY <1>6, <1>e, NoProcessType DEF GetNull, AfterListen
<1>7. ASSUME NEW k \in Client, Accept(k) PROVE Placed'
  <2>1. /\ mpc = "accept" /\ mpc' = "send" /\ client' = k /\ fate[k] = "pending"
        /\ fate' = [fate EXCEPT ![k] = "accepted"] /\ UNCHANGED <<inbox, worker>>
    BY <1>7 DEF Accept, Pending, workerVars
  <2>2. fate'[k] = "accepted" /\ \A j \in Client \ {k} : fate'[j] = fate[j]
    BY <2>1 DEF TypeOK
  <2>3. \A c \in Conn : inbox[c] # <<k>>
    BY <1>0, <2>1
  <2> QED BY <1>0, <2>1, <2>2, <2>3 DEF Placed
<1>8. CASE AcceptFail
  <2>1. /\ mpc = "accept" /\ mpc' # "send" /\ Save(info)
        /\ \/ UNCHANGED fate
           \/ \E k \in Client : fate[k] = "pending" /\ fate' = [fate EXCEPT ![k] = "lost"]
    BY <1>8 DEF AcceptFail, AfterListen, Pending
  <2>2. info \in Conn /\ lease[info] = info
    BY <2>1 DEF TypeOK, DataType, Control
  <2>3. Returned(info)
    BY <2>1, <2>2, SaveFacts
  <2>4. UNCHANGED inbox /\ \A d \in Conn : worker'[d] = worker[d] \/ inbox[d] = <<>>
    BY <2>3 DEF Returned, Mail, DeadQuiet
  <2>5. \A j \in Client : fate'[j] = "accepted" <=> fate[j] = "accepted"
    BY <2>1 DEF TypeOK
  <2> QED BY <1>a, <2>1, <2>4, <2>5
<1>9. CASE SendFd
  <2>1. /\ mpc = "send" /\ mpc' # "send" /\ worker[info] # "dead"
        /\ inbox' = [inbox EXCEPT ![info] = Append(@, client)]
        /\ UNCHANGED <<worker, fate>>
    BY <1>9 DEF SendFd, AfterListen
  <2>2. info \in Conn /\ client \in Client /\ info \notin ToSet(busyList) /\ lease[info] = info
    BY <2>1 DEF TypeOK, DataType, Control
  <2>3. inbox[info] = <<>> /\ worker[info] = "up"
    BY <2>1, <2>2, InetAssumption DEF Mail, Quiet, HeldUp, Held
  <2>4. inbox'[info] = <<client>> /\ \A d \in Conn \ {info} : inbox'[d] = inbox[d]
    BY <2>1, <2>2, <2>3 DEF DataType
  <2>5. fate[client] = "accepted" /\ \A c \in Conn : inbox[c] # <<client>>
    BY <1>0, <2>1
  <2>6. \A k \in Client : fate'[k] = "accepted" => \E c \in Conn : inbox'[c] = <<k>>
    BY <1>0, <2>1, <2>2, <2>3, <2>4
  <2>7. \A c \in Conn : inbox'[c] # <<>> =>
           worker'[c] = "up" /\ \E k \in Client : inbox'[c] = <<k>> /\ fate'[k] = "accepted"
    BY <1>0, <2>1, <2>2, <2>3, <2>4, <2>5
  <2>8. \A c, d \in Conn : inbox'[c] # <<>> /\ inbox'[c] = inbox'[d] => c = d
    BY <1>0, <2>4, <2>5
  <2> QED BY <2>1, <2>6, <2>7, <2>8 DEF Placed
<1>10. CASE SendFail
  <2>1. /\ mpc = "send" /\ mpc' # "send" /\ Erase(info)
        /\ fate' = [fate EXCEPT ![client] = "lost"]
    BY <1>10 DEF SendFail, AfterListen
  <2>2. info \in Conn /\ client \in Client
    BY <2>1 DEF TypeOK, Control
  <2>3. UNCHANGED inbox /\ \A d \in Conn : worker'[d] = worker[d] \/ inbox[d] = <<>>
    BY <2>1, <2>2, EraseFacts DEF Returned, Mail, DeadQuiet
  <2>4. fate'[client] = "lost" /\ \A j \in Client \ {client} : fate'[j] = fate[j]
    BY <2>1, <2>2 DEF TypeOK
  <2>5. \A c \in Conn : inbox[c] # <<client>>
    BY <1>0, <2>1
  <2>6. \A k \in Client : fate'[k] = "accepted" => \E c \in Conn : inbox'[c] = <<k>>
    BY <1>0, <2>1, <2>3, <2>4
  <2>7. \A c \in Conn : inbox'[c] # <<>> =>
           worker'[c] = "up" /\ \E k \in Client : inbox'[c] = <<k>> /\ fate'[k] = "accepted"
    BY <1>0, <2>3, <2>4, <2>5
  <2> QED BY <1>0, <2>1, <2>3, <2>6, <2>7 DEF Placed
<1>11. ASSUME NEW c \in Conn, Scan(c) PROVE Placed'
  <2>1. mpc = "scan" /\ mpc' = "scan" /\ UNCHANGED fate /\ c \in ToSet(busyList)
    BY <1>11, UnbusyList DEF Scan
  <2>2. lease[c] = c
    BY <2>1 DEF TypeOK, DataType
  <2>3. Returned(c)
    BY <1>11, <2>2, SaveFacts, EraseFacts DEF Scan
  <2> QED BY <1>b, <2>1, <2>3 DEF Returned
<1>12. ASSUME NEW c \in Conn, WorkerServe(c) PROVE Placed'
  <2>1. /\ inbox[c] # <<>> /\ inbox' = [inbox EXCEPT ![c] = Tail(@)]
        /\ fate' = [fate EXCEPT ![Head(inbox[c])] = "served"]
        /\ \A d \in Conn : d # c => worker'[d] = worker[d]
        /\ UNCHANGED <<mpc, client>>
    BY <1>12 DEF WorkerServe, loopVars, TypeOK
  <2>2. PICK k \in Client : inbox[c] = <<k>> /\ fate[k] = "accepted"
    BY <1>0, <2>1
  <2>3. Head(inbox[c]) = k /\ Tail(inbox[c]) = <<>>
    BY <2>2
  <2> QED BY <1>f, <2>1, <2>2, <2>3 DEF TypeOK, DataType
<1>13. ASSUME NEW c \in Conn, WorkerDie(c) PROVE Placed'
  <2>1. /\ inbox' = [inbox EXCEPT ![c] = <<>>]
        /\ fate' = [k \in Client |-> IF k \in ToSet(inbox[c]) THEN "lost" ELSE fate[k]]
        /\ worker' = [worker EXCEPT ![c] = "dead"]
        /\ UNCHANGED <<mpc, client>>
    BY <1>13 DEF WorkerDie, loopVars
  <2>2. CASE inbox[c] = <<>>
    <3>1. inbox' = inbox /\ fate' = fate
      BY <2>1, <2>2, EmptyList DEF TypeOK, DataType
    <3>2. \A d \in Conn : worker'[d] = worker[d] \/ inbox[d] = <<>>
      BY <2>1, <2>2 DEF TypeOK
    <3> QED BY <1>0, <2>1, <3>1, <3>2 DEF Placed
  <2>3. CASE inbox[c] # <<>>
    <3>1. PICK k \in Client : inbox[c] = <<k>> /\ fate[k] = "accepted"
      BY <1>0, <2>3
    <3>2. ToSet(inbox[c]) = {k}
      BY <3>1 DEF ToSet
    <3>3. \A d \in Conn : d # c => worker'[d] = worker[d]
      BY <2>1 DEF TypeOK
    <3>4. inbox'[c] = <<>> /\ \A d \in Conn \ {c} : inbox'[d] = inbox[d]
      BY <2>1 DEF DataType
    <3>5. fate'[k] = "lost" /\ \A j \in Client \ {k} : fate'[j] = fate[j]
      BY <2>1, <3>2
    <3> QED BY <1>f, <2>1, <3>1, <3>3, <3>4, <3>5
  <2> QED BY <2>2, <2>3
<1>14. ASSUME NEW c \in Conn, WorkerEof(c) PROVE Placed'
  <2>1. /\ inbox[c] = <<>> /\ worker' = [worker EXCEPT ![c] = "none"]
        /\ UNCHANGED <<mpc, client, inbox, fate>>
    BY <1>14 DEF WorkerEof, loopVars
  <2>2. \A d \in Conn : worker'[d] = worker[d] \/ inbox[d] = <<>>
    BY <2>1 DEF TypeOK
  <2> QED BY <1>0, <2>1, <2>2 DEF Placed
<1>15. ASSUME NEW k \in Client, Connect(k) PROVE Placed'
  <2>1. /\ fate[k] = "new" /\ fate' = [fate EXCEPT ![k] = "pending"]
        /\ UNCHANGED <<mpc, client, inbox, worker>>
    BY <1>15 DEF Connect, loopVars, workerVars
  <2>2. \A j \in Client : fate'[j] = "accepted" <=> fate[j] = "accepted"
    BY <2>1 DEF TypeOK
  <2> QED BY <1>0, <2>1, <2>2 DEF Placed, Control
<1>16. CASE Shutdown \/ UNCHANGED vars
  BY <1>0, <1>16 DEF Placed, Shutdown, vars, loopVars, workerVars
<1> QED
  BY <1>1, <1>2, <1>3, <1>4, <1>5, <1>6, <1>7, <1>8, <1>9, <1>10, <1>11, <1>12, <1>13, <1>14,
     <1>15, <1>16 DEF Next, ServerStep, WorkerStep

-----------------------------------------------------------------------------
(* The theorems.                                                           *)

LEMMA InitInv == Init => IInv
<1> SUFFICES ASSUME Init PROVE IInv
  OBVIOUS
<1>1. /\ idle = {} /\ lease = [c \in Conn |-> NoConn] /\ busyList = <<>> /\ info = NoConn
      /\ mpc = "start" /\ rset = {}
      /\ worker = [c \in Conn |-> "none"] /\ fate = [k \in Client |-> "new"]
      /\ inbox = [c \in Conn |-> <<>>] /\ outbox = [c \in Conn |-> <<>>] /\ faults = 0
  BY DEF Init, Pool!Init
<1>2. /\ busyList \in Seq(Conn) /\ DOMAIN busyList = {} /\ ToSet(busyList) = {}
  BY <1>1, EmptyList
<1>3. IsInjective(busyList)
  BY <1>2 DEF IsInjective
<1>4. TypeOK
  BY <1>1, <1>2, <1>3, InetAssumption DEF TypeOK
<1>5. DataType
  <2>1. IsFiniteSet(idle)
    BY <1>1, FS_EmptySet
  <2>2. <<>> \in Seq(Client) /\ <<>> \in Seq(Conn)
    OBVIOUS
  <2> QED BY <1>1, <2>1, <2>2 DEF DataType
<1>6. Control
  BY <1>1 DEF Control
<1>7. Mail
  BY <1>1, <1>2 DEF Mail, Quiet, DeadQuiet, BusyHeard, IdleEmpty
<1>8. ProcLimit
  <2>1. {c \in Conn : c \in idle \/ lease[c] # NoConn} = {}
    BY <1>1
  <2> QED BY <2>1, FS_EmptySet, ArgsSane DEF ProcLimit
<1>9. HeldUp /\ Placed
  BY <1>1, InetAssumption DEF HeldUp, Held, Placed
<1> QED BY <1>4, <1>5, <1>6, <1>7, <1>8, <1>9 DEF IInv

\* The inductive invariant holds in every state of the server.
THEOREM Invariance == Spec => []IInv
<1>1. IInv /\ [Next]_vars => IInv'
  <2> SUFFICES ASSUME IInv, [Next]_vars PROVE IInv'
    OBVIOUS
  <2>1. TypeOK /\ DataType /\ Control /\ Mail /\ ProcLimit /\ HeldUp /\ Placed
    BY DEF IInv
  <2>2. TypeOK' /\ DataType' /\ Control' /\ Mail' /\ ProcLimit' /\ HeldUp' /\ Placed'
    BY <2>1, TypeStep, MailStep, LimitStep, HeldUpStep, PlacedStep
  <2> QED BY <2>2 DEF IInv
<1> QED BY InitInv, <1>1, PTL DEF Spec

\* The variables keep their types, and every process that was lent is in
\* busyList or is the one that get() just returned: start() drops none.
THEOREM TypeCorrect == Spec => []TypeOK
<1>1. IInv => TypeOK
  BY DEF IInv
<1> QED BY Invariance, <1>1, PTL

\* A busy process has exactly one client or answer on its way or is dead, a
\* process in the pool has none, there are never more processes than mMaxProc or
\* mMinIdleProc, and each client that was accepted is in exactly one place.
THEOREM BookSafety == Spec => []Books
<1>1. IInv => Books
  BY DEF IInv, Mail, Books
<1> QED BY Invariance, <1>1, PTL

\* A client that was served, or lost with its worker, stays so: no client is
\* passed on twice, also when send_fd() fails or a worker dies.
THEOREM SettledForGood == Spec => SettledOnce
<1> DEFINE Kept == \A k \in Client : fate[k] \in {"served", "lost"} => fate'[k] = fate[k]
<1>1. IInv /\ [Next]_vars => [Kept]_vars
  <2> SUFFICES ASSUME IInv, Next PROVE Kept
    OBVIOUS
  <2>0. /\ fate \in [Client -> {"new", "pending", "accepted", "served", "lost"}]
        /\ \A c \in Conn : inbox[c] # <<>> =>
              \E k \in Client : inbox[c] = <<k>> /\ fate[k] = "accepted"
        /\ mpc = "send" => fate[client] = "accepted"
    BY DEF IInv, TypeOK, Placed
  <2>1. ASSUME UNCHANGED fate PROVE Kept
    BY <2>1
  <2>2. ASSUME NEW k \in Client, Accept(k) \/ Connect(k) PROVE Kept
    BY <2>0, <2>2 DEF Accept, Connect, Pending
  <2>3. CASE SendFail \/ AcceptFail
    BY <2>0, <2>3 DEF SendFail, AcceptFail, Pending
  <2>4. ASSUME NEW c \in Conn, WorkerServe(c) PROVE Kept
    <3>1. PICK k \in Client : inbox[c] = <<k>> /\ fate[k] = "accepted"
      BY <2>0, <2>4 DEF WorkerServe
    <3>2. Head(inbox[c]) = k
      BY <3>1
    <3>3. fate' = [fate EXCEPT ![k] = "served"]
      BY <2>4, <3>2 DEF WorkerServe
    <3> QED BY <2>0, <3>1, <3>3
  <2>5. ASSUME NEW c \in Conn, WorkerDie(c) PROVE Kept
    <3>1. \A k \in ToSet(inbox[c]) : fate[k] = "accepted"
      <4>1. CASE inbox[c] = <<>>
        BY <4>1, EmptyList
      <4>2. CASE inbox[c] # <<>>
        BY <2>0, <4>2 DEF ToSet
      <4> QED BY <4>1, <4>2
    <3>2. fate' = [k \in Client |-> IF k \in ToSet(inbox[c]) THEN "lost" ELSE fate[k]]
      BY <2>5 DEF WorkerDie
    <3> QED BY <3>1, <3>2
  <2>6. CASE StartEnsure \/ StartEnd \/ Top \/ Stopped \/ Select \/ GetNull \/ SendFd \/ Ensure
             \/ SelectStop \/ Shutdown
    BY <2>1, <2>6 DEF StartEnsure, StartEnd, Top, Stopped, Select, GetNull, SendFd, Ensure,
                      SelectStop, Shutdown
  <2>7. ASSUME NEW c \in Conn, Get(c) \/ GetDrop(c) \/ Scan(c) \/ WorkerEof(c) PROVE Kept
    BY <2>1, <2>7 DEF Get, GetDrop, Scan, WorkerEof
  <2> QED BY <2>2, <2>3, <2>4, <2>5, <2>6, <2>7 DEF Next, ServerStep, WorkerStep
<1> QED BY Invariance, <1>1, PTL DEF Spec, SettledOnce

=============================================================================
