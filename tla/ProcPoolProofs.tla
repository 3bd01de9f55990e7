--------------------------- MODULE ProcPoolProofs ---------------------------
(***************************************************************************)
(* Proofs of the safety properties of ProcPool, for every set of threads,  *)
(* connections and process ids and every value of the limits.              *)
(***************************************************************************)
EXTENDS ProcPool, ListLemmas, FiniteSetTheorems, SequenceTheorems, TLAPS

-----------------------------------------------------------------------------
(* Type correctness.                                                       *)

LEMMA TypeInit == Init => TypeOK
<1> SUFFICES ASSUME Init PROVE TypeOK
  OBVIOUS
<1>1. eintr \in BOOLEAN
  BY DEF Init
<1>2. list \in Seq(Conn) /\ fdQ \in Seq(Conn) /\ pduQ \in Seq(Pid \cup {ForkError})
  BY DEF Init
<1> QED
  BY <1>1, <1>2
     DEF Init, TypeOK, AppState, Location, MgrState, ProcState

\* What the end of the application does to its variables.
LEMMA AppGoneType ==
    ASSUME TypeOK, AppGone
    PROVE  /\ app' \in AppState
           /\ mutex' \in Thread \cup {NoThread}
           /\ list' \in Seq(Conn)
           /\ requests' \in [Conn -> Nat]
           /\ pid' \in [Conn -> Pid \cup {NoPid}]
           /\ open' \in SUBSET Conn
           /\ ends' \in SUBSET Conn
           /\ pc' \in [Thread -> Location]
           /\ held' \in [Thread -> Conn \cup {NoConn}]
           /\ todo' \in [Thread -> Nat]
BY DEF TypeOK, AppGone, Delete, AppState, Location

LEMMA TypeStep == IInv /\ [Next]_vars => TypeOK'
<1> SUFFICES ASSUME IInv, [Next]_vars PROVE TypeOK'
  OBVIOUS
<1> USE DEF TypeOK
<1>0. /\ TypeOK /\ HeldInv /\ ChannelInv
      /\ MaxIdleProc \in Nat /\ Wanted \subseteq Nat
  BY ConstantAssumption DEF IInv
<1>1. ASSUME NEW t \in Thread, Get(t) PROVE TypeOK'
  BY <1>0, <1>1 DEF Get, Goto, Location, chanVars, mgrVars, procVars
<1>2. ASSUME NEW t \in Thread, GetLock(t) PROVE TypeOK'
  BY <1>0, <1>2 DEF GetLock, Goto, Location, chanVars, mgrVars, procVars
<1>3. ASSUME NEW t \in Thread, TakeLive(t) PROVE TypeOK'
  <2>1. list' \in Seq(Conn) /\ Last(list) \in Conn
    BY <1>0, <1>3, TakeLast DEF TakeLive
  <2>2. held' \in [Thread -> Conn \cup {NoConn}] /\ requests' \in [Conn -> Nat]
    BY <1>0, <1>3, <2>1 DEF TakeLive
  <2> QED
    BY <1>0, <1>3, <2>1, <2>2
       DEF TakeLive, Goto, Location, chanVars, mgrVars, procVars
<1>4. ASSUME NEW t \in Thread, TakeDead(t) PROVE TypeOK'
  BY <1>0, <1>4, TakeLast DEF TakeDead, Delete, chanVars, mgrVars, procVars
<1>5. ASSUME NEW t \in Thread, TakeNone(t) PROVE TypeOK'
  BY <1>0, <1>5 DEF TakeNone, Goto, Location, chanVars, mgrVars, procVars
<1>6. ASSUME NEW t \in Thread, NEW c \in Conn, MakePair(t, c) PROVE TypeOK'
  BY <1>0, <1>6 DEF MakePair, Goto, Location, chanVars, mgrVars, procVars
<1>7. ASSUME NEW t \in Thread, MakeFail(t) PROVE TypeOK'
  BY <1>0, <1>7
     DEF MakeFail, AfterFailure, Goto, Location, chanVars, mgrVars, procVars
<1>8. ASSUME NEW t \in Thread, SendFd(t) PROVE TypeOK'
  <2>1. held[t] \in Conn
    BY <1>0, <1>8 DEF SendFd, HeldInv
  <2> QED
    BY <1>0, <1>8, <2>1 DEF SendFd, Goto, Location, mgrVars, procVars
<1>9. ASSUME NEW t \in Thread, SendFdBroken(t) PROVE TypeOK'
  <2>1. UNCHANGED <<chanVars, mgrVars, procVars>>
    BY <1>9 DEF SendFdBroken
  <2>2. CASE SigpipeIgnored
    <3>1. /\ ends' = ends \ {held[t]}
          /\ held' = [held EXCEPT ![t] = NoConn]
          /\ pc' = [pc EXCEPT ![t] = AfterFailure(t)]
          /\ todo' = [todo EXCEPT ![t] = 0]
          /\ UNCHANGED <<app, mutex, list, requests, pid, open>>
      BY <1>9, <2>2 DEF SendFdBroken, Goto
    <3>2. AfterFailure(t) \in Location
      BY DEF AfterFailure, Location
    <3> QED
      BY <1>0, <2>1, <3>1, <3>2 DEF chanVars, mgrVars, procVars
  <2>3. CASE ~SigpipeIgnored
    <3>1. AppGone
      BY <1>9, <2>3 DEF SendFdBroken
    <3> QED
      BY <1>0, <2>1, <3>1, AppGoneType DEF chanVars, mgrVars, procVars
  <2> QED BY <2>2, <2>3
<1>10. ASSUME NEW t \in Thread, ReadReply(t) PROVE TypeOK'
  <2>1. Head(pduQ) \in Pid /\ pduQ' \in Seq(Pid \cup {ForkError})
    BY <1>0, <1>10 DEF ReadReply
  <2>2. requests' \in [Conn -> Nat]
    BY <1>0, <1>10 DEF ReadReply
  <2> QED
    BY <1>0, <1>10, <2>1, <2>2 DEF ReadReply, Goto, Location, mgrVars, procVars
<1>11. ASSUME NEW t \in Thread, ReadError(t) PROVE TypeOK'
  <2>1. pduQ' \in Seq(Pid \cup {ForkError})
    <3>1. \/ pduQ # <<>> /\ pduQ' = Tail(pduQ)
          \/ pduQ' = pduQ
      BY <1>11 DEF ReadError
    <3>2. pduQ \in Seq(Pid \cup {ForkError})
      BY <1>0
    <3>3. CASE pduQ # <<>> /\ pduQ' = Tail(pduQ)
      BY <3>2, <3>3, HeadTailProperties
    <3>4. CASE pduQ' = pduQ
      BY <3>2, <3>4
    <3> QED BY <3>1, <3>3, <3>4
  <2> QED
    BY <1>0, <1>11, <2>1
       DEF ReadError, AfterFailure, Goto, Location, mgrVars, procVars
<1>12. ASSUME NEW t \in Thread, Return(t) PROVE TypeOK'
  BY <1>0, <1>12 DEF Return, Goto, Location, chanVars, mgrVars, procVars
<1>13. ASSUME NEW t \in Thread, SaveWorn(t) PROVE TypeOK'
  BY <1>0, <1>13
     DEF SaveWorn, SaveDone, Delete, Goto, Location, chanVars, mgrVars, procVars
<1>14. ASSUME NEW t \in Thread, SaveStore(t) PROVE TypeOK'
  <2>1. held[t] \in Conn
    BY <1>0, <1>14 DEF SaveStore, HeldInv
  <2>2. \/ Delete({held[t]}) /\ UNCHANGED list
        \/ list' = Append(list, held[t]) /\ UNCHANGED <<open, pid, requests>>
    BY <1>14 DEF SaveStore
  <2>3. /\ list' \in Seq(Conn)
        /\ open' \in SUBSET Conn
        /\ pid' \in [Conn -> Pid \cup {NoPid}]
        /\ requests' \in [Conn -> Nat]
    <3>1. CASE Delete({held[t]}) /\ UNCHANGED list
      BY <1>0, <3>1 DEF Delete
    <3>2. CASE list' = Append(list, held[t]) /\ UNCHANGED <<open, pid, requests>>
      BY <1>0, <2>1, <3>2, AppendNew
    <3> QED BY <2>2, <3>1, <3>2
  <2> QED
    BY <1>0, <1>14, <2>3
       DEF SaveStore, SaveDone, Goto, Location, chanVars, mgrVars, procVars
<1>15. ASSUME NEW t \in Thread, Erase(t) PROVE TypeOK'
  BY <1>0, <1>15 DEF Erase, Delete, Goto, Location, chanVars, mgrVars, procVars
<1>16. ASSUME NEW t \in Thread, NEW n \in Wanted, EnsureIdle(t, n)
       PROVE TypeOK'
  BY <1>0, <1>16
     DEF EnsureIdle, Clamped, Goto, Location, chanVars, mgrVars, procVars
<1>17. ASSUME NEW t \in Thread, EnsureStart(t) PROVE TypeOK'
  <2>1. Len(list) \in Nat /\ todo[t] \in Nat
    BY <1>0, <1>17
  <2>2. \E n \in Nat, loc \in {"make", "count"} :
           todo' = [todo EXCEPT ![t] = n] /\ pc' = [pc EXCEPT ![t] = loc]
    BY <1>17, <2>1 DEF EnsureStart, Goto
  <2> QED
    BY <1>0, <1>17, <2>2 DEF EnsureStart, Location, chanVars, mgrVars, procVars
<1>18. ASSUME NEW t \in Thread, EnsureReturn(t) PROVE TypeOK'
  BY <1>0, <1>18 DEF EnsureReturn, Goto, Location, chanVars, mgrVars, procVars
<1>19. CASE Destroy
  BY <1>0, <1>19 DEF Destroy, Delete, AppState, chanVars, mgrVars, procVars
<1>20. CASE AppExit
  BY <1>0, <1>20
     DEF AppExit, AppGone, Delete, AppState, Location, chanVars, mgrVars,
         procVars
<1>21. CASE RecvFd
  BY <1>0, <1>21 DEF RecvFd, MgrState, appVars, procVars
<1>22. ASSUME NEW p \in Pid, Fork(p) PROVE TypeOK'
  BY <1>0, <1>22 DEF Fork, MgrState, ProcState, appVars, chanVars
<1>23. CASE ForkFail
  BY <1>0, <1>23 DEF ForkFail, MgrState, appVars, chanVars, procVars
<1>24. CASE SendReply
  BY <1>0, <1>24 DEF SendReply, ChannelInv, MgrState, appVars, procVars
<1>25. CASE SendReplyBroken
  BY <1>0, <1>25
     DEF SendReplyBroken, MgrGone, MgrState, ProcState, appVars, chanVars
<1>26. CASE CloseFd
  BY <1>0, <1>26 DEF CloseFd, MgrState, appVars, chanVars, procVars
<1>27. CASE RecvEof
  <2>1. UNCHANGED <<chanVars, mgrFd, mgrOpen, mgrPdu, eintr, wpid>>
    BY <1>27 DEF RecvEof
  <2>2. CASE eintr
    BY <1>0, <1>27, <2>2 DEF RecvEof, MgrState, appVars, chanVars
  <2>3. CASE ~eintr
    <3>1. /\ AppGone /\ mgr' = "dead" /\ sigchld' = FALSE
          /\ worker' = [c \in Conn |-> "none"]
      BY <1>27, <2>3 DEF RecvEof
    <3> QED
      BY <1>0, <2>1, <3>1, AppGoneType DEF MgrState, ProcState, chanVars
  <2> QED BY <2>2, <2>3
<1>28. CASE Sigchild
  BY <1>0, <1>28 DEF Sigchild, ProcState, appVars, chanVars
<1>29. CASE MgrKill
  BY <1>0, <1>29 DEF MgrKill, MgrGone, MgrState, ProcState, appVars, chanVars
<1>30. ASSUME NEW c \in Conn, WorkerExit(c) PROVE TypeOK'
  BY <1>0, <1>30 DEF WorkerExit, ProcState, appVars, chanVars, mgrVars
<1>31. CASE UNCHANGED vars
  BY <1>0, <1>31 DEF vars, appVars, chanVars, mgrVars, procVars
<1> QED
  BY <1>1, <1>2, <1>3, <1>4, <1>5, <1>6, <1>7, <1>8, <1>9, <1>10, <1>11,
     <1>12, <1>13, <1>14, <1>15, <1>16, <1>17, <1>18, <1>19, <1>20, <1>21,
     <1>22, <1>23, <1>24, <1>25, <1>26, <1>27, <1>28, <1>29, <1>30, <1>31
     DEF Next, ThreadStep, ThreadCall, MgrStep, Environment, WorkerEof,
         WorkerDie

-----------------------------------------------------------------------------
(* What a step may do to the variables of the application.                 *)

\* SendFdBroken in an application that ignores SIGPIPE.
SendFdDropped(t) ==
    /\ pc[t] = "connect"
    /\ mutex = NoThread
    /\ ChannelClosed
    /\ SigpipeIgnored
    /\ ends' = ends \ {held[t]}
    /\ held' = [held EXCEPT ![t] = NoConn]
    /\ Goto(t, AfterFailure(t))
    /\ todo' = [todo EXCEPT ![t] = 0]
    /\ UNCHANGED <<app, mutex, list, requests, pid, open>>

AppThreadStep(t) ==
    \/ Get(t) \/ GetLock(t) \/ TakeLive(t) \/ TakeDead(t) \/ TakeNone(t)
    \/ (\E c \in Conn : MakePair(t, c)) \/ MakeFail(t)
    \/ SendFd(t) \/ SendFdDropped(t) \/ ReadReply(t) \/ ReadError(t)
    \/ Return(t) \/ SaveWorn(t) \/ SaveStore(t) \/ Erase(t)
    \/ (\E n \in Wanted : EnsureIdle(t, n)) \/ EnsureStart(t) \/ EnsureReturn(t)

LEMMA AppStep ==
    ASSUME [Next]_vars
    PROVE  \/ \E t \in Thread : AppThreadStep(t)
           \/ Destroy
           \/ AppGone
           \/ UNCHANGED appVars
<1>1. ASSUME NEW t \in Thread, SendFdBroken(t)
      PROVE  SendFdDropped(t) \/ AppGone
  BY <1>1 DEF SendFdBroken, SendFdDropped
<1>2. ASSUME NEW t \in Thread, ThreadStep(t) \/ ThreadCall(t)
      PROVE  AppThreadStep(t) \/ AppGone
  BY <1>1, <1>2 DEF ThreadStep, ThreadCall, AppThreadStep
<1>3. AppExit => AppGone
  BY DEF AppExit
<1>4. RecvEof => AppGone \/ UNCHANGED appVars
  BY DEF RecvEof
<1>5. MgrStep => AppGone \/ UNCHANGED appVars
  BY <1>4 DEF MgrStep, RecvFd, Fork, ForkFail, SendReply, SendReplyBroken, MgrGone, CloseFd
<1>6. Sigchild \/ MgrKill \/ (\E c \in Conn : WorkerEof(c) \/ WorkerDie(c))
         => UNCHANGED appVars
  BY DEF Sigchild, MgrKill, MgrGone, WorkerEof, WorkerDie, WorkerExit
<1>7. UNCHANGED vars => UNCHANGED appVars
  BY DEF vars
<1> QED
  BY <1>2, <1>3, <1>5, <1>6, <1>7 DEF Next, Environment

-----------------------------------------------------------------------------
(* Where the threads are: who has mMutex, who has an info.                 *)

Control == LockInv /\ HeldInv /\ TodoInv /\ GoneInv

LEMMA ControlStep == IInv /\ [Next]_vars => Control'
<1> SUFFICES ASSUME IInv, [Next]_vars PROVE Control'
  OBVIOUS
<1>0. /\ pc \in [Thread -> Location] /\ held \in [Thread -> Conn \cup {NoConn}]
      /\ todo \in [Thread -> Nat] /\ mutex \in Thread \cup {NoThread}
      /\ list \in Seq(Conn)
      /\ Control
      /\ NoConn \notin Conn /\ NoThread \notin Thread
  BY NullAssumption DEF IInv, TypeOK, Control
<1> USE DEF Control, LockInv, HeldInv, TodoInv, GoneInv
<1>1. ASSUME NEW t \in Thread, Get(t) PROVE Control'
  BY <1>0, <1>1 DEF Get, Goto
<1>2. ASSUME NEW t \in Thread, GetLock(t) PROVE Control'
  BY <1>0, <1>2 DEF GetLock, Goto
<1>3. ASSUME NEW t \in Thread, TakeLive(t) PROVE Control'
  BY <1>0, <1>3, TakeLast DEF TakeLive, Goto
<1>4. ASSUME NEW t \in Thread, TakeDead(t) PROVE Control'
  BY <1>0, <1>4 DEF TakeDead, Goto
<1>5. ASSUME NEW t \in Thread, TakeNone(t) PROVE Control'
  BY <1>0, <1>5 DEF TakeNone, Goto
<1>6. ASSUME NEW t \in Thread, NEW c \in Conn, MakePair(t, c) PROVE Control'
  BY <1>0, <1>6 DEF MakePair, Goto
<1>7. ASSUME NEW t \in Thread, MakeFail(t) PROVE Control'
  BY <1>0, <1>7 DEF MakeFail, AfterFailure, Goto
<1>8. ASSUME NEW t \in Thread, SendFd(t) PROVE Control'
  BY <1>0, <1>8 DEF SendFd, Goto
<1>9. ASSUME NEW t \in Thread, SendFdDropped(t) PROVE Control'
  BY <1>0, <1>9 DEF SendFdDropped, AfterFailure, Goto
<1>10. ASSUME NEW t \in Thread, ReadReply(t) PROVE Control'
  BY <1>0, <1>10 DEF ReadReply, Goto
<1>11. ASSUME NEW t \in Thread, ReadError(t) PROVE Control'
  BY <1>0, <1>11 DEF ReadError, AfterFailure, Goto
<1>12. ASSUME NEW t \in Thread, Return(t) PROVE Control'
  BY <1>0, <1>12 DEF Return, Goto
<1>13. ASSUME NEW t \in Thread, SaveWorn(t) PROVE Control'
  BY <1>0, <1>13 DEF SaveWorn, SaveDone, Goto
<1>14. ASSUME NEW t \in Thread, SaveStore(t) PROVE Control'
  BY <1>0, <1>14 DEF SaveStore, SaveDone, Goto
<1>15. ASSUME NEW t \in Thread, Erase(t) PROVE Control'
  BY <1>0, <1>15 DEF Erase, Goto
<1>16. ASSUME NEW t \in Thread, NEW n \in Wanted, EnsureIdle(t, n)
       PROVE Control'
  BY <1>0, <1>16 DEF EnsureIdle, Goto
<1>17. ASSUME NEW t \in Thread, EnsureStart(t) PROVE Control'
  BY <1>0, <1>17 DEF EnsureStart, Goto
<1>18. ASSUME NEW t \in Thread, EnsureReturn(t) PROVE Control'
  BY <1>0, <1>18 DEF EnsureReturn, Goto
<1>19. CASE Destroy
  BY <1>0, <1>19 DEF Destroy
<1>20. CASE AppGone
  BY <1>0, <1>20 DEF AppGone
<1>21. CASE UNCHANGED appVars
  BY <1>0, <1>21 DEF appVars
<1> QED
  BY <1>1, <1>2, <1>3, <1>4, <1>5, <1>6, <1>7, <1>8, <1>9, <1>10, <1>11,
     <1>12, <1>13, <1>14, <1>15, <1>16, <1>17, <1>18, <1>19, <1>20, <1>21,
     AppStep DEF AppThreadStep

-----------------------------------------------------------------------------
(* Who owns which connection.                                              *)

LEMMA DeadStays == ASSUME [Next]_vars, mgr = "dead" PROVE mgr' = "dead"
<1>1. ASSUME NEW t \in Thread, ThreadStep(t) \/ ThreadCall(t)
      PROVE  UNCHANGED mgr
  BY <1>1
     DEF ThreadStep, ThreadCall, Get, GetLock, TakeLive, TakeDead, TakeNone,
         MakePair, MakeFail, SendFd, SendFdBroken, ReadReply, ReadError, Return,
         SaveWorn, SaveStore, Erase, EnsureIdle, EnsureStart, EnsureReturn,
         mgrVars
<1>2. ~MgrStep
  BY DEF MgrStep, RecvFd, Fork, ForkFail, SendReply, SendReplyBroken, MgrGone, CloseFd,
         RecvEof
<1>3. Sigchild \/ Environment \/ (\E c \in Conn : WorkerEof(c)) => mgr' = "dead"
  BY DEF Sigchild, Environment, Destroy, AppExit, MgrKill, MgrGone, WorkerEof, WorkerDie,
         WorkerExit, mgrVars
<1> QED
  BY <1>1, <1>2, <1>3 DEF Next, vars, mgrVars

Ownership == AppEnds /\ LeaseExclusive

LEMMA OwnedType == ASSUME TypeOK PROVE Listed \subseteq Conn /\ Held \subseteq Conn
BY DEF TypeOK, Listed, ToSet, Held

\* One thread drops what it held and takes hold of x.
LEMMA HeldUpdate ==
    ASSUME held \in [Thread -> Conn \cup {NoConn}],
           \A t, u \in Thread : held[t] = held[u] /\ held[t] # NoConn => t = u,
           NEW t \in Thread,
           NEW x \in Conn \cup {NoConn},
           held' = [held EXCEPT ![t] = x],
           x \notin Held
    PROVE  /\ Held' = (Held \ {held[t]}) \cup ({x} \ {NoConn})
           /\ \A u, v \in Thread : held'[u] = held'[v] /\ held'[u] # NoConn => u = v
<1>1. \A u \in Thread : held'[u] = IF u = t THEN x ELSE held[u]
  OBVIOUS
<1>2. \A u \in Thread : held[u] # NoConn => held[u] \in Held
  BY DEF Held
<1>3. \A u, v \in Thread : held'[u] = held'[v] /\ held'[u] # NoConn => u = v
  BY <1>1, <1>2
<1>4. \A u \in Thread : u # t /\ held[u] # NoConn => held[u] # held[t]
  OBVIOUS
<1>5. Held' = (Held \ {held[t]}) \cup ({x} \ {NoConn})
  <2>1. ASSUME NEW c \in Held' PROVE c \in (Held \ {held[t]}) \cup ({x} \ {NoConn})
    <3>1. PICK u \in Thread : held'[u] = c /\ c # NoConn
      BY <2>1 DEF Held
    <3> QED BY <1>1, <1>2, <1>4, <3>1
  <2>2. ASSUME NEW c \in Held, c # held[t] PROVE c \in Held'
    <3>1. PICK u \in Thread : held[u] = c /\ c # NoConn
      BY <2>2 DEF Held
    <3>2. held'[u] = c
      BY <1>1, <2>2, <3>1
    <3> QED BY <3>1, <3>2 DEF Held
  <2>3. x # NoConn => x \in Held'
    BY <1>1 DEF Held
  <2> QED BY <2>1, <2>2, <2>3
<1> QED BY <1>3, <1>5

\* Where send_fd() can fail and leave pipeFd[1] open.
Orphan == mgr = "dead" /\ SigpipeIgnored

LEMMA OwnershipStep == IInv /\ [Next]_vars => Ownership'
<1> SUFFICES ASSUME IInv, [Next]_vars PROVE Ownership'
  OBVIOUS
<1>0. /\ TypeOK /\ TypeOK' /\ HeldInv /\ GoneInv
      /\ AppEnds /\ LeaseExclusive
      /\ NoConn \notin Conn
  BY TypeStep, NullAssumption DEF IInv, NoLeak
<1>a. /\ list \in Seq(Conn) /\ held \in [Thread -> Conn \cup {NoConn}]
      /\ open \subseteq Conn /\ Listed \subseteq Conn /\ Held \subseteq Conn
      /\ Distinct(list)
      /\ Held \cap Listed = {}
      /\ \A t, u \in Thread : held[t] = held[u] /\ held[t] # NoConn => t = u
      /\ Listed \cup Held \subseteq open
      /\ Orphan \/ open = Listed \cup Held
  BY <1>0, OwnedType
     DEF TypeOK, LeaseExclusive, AppEnds, Orphan, Distinct, Owned, Held
\* It suffices to say how the three variables change.
<1>b. ASSUME Distinct(list'),
             Held' \cap Listed' = {},
             \A t, u \in Thread : held'[t] = held'[u] /\ held'[t] # NoConn => t = u,
             Listed' \cup Held' \subseteq open',
             Orphan \/ open' = Listed' \cup Held'
      PROVE  Ownership'
  <2>1. AppEnds'
    BY <1>b, DeadStays DEF AppEnds, Owned, Orphan
  <2>2. \A t \in Thread : held'[t] \notin Listed'
    <3>1. Listed' \subseteq Conn
      BY <1>0 DEF TypeOK, Listed, ToSet
    <3> QED BY <1>0, <1>b, <3>1 DEF Held
  <2>3. LeaseExclusive'
    BY <1>b, <2>2 DEF LeaseExclusive, Distinct
  <2> QED BY <2>1, <2>3 DEF Ownership
<1>1. ASSUME UNCHANGED <<list, held, open>> PROVE Ownership'
  BY <1>1, <1>a, <1>b DEF Listed, Held
<1>2. ASSUME NEW t \in Thread, TakeLive(t) PROVE Ownership'
  <2>1. /\ list' = Front(list) /\ held' = [held EXCEPT ![t] = Last(list)]
        /\ open' = open /\ list # <<>> /\ held[t] = NoConn
    BY <1>0, <1>2 DEF TakeLive, HeldInv
  <2>2. /\ Distinct(list') /\ Listed' = Listed \ {Last(list)}
        /\ Last(list) \in Listed /\ Last(list) \in Conn
    BY <1>a, <2>1, TakeLast DEF Listed
  <2>3. Held' = Held \cup {Last(list)}
    <3>1. Last(list) \notin Held /\ NoConn \notin Held /\ Last(list) # NoConn
      BY <1>0, <1>a, <2>2 DEF Held
    <3>2. Held' = (Held \ {NoConn}) \cup ({Last(list)} \ {NoConn})
      BY <1>a, <2>1, <2>2, <3>1, HeldUpdate
    <3> QED BY <3>1, <3>2
  <2>4. \A u, v \in Thread : held'[u] = held'[v] /\ held'[u] # NoConn => u = v
    BY <1>a, <2>1, <2>2, HeldUpdate
  <2> QED BY <1>a, <1>b, <2>1, <2>2, <2>3, <2>4
<1>3. ASSUME NEW t \in Thread, TakeDead(t) PROVE Ownership'
  <2>1. /\ list' = Front(list) /\ held' = held /\ list # <<>>
        /\ open' = open \ {Last(list)}
    BY <1>3 DEF TakeDead, Delete
  <2>2. Distinct(list') /\ Listed' = Listed \ {Last(list)} /\ Last(list) \in Listed
    BY <1>a, <2>1, TakeLast DEF Listed
  <2>3. Held' = Held
    BY <2>1 DEF Held
  <2> QED BY <1>a, <1>b, <2>1, <2>2, <2>3
<1>4. ASSUME NEW t \in Thread, NEW c \in Conn, MakePair(t, c) PROVE Ownership'
  <2>1. /\ list' = list /\ held' = [held EXCEPT ![t] = c]
        /\ open' = open \cup {c} /\ c \notin open /\ held[t] = NoConn
    BY <1>0, <1>4 DEF MakePair, FreeConn, InUse, HeldInv
  <2>2. Listed' = Listed /\ c \notin Held /\ c \notin Listed
    BY <1>a, <2>1 DEF Listed
  <2>3. Held' = Held \cup {c}
    <3>1. NoConn \notin Held /\ c # NoConn
      BY <1>0 DEF Held
    <3>2. Held' = (Held \ {NoConn}) \cup ({c} \ {NoConn})
      BY <1>a, <2>1, <2>2, HeldUpdate
    <3> QED BY <3>1, <3>2
  <2>4. \A u, v \in Thread : held'[u] = held'[v] /\ held'[u] # NoConn => u = v
    BY <1>a, <2>1, <2>2, HeldUpdate
  <2> QED BY <1>a, <1>b, <2>1, <2>2, <2>3, <2>4
\* A thread lets go of an info.
<1>5. ASSUME NEW t \in Thread, held' = [held EXCEPT ![t] = NoConn]
      PROVE  /\ Held' = Held \ {held[t]}
             /\ \A u, v \in Thread :
                   held'[u] = held'[v] /\ held'[u] # NoConn => u = v
  BY <1>0, <1>a, <1>5, HeldUpdate
\* The ways to close it as well.
<1>6. ASSUME NEW t \in Thread, pc[t] \in {"await", "save", "have"},
             list' = list, held' = [held EXCEPT ![t] = NoConn],
             open' = open \ {held[t]}
      PROVE  Ownership'
  <2>1. held[t] \in Held /\ Listed' = Listed /\ Distinct(list')
    BY <1>0, <1>a, <1>6 DEF HeldInv, Held, Listed
  <2>2. Held' = Held \ {held[t]}
    BY <1>5, <1>6
  <2>3. \A u, v \in Thread : held'[u] = held'[v] /\ held'[u] # NoConn => u = v
    BY <1>5, <1>6
  <2>4. /\ Held' \cap Listed' = {}
        /\ Listed' \cup Held' \subseteq open'
        /\ Orphan \/ open' = Listed' \cup Held'
    BY <1>a, <1>6, <2>1, <2>2
  <2> QED BY <1>b, <2>1, <2>3, <2>4
<1>7. ASSUME NEW t \in Thread, SendFdDropped(t) PROVE Ownership'
  <2>1. /\ list' = list /\ held' = [held EXCEPT ![t] = NoConn] /\ open' = open
        /\ Orphan
    BY <1>7 DEF SendFdDropped, ChannelClosed, Orphan
  <2>2. Listed' = Listed
    BY <2>1 DEF Listed
  <2> QED BY <1>a, <1>b, <1>5, <2>1, <2>2
<1>8. ASSUME NEW t \in Thread, SaveStore(t) PROVE Ownership'
  <2>1. CASE EnoughIdle
    BY <1>6, <1>8, <2>1 DEF SaveStore, SaveDone, Delete
  <2>2. CASE ~EnoughIdle
    <3>1. /\ list' = Append(list, held[t]) /\ open' = open
          /\ held' = [held EXCEPT ![t] = NoConn] /\ held[t] \in Held
      BY <1>0, <1>8, <2>2 DEF SaveStore, SaveDone, HeldInv, Held
    <3>2. Distinct(list') /\ Listed' = Listed \cup {held[t]}
      BY <1>a, <3>1, AppendNew DEF Listed
    <3> QED BY <1>a, <1>b, <1>5, <3>1, <3>2
  <2> QED BY <2>1, <2>2
<1>9. CASE Destroy
  <2>1. /\ list' = <<>> /\ held' = held /\ open' = open \ Listed
        /\ \A t \in Thread : held[t] = NoConn
    BY <1>0, <1>9 DEF Destroy, Delete, HeldInv
  <2>2. Distinct(list') /\ Listed' = {} /\ Held = {} /\ Held' = {}
    BY <2>1, EmptyList DEF Listed, Held
  <2> QED BY <1>a, <1>b, <2>1, <2>2
<1>12. CASE AppGone
  <2>1. /\ list' = <<>> /\ held' = [t \in Thread |-> NoConn] /\ open' = {}
    BY <1>0, <1>12 DEF AppGone, Delete, TypeOK
  <2>2. Distinct(list') /\ Listed' = {} /\ Held' = {}
    BY <2>1, EmptyList DEF Listed, Held
  <2> QED BY <1>a, <1>b, <2>1, <2>2
<1>10. ASSUME NEW t \in Thread,
              ReadError(t) \/ SaveWorn(t) \/ Erase(t)
       PROVE  Ownership'
  BY <1>6, <1>10 DEF ReadError, SaveWorn, SaveDone, Erase, Delete
<1>11. ASSUME NEW t \in Thread,
              \/ Get(t) \/ GetLock(t) \/ TakeNone(t) \/ MakeFail(t) \/ SendFd(t)
              \/ ReadReply(t) \/ Return(t) \/ EnsureStart(t) \/ EnsureReturn(t)
              \/ \E n \in Wanted : EnsureIdle(t, n)
       PROVE  Ownership'
  BY <1>1, <1>11
     DEF Get, GetLock, TakeNone, MakeFail, SendFd, ReadReply, Return,
         EnsureStart, EnsureReturn, EnsureIdle
<1> QED
  BY <1>1, <1>2, <1>3, <1>4, <1>7, <1>8, <1>9, <1>10, <1>11, <1>12, AppStep
     DEF AppThreadStep, appVars

-----------------------------------------------------------------------------
(* The other ends of the pairs, and the zombies.                           *)

\* The worker ends in the application are those of the create() calls under way.
LEMMA EndsStep == IInv /\ [Next]_vars =>
                    ends' = {held'[t] : t \in {u \in Thread : Creating(u)'}}
<1> SUFFICES ASSUME IInv, [Next]_vars
             PROVE  ends' = {held'[t] : t \in {u \in Thread : Creating(u)'}}
  OBVIOUS
<1> DEFINE EndsRight == ends = {held[t] : t \in {u \in Thread : Creating(u)}}
<1>0. /\ pc \in [Thread -> Location] /\ held \in [Thread -> Conn \cup {NoConn}]
      /\ HeldInv /\ EndsRight
      /\ \A t, u \in Thread : held[t] = held[u] /\ held[t] # NoConn => t = u
  BY DEF IInv, TypeOK, LeaseExclusive, NoLeak, WorkerEnds
\* A thread neither begins nor ends to work on a pair.
<1>1. ASSUME NEW t \in Thread,
             \A u \in Thread \ {t} : pc'[u] = pc[u] /\ held'[u] = held[u],
             \/ ~Creating(t) /\ ~Creating(t)'
             \/ Creating(t) /\ Creating(t)' /\ held'[t] = held[t],
             ends' = ends
      PROVE  EndsRight'
  <2>1. \A u \in Thread : Creating(u)' <=> Creating(u)
    BY <1>1 DEF Creating
  <2>2. \A u \in Thread : Creating(u) => held'[u] = held[u]
    BY <1>1
  <2> QED BY <1>0, <1>1, <2>1, <2>2
\* create() closes pipeFd[0] at its end.
<1>2. ASSUME NEW t \in Thread,
             \A u \in Thread \ {t} : pc'[u] = pc[u] /\ held'[u] = held[u],
             Creating(t), ~Creating(t)',
             ends' = ends \ {held[t]}
      PROVE  EndsRight'
  <2>1. \A u \in Thread : Creating(u)' <=> Creating(u) /\ u # t
    BY <1>2 DEF Creating
  <2>2. \A u \in Thread : Creating(u) /\ u # t =>
                             held'[u] = held[u] /\ held[u] # held[t]
    BY <1>0, <1>2 DEF HeldInv, Creating
  <2> QED BY <1>0, <1>2, <2>1, <2>2
<1>3. ASSUME NEW t \in Thread, NEW c \in Conn, MakePair(t, c) PROVE EndsRight'
  <2>1. /\ ends' = ends \cup {c} /\ held' = [held EXCEPT ![t] = c]
        /\ pc' = [pc EXCEPT ![t] = "connect"] /\ pc[t] = "make"
    BY <1>3 DEF MakePair, Goto
  <2>2. \A u \in Thread : Creating(u)' <=> Creating(u) \/ u = t
    BY <1>0, <2>1 DEF Creating
  <2>3. held'[t] = c /\ \A u \in Thread : Creating(u) => held'[u] = held[u]
    BY <1>0, <2>1 DEF Creating
  <2> QED BY <1>0, <2>1, <2>2, <2>3
<1>4. ASSUME NEW t \in Thread, ReadReply(t) \/ ReadError(t) \/ SendFdDropped(t)
      PROVE  EndsRight'
  <2>1. /\ Creating(t) /\ ends' = ends \ {held[t]}
        /\ held' = held \/ held' = [held EXCEPT ![t] = NoConn]
    BY <1>4 DEF ReadReply, ReadError, SendFdDropped, Creating
  <2>2. \E loc \in {"have", "save", "out", "count"} : pc' = [pc EXCEPT ![t] = loc]
    BY <1>4 DEF ReadReply, ReadError, SendFdDropped, AfterFailure, Goto
  <2> QED BY <1>0, <1>2, <2>1, <2>2 DEF Creating
<1>5. ASSUME NEW t \in Thread, SendFd(t) PROVE EndsRight'
  BY <1>0, <1>1, <1>5 DEF SendFd, Goto, Creating
<1>6. ASSUME NEW t \in Thread,
             \/ Get(t) \/ GetLock(t) \/ TakeLive(t) \/ TakeNone(t) \/ MakeFail(t)
             \/ Return(t) \/ Erase(t) \/ EnsureReturn(t)
             \/ \E n \in Wanted : EnsureIdle(t, n)
      PROVE  EndsRight'
  <2>1. /\ ~Creating(t) /\ ends' = ends
        /\ \/ held' = held
           \/ \E c \in Conn \cup {NoConn} : held' = [held EXCEPT ![t] = c]
           \/ held' = [held EXCEPT ![t] = Last(list)]
    BY <1>6 DEF Get, GetLock, TakeLive, TakeNone, MakeFail, Return, Erase,
                EnsureReturn, EnsureIdle, Creating
  <2>2. \E loc \in Location \ {"connect", "await"} : pc' = [pc EXCEPT ![t] = loc]
    BY <1>6 DEF Get, GetLock, TakeLive, TakeNone, MakeFail, Return, Erase,
                EnsureReturn, EnsureIdle, AfterFailure, Goto, Location
  <2> QED BY <1>0, <1>1, <2>1, <2>2 DEF Creating
<1>7. ASSUME NEW t \in Thread, SaveWorn(t) \/ SaveStore(t) \/ EnsureStart(t)
      PROVE  EndsRight'
  <2>1. /\ ~Creating(t) /\ ends' = ends
        /\ held' = held \/ held' = [held EXCEPT ![t] = NoConn]
    BY <1>7 DEF SaveWorn, SaveStore, SaveDone, EnsureStart, Creating
  <2>2. \E loc \in {"out", "count", "make"} : pc' = [pc EXCEPT ![t] = loc]
    BY <1>7 DEF SaveWorn, SaveStore, SaveDone, EnsureStart, Goto
  <2> QED BY <1>0, <1>1, <2>1, <2>2 DEF Creating
<1>8. ASSUME UNCHANGED <<pc, held, ends>> PROVE EndsRight'
  BY <1>0, <1>8 DEF Creating
<1>9. ASSUME NEW t \in Thread, TakeDead(t) PROVE EndsRight'
  BY <1>8, <1>9 DEF TakeDead
<1>10. CASE Destroy
  BY <1>8, <1>10 DEF Destroy
<1>11. CASE AppGone
  BY <1>11 DEF AppGone, Creating
<1>12. CASE UNCHANGED appVars
  BY <1>8, <1>12 DEF appVars
<1> QED
  BY <1>3, <1>4, <1>5, <1>6, <1>7, <1>9, <1>10, <1>11, <1>12, AppStep
     DEF AppThreadStep

LEMMA WorkerEndsStep == IInv /\ [Next]_vars => WorkerEnds'
<1> SUFFICES ASSUME IInv, [Next]_vars PROVE WorkerEnds'
  OBVIOUS
<1> DEFINE MgrRight == /\ mgrOpen \subseteq {mgrFd}
                       /\ mgr \in {"recv", "dead"} => mgrOpen = {}
<1>0. MgrRight
  BY DEF IInv, NoLeak, WorkerEnds
<1>1. ASSUME UNCHANGED <<mgr, mgrFd, mgrOpen>> PROVE MgrRight'
  BY <1>0, <1>1
<1>2. ASSUME NEW t \in Thread, ThreadStep(t) \/ ThreadCall(t) PROVE MgrRight'
  BY <1>1, <1>2
     DEF ThreadStep, ThreadCall, Get, GetLock, TakeLive, TakeDead, TakeNone,
         MakePair, MakeFail, SendFd, SendFdBroken, ReadReply, ReadError, Return,
         SaveWorn, SaveStore, Erase, EnsureIdle, EnsureStart, EnsureReturn,
         mgrVars
<1>3. ASSUME MgrStep PROVE MgrRight'
  BY <1>0, <1>3
     DEF MgrStep, RecvFd, Fork, ForkFail, SendReply, SendReplyBroken, MgrGone,
         CloseFd, RecvEof
<1>4. ASSUME Sigchild \/ MgrKill PROVE MgrRight'
  BY <1>0, <1>4 DEF Sigchild, MgrKill, MgrGone
<1>5. ASSUME \/ Destroy \/ AppExit \/ UNCHANGED vars
             \/ \E c \in Conn : WorkerEof(c) \/ WorkerDie(c)
      PROVE  MgrRight'
  BY <1>1, <1>5 DEF Destroy, AppExit, WorkerEof, WorkerDie, WorkerExit, vars, mgrVars
<1> QED
  BY <1>2, <1>3, <1>4, <1>5, EndsStep DEF Next, Environment, WorkerEnds

\* A zombie is made only with a signal, and a signal collects all of them.
LEMMA ReapedStep == IInv /\ [Next]_vars => Reaped'
<1> SUFFICES ASSUME IInv, [Next]_vars PROVE Reaped'
  OBVIOUS
<1>0. Reaped /\ worker \in [Conn -> ProcState]
  BY DEF IInv, NoLeak, TypeOK
<1>1. ASSUME UNCHANGED <<mgr, procVars>> PROVE Reaped'
  BY <1>0, <1>1 DEF Reaped, procVars
<1>2. ASSUME NEW t \in Thread, ThreadStep(t) \/ ThreadCall(t) PROVE Reaped'
  BY <1>1, <1>2
     DEF ThreadStep, ThreadCall, Get, GetLock, TakeLive, TakeDead, TakeNone,
         MakePair, MakeFail, SendFd, SendFdBroken, ReadReply, ReadError, Return,
         SaveWorn, SaveStore, Erase, EnsureIdle, EnsureStart, EnsureReturn,
         mgrVars
<1>3. ASSUME RecvFd \/ ForkFail \/ SendReply \/ CloseFd PROVE Reaped'
  BY <1>0, <1>3 DEF RecvFd, ForkFail, SendReply, CloseFd, Reaped, procVars
<1>4. ASSUME NEW p \in Pid, Fork(p) PROVE Reaped'
  BY <1>0, <1>4 DEF Fork, Reaped
<1>5. ASSUME SendReplyBroken \/ RecvEof PROVE Reaped'
  BY <1>0, <1>5 DEF SendReplyBroken, RecvEof, MgrGone, Reaped
<1>6. ASSUME Sigchild \/ MgrKill PROVE Reaped'
  BY <1>0, <1>6 DEF Sigchild, MgrKill, MgrGone, Reaped
<1>7. ASSUME NEW c \in Conn, WorkerExit(c) PROVE Reaped'
  BY <1>0, <1>7 DEF WorkerExit, Reaped, mgrVars
<1>8. ASSUME Destroy \/ AppExit \/ UNCHANGED vars PROVE Reaped'
  BY <1>1, <1>8 DEF Destroy, AppExit, vars, mgrVars
<1> QED
  BY <1>2, <1>3, <1>4, <1>5, <1>6, <1>7, <1>8
     DEF Next, MgrStep, Environment, WorkerEof, WorkerDie

-----------------------------------------------------------------------------
(* One create() at a time uses the channel.                                *)

LEMMA ChannelStep == IInv /\ [Next]_vars => ChannelInv'
<1> SUFFICES ASSUME IInv, [Next]_vars PROVE ChannelInv'
  OBVIOUS
<1>0. /\ TypeOK /\ LockInv /\ HeldInv /\ GoneInv /\ ChannelInv
      /\ NoThread \notin Thread /\ ForkError \notin Pid /\ ForkError # NoPid
      /\ NoPid \notin Pid
  BY NullAssumption DEF IInv
<1>a. /\ pc \in [Thread -> Location] /\ held \in [Thread -> Conn \cup {NoConn}]
      /\ fdQ \in Seq(Conn) /\ pduQ \in Seq(Pid \cup {ForkError})
      /\ mgrFd \in Conn \cup {NoConn} /\ mgrPdu \in Pid \cup {NoPid, ForkError}
      /\ wpid \in [Conn -> Pid \cup {NoPid}]
  BY <1>0 DEF TypeOK
\* Only the holder of mMutex reads or writes the channel.
<1>b. \A t, u \in Thread : pc[t] = "await" /\ pc[u] = "await" => t = u
  BY <1>0 DEF LockInv
<1>c. mutex = NoThread => \A t \in Thread : pc[t] # "await"
  BY <1>0 DEF LockInv
<1>1. ASSUME UNCHANGED <<app, chanVars, mgrVars, wpid>>,
             \A u \in Thread : pc[u] = "await" => pc'[u] = "await" /\ held'[u] = held[u]
      PROVE  ChannelInv'
  BY <1>0, <1>1 DEF ChannelInv, chanVars, mgrVars
<1>2. ASSUME app' = "gone", UNCHANGED <<chanVars, mgrVars, wpid>>
      PROVE  ChannelInv'
  BY <1>0, <1>2 DEF ChannelInv, chanVars, mgrVars
<1>3. ASSUME NEW t \in Thread, SendFd(t) PROVE ChannelInv'
  <2>1. /\ pc' = [pc EXCEPT ![t] = "await"] /\ fdQ' = Append(fdQ, held[t])
        /\ UNCHANGED <<app, held, pduQ, mgrVars, wpid>>
        /\ mutex = NoThread /\ pc[t] = "connect" /\ app = "up"
    BY <1>0, <1>3 DEF SendFd, Goto, procVars, GoneInv
  <2>2. \/ mgr = "dead"
        \/ fdQ = <<>> /\ mgr \notin {"fork", "reply"}
    BY <1>0, <1>c, <2>1 DEF ChannelInv
  <2>3. pduQ = <<>>
    BY <1>0, <1>c, <2>1 DEF ChannelInv
  <2>4. pc'[t] = "await" /\ held'[t] = held[t]
    BY <1>a, <2>1
  <2>5. fdQ = <<>> => fdQ' = <<held'[t]>>
    BY <1>a, <2>1, <2>4
  <2>6. mgr = "dead" => mgr' = "dead"
    BY <2>1 DEF mgrVars
  <2> QED
    BY <1>0, <2>1, <2>2, <2>3, <2>4, <2>5, <2>6 DEF ChannelInv, mgrVars
<1>4. ASSUME NEW t \in Thread, ReadReply(t) \/ ReadError(t) PROVE ChannelInv'
  <2>1. /\ pc[t] = "await" /\ app = "up"
        /\ UNCHANGED <<app, fdQ, mgrVars, wpid>>
    BY <1>0, <1>4 DEF ReadReply, ReadError, procVars, GoneInv
  <2>2. \/ pduQ # <<>> /\ pduQ' = Tail(pduQ)
        \/ pduQ = <<>> /\ pduQ' = <<>> /\ mgr = "dead"
    BY <1>4 DEF ReadReply, ReadError, ChannelClosed
  <2>3. pduQ' = <<>>
    BY <1>0, <1>a, <2>1, <2>2 DEF ChannelInv
  <2>4. mgr = "dead" \/ (fdQ = <<>> /\ mgr \notin {"fork", "reply"})
    BY <1>0, <2>1, <2>2 DEF ChannelInv
  <2> QED
    BY <1>0, <2>1, <2>3, <2>4 DEF ChannelInv, mgrVars
<1>5. ASSUME NEW t \in Thread, ThreadStep(t) \/ ThreadCall(t) PROVE ChannelInv'
  <2>1. ASSUME \/ Get(t) \/ GetLock(t) \/ TakeLive(t) \/ TakeDead(t)
               \/ TakeNone(t) \/ (\E c \in Conn : MakePair(t, c)) \/ MakeFail(t)
               \/ SendFdDropped(t) \/ Return(t) \/ SaveWorn(t) \/ SaveStore(t)
               \/ Erase(t) \/ (\E n \in Wanted : EnsureIdle(t, n))
               \/ EnsureStart(t) \/ EnsureReturn(t),
               UNCHANGED <<chanVars, mgrVars, procVars>>
        PROVE  ChannelInv'
    <3>1. pc[t] # "await" /\ app' = app
      BY <2>1
         DEF Get, GetLock, TakeLive, TakeDead, TakeNone, MakePair, MakeFail,
             SendFdDropped, Return, SaveWorn, SaveStore, Erase, EnsureIdle,
             EnsureStart, EnsureReturn
    <3>2. \A u \in Thread \ {t} : pc'[u] = pc[u] /\ held'[u] = held[u]
      BY <1>a, <2>1
         DEF Get, GetLock, TakeLive, TakeDead, TakeNone, MakePair, MakeFail,
             SendFdDropped, Return, SaveWorn, SaveStore, SaveDone, Erase,
             EnsureIdle, EnsureStart, EnsureReturn, Goto
    <3> QED BY <1>1, <2>1, <3>1, <3>2 DEF procVars
  <2>2. ASSUME SendFdBroken(t) PROVE ChannelInv'
    <3>1. UNCHANGED <<chanVars, mgrVars, procVars>>
      BY <2>2 DEF SendFdBroken
    <3>2. SendFdDropped(t) \/ AppGone
      BY <2>2 DEF SendFdBroken, SendFdDropped
    <3> QED BY <1>2, <2>1, <3>1, <3>2 DEF AppGone, procVars
  <2>3. \/ SendFd(t) \/ SendFdBroken(t) \/ ReadReply(t) \/ ReadError(t)
        \/ UNCHANGED <<chanVars, mgrVars, procVars>>
    BY <1>5
       DEF ThreadStep, ThreadCall, Get, GetLock, TakeLive, TakeDead, TakeNone,
           MakePair, MakeFail, Return, SaveWorn, SaveStore, Erase, EnsureIdle,
           EnsureStart, EnsureReturn
  <2> QED
    BY <1>3, <1>4, <1>5, <2>1, <2>2, <2>3 DEF ThreadStep, ThreadCall
<1>6. CASE Destroy
  <2>1. \A u \in Thread : pc[u] # "await"
    BY <1>6 DEF Destroy
  <2> QED BY <1>0, <1>6, <2>1 DEF Destroy, ChannelInv, chanVars, mgrVars, procVars
<1>7. CASE AppExit
  BY <1>2, <1>7 DEF AppExit, AppGone, procVars
<1>8. CASE RecvFd
  <2>1. /\ mgrFd' = Head(fdQ) /\ fdQ' = Tail(fdQ) /\ mgr' = "fork" /\ mgr = "recv"
        /\ fdQ # <<>>
        /\ UNCHANGED <<app, pc, held, pduQ, mgrPdu, wpid>>
    BY <1>8 DEF RecvFd, appVars, procVars
  <2>2. mgrFd' \in Conn
    BY <1>a, <2>1
  <2>3. app = "gone" \/ (fdQ' = <<>> /\ pduQ = <<>>
                          /\ \E t \in Thread : pc[t] = "await" /\ held[t] = mgrFd')
    BY <1>0, <1>a, <2>1 DEF ChannelInv
  <2> QED BY <1>0, <2>1, <2>2, <2>3 DEF ChannelInv
<1>9. ASSUME NEW p \in Pid, Fork(p) PROVE ChannelInv'
  <2>1. /\ wpid' = [wpid EXCEPT ![mgrFd] = p] /\ mgrPdu' = p /\ mgr' = "reply"
        /\ mgr = "fork" /\ mgrFd \in Conn
        /\ UNCHANGED <<app, pc, held, fdQ, pduQ, mgrFd>>
    BY <1>0, <1>9 DEF Fork, ChannelInv, appVars, chanVars
  <2>2. wpid'[mgrFd'] = mgrPdu'
    BY <1>a, <2>1
  <2>3. app = "gone" \/ (fdQ = <<>> /\ pduQ = <<>>
                          /\ \E t \in Thread : pc[t] = "await" /\ held[t] = mgrFd)
    BY <1>0, <2>1 DEF ChannelInv
  <2> QED BY <1>0, <2>1, <2>2, <2>3 DEF ChannelInv
<1>10. CASE ForkFail
  BY <1>0, <1>10 DEF ForkFail, ChannelInv, appVars, chanVars, procVars
<1>11. CASE SendReply
  <2>1. /\ pduQ' = Append(pduQ, mgrPdu) /\ mgr' = "close" /\ mgr = "reply"
        /\ app = "up" /\ UNCHANGED <<app, pc, held, fdQ, mgrFd, wpid>>
    BY <1>11 DEF SendReply, appVars, procVars
  <2>2. PICK t \in Thread : pc[t] = "await" /\ held[t] = mgrFd
    BY <1>0, <2>1 DEF ChannelInv
  <2>3. fdQ = <<>> /\ pduQ' = <<mgrPdu>>
    BY <1>0, <1>a, <2>1 DEF ChannelInv
  <2>4. mgrPdu = ForkError \/ mgrPdu = wpid[held[t]]
    BY <1>0, <1>a, <2>1, <2>2 DEF ChannelInv
  <2> QED BY <1>0, <2>1, <2>2, <2>3, <2>4 DEF ChannelInv
<1>12. CASE SendReplyBroken
  BY <1>0, <1>12 DEF SendReplyBroken, MgrGone, ChannelInv, appVars, chanVars, GoneInv
<1>13. CASE CloseFd
  BY <1>0, <1>13 DEF CloseFd, ChannelInv, appVars, chanVars, procVars
<1>14. CASE RecvEof
  <2>1. /\ mgr = "recv" /\ fdQ = <<>> /\ mgr' \in {"spin", "dead"}
        /\ UNCHANGED <<fdQ, pduQ, mgrFd, mgrPdu, wpid>>
        /\ app # "up" /\ (app' = "gone" \/ UNCHANGED <<app, pc, held>>)
    BY <1>14 DEF RecvEof, AppGone, appVars, chanVars
  <2> QED BY <1>0, <2>1 DEF ChannelInv
<1>15. CASE Sigchild
  BY <1>0, <1>15 DEF Sigchild, ChannelInv, appVars, chanVars
<1>16. CASE MgrKill
  BY <1>0, <1>16 DEF MgrKill, MgrGone, ChannelInv, appVars, chanVars
<1>17. ASSUME NEW c \in Conn, WorkerExit(c) PROVE ChannelInv'
  BY <1>1, <1>17 DEF WorkerExit, appVars
<1>18. CASE UNCHANGED vars
  BY <1>1, <1>18 DEF vars, appVars, procVars
<1> QED
  BY <1>5, <1>6, <1>7, <1>8, <1>9, <1>10, <1>11, <1>12, <1>13, <1>14, <1>15,
     <1>16, <1>17, <1>18
     DEF Next, MgrStep, Environment, WorkerEof, WorkerDie

-----------------------------------------------------------------------------
(* An info names the process at the other end of its pipe.                 *)

LEMMA PairingStep == IInv /\ [Next]_vars => Paired'
<1> SUFFICES ASSUME IInv, [Next]_vars PROVE Paired'
  OBVIOUS
<1>0. /\ TypeOK /\ LockInv /\ HeldInv /\ GoneInv /\ LeaseExclusive /\ ChannelInv
      /\ Paired
      /\ NoConn \notin Conn /\ NoPid \notin Pid /\ ForkError \notin Pid
  BY NullAssumption DEF IInv, PidPairing
<1>a. /\ pc \in [Thread -> Location] /\ held \in [Thread -> Conn \cup {NoConn}]
      /\ list \in Seq(Conn) /\ Listed \subseteq Conn
      /\ pid \in [Conn -> Pid \cup {NoPid}] /\ wpid \in [Conn -> Pid \cup {NoPid}]
      /\ \A t \in Thread : Completed(t) => held[t] \in Conn
      /\ Distinct(list)
  BY <1>0, OwnedType
     DEF TypeOK, HeldInv, Completed, LeaseExclusive, Distinct
<1>1. ASSUME UNCHANGED <<pid, wpid>>, Listed' \subseteq Listed \cup Held,
             \A c \in Listed' \ Listed : \E u \in Thread : Completed(u) /\ held[u] = c,
             \A u \in Thread : pc'[u] \in {"have", "save"} =>
                \/ Completed(u) /\ held'[u] = held[u]
                \/ held'[u] \in Listed
      PROVE  Paired'
  BY <1>0, <1>1 DEF Paired, Completed
<1>2. ASSUME NEW t \in Thread, TakeLive(t) PROVE Paired'
  <2>1. /\ list' = Front(list) /\ held' = [held EXCEPT ![t] = Last(list)]
        /\ list # <<>> /\ UNCHANGED <<pid, wpid>> /\ pc' = [pc EXCEPT ![t] = "have"]
    BY <1>2 DEF TakeLive, procVars, Goto
  <2>2. Listed' = Listed \ {Last(list)} /\ Last(list) \in Listed
    BY <1>a, <2>1, TakeLast DEF Listed
  <2> QED BY <1>1, <1>a, <2>1, <2>2 DEF Completed
<1>3. ASSUME NEW t \in Thread, TakeDead(t) PROVE Paired'
  <2>1. /\ list' = Front(list) /\ UNCHANGED <<held, pc, wpid>> /\ list # <<>>
        /\ pid' = [c \in Conn |-> IF c \in {Last(list)} THEN NoPid ELSE pid[c]]
    BY <1>3 DEF TakeDead, Delete, procVars
  <2>2. Listed' = Listed \ {Last(list)} /\ Last(list) \in Listed
    BY <1>a, <2>1, TakeLast DEF Listed
  <2>3. \A u \in Thread : held[u] # Last(list)
    BY <1>0, <2>2 DEF LeaseExclusive
  <2> QED BY <1>0, <1>a, <2>1, <2>2, <2>3 DEF Paired, Completed
<1>4. ASSUME NEW t \in Thread, ReadReply(t) PROVE Paired'
  <2>1. /\ pc' = [pc EXCEPT ![t] = IF todo[t] = 0 THEN "have" ELSE "save"]
        /\ pid' = [pid EXCEPT ![held[t]] = Head(pduQ)]
        /\ UNCHANGED <<list, held, wpid>> /\ pduQ # <<>> /\ Head(pduQ) \in Pid
        /\ pc[t] = "await" /\ app = "up"
    BY <1>0, <1>4 DEF ReadReply, Goto, procVars, GoneInv
  <2>2. held[t] \in Conn /\ held[t] \notin Listed
    BY <1>0, <1>a, <2>1 DEF HeldInv, LeaseExclusive
  <2>3. Head(pduQ) = wpid[held[t]]
    <3>1. PICK u \in Thread :
             pc[u] = "await" /\ (pduQ = <<ForkError>> \/ pduQ = <<wpid[held[u]]>>)
      BY <1>0, <2>1 DEF ChannelInv
    <3>2. u = t
      BY <1>0, <2>1, <3>1 DEF LockInv
    <3>3. pduQ # <<ForkError>>
      BY <1>0, <2>1
    <3> QED BY <3>1, <3>2, <3>3
  <2>4. \A u \in Thread \ {t} : held[u] # held[t]
    BY <1>0, <2>2 DEF LeaseExclusive
  <2>5. Listed' = Listed
    BY <2>1 DEF Listed
  <2>6. \A c \in Listed' : pid'[c] = wpid'[c]
    BY <1>0, <1>a, <2>1, <2>2, <2>5 DEF Paired
  <2>7. ASSUME NEW u \in Thread, pc'[u] \in {"have", "save"}
        PROVE  pid'[held'[u]] = wpid'[held'[u]]
    <3>1. CASE u = t
      BY <1>a, <2>1, <2>2, <2>3, <3>1
    <3>2. CASE u # t
      <4>1. Completed(u)
        BY <1>a, <2>1, <2>7, <3>2 DEF Completed
      <4> QED BY <1>0, <1>a, <2>1, <2>2, <2>4, <3>2, <4>1 DEF Paired
    <3> QED BY <3>1, <3>2
  <2> QED BY <2>6, <2>7 DEF Paired, Completed
\* save() and erase() that delete the info.
<1>5. ASSUME NEW t \in Thread, Completed(t), list' = list,
             pid' = [c \in Conn |-> IF c \in {held[t]} THEN NoPid ELSE pid[c]],
             wpid' = wpid, held' = [held EXCEPT ![t] = NoConn],
             pc'[t] \notin {"have", "save"},
             \A u \in Thread \ {t} : pc'[u] = pc[u]
      PROVE  Paired'
  <2>1. held[t] \in Conn /\ held[t] \notin Listed /\ Listed' = Listed
    BY <1>0, <1>a, <1>5 DEF LeaseExclusive, Listed
  <2>2. \A u \in Thread \ {t} : held[u] # held[t]
    BY <1>0, <2>1 DEF LeaseExclusive
  <2> QED BY <1>0, <1>a, <1>5, <2>1, <2>2 DEF Paired, Completed
<1>6. ASSUME NEW t \in Thread, SaveWorn(t) \/ Erase(t) PROVE Paired'
  <2>1. pc'[t] \in {"out", "count", "make"} /\ \A u \in Thread \ {t} : pc'[u] = pc[u]
    BY <1>a, <1>6 DEF SaveWorn, SaveDone, Erase, Goto
  <2> QED BY <1>5, <1>6, <2>1
          DEF SaveWorn, SaveDone, Erase, Delete, Completed, procVars
<1>7. ASSUME NEW t \in Thread, SaveStore(t) PROVE Paired'
  <2>1. pc'[t] \in {"out", "count", "make"} /\ \A u \in Thread \ {t} : pc'[u] = pc[u]
    BY <1>a, <1>7 DEF SaveStore, SaveDone, Goto
  <2>2. /\ Completed(t) /\ held' = [held EXCEPT ![t] = NoConn] /\ wpid' = wpid
    BY <1>7 DEF SaveStore, SaveDone, Completed, procVars
  <2>3. CASE EnoughIdle
    BY <1>5, <1>7, <2>1, <2>2, <2>3 DEF SaveStore, Delete
  <2>4. CASE ~EnoughIdle
    <3>1. list' = Append(list, held[t]) /\ pid' = pid
      BY <1>7, <2>4 DEF SaveStore
    <3>2. Listed' = Listed \cup {held[t]} /\ held[t] \in Held
      BY <1>0, <1>a, <2>2, <3>1, AppendNew DEF Listed, Held
    <3>3. \A u \in Thread : pc'[u] \in {"have", "save"} =>
                               Completed(u) /\ held'[u] = held[u]
      BY <1>a, <2>1, <2>2 DEF Completed
    <3> QED BY <1>1, <2>2, <3>1, <3>2, <3>3
  <2> QED BY <2>3, <2>4
\* Nothing but other fields of the pool, or infos nobody has completed.
<1>8. ASSUME UNCHANGED <<list, pid, wpid>>,
             \A u \in Thread : pc'[u] \in {"have", "save"} =>
                                  Completed(u) /\ held'[u] = held[u]
      PROVE  Paired'
  BY <1>1, <1>8 DEF Listed
<1>9. ASSUME NEW t \in Thread,
             \/ Get(t) \/ GetLock(t) \/ TakeNone(t) \/ MakeFail(t) \/ SendFd(t)
             \/ SendFdDropped(t) \/ Return(t)
             \/ EnsureStart(t) \/ EnsureReturn(t)
             \/ (\E c \in Conn : MakePair(t, c))
             \/ (\E n \in Wanted : EnsureIdle(t, n)),
             wpid' = wpid
      PROVE  Paired'
  <2>1. UNCHANGED <<list, pid>>
    BY <1>9
       DEF Get, GetLock, TakeNone, MakeFail, SendFd, SendFdDropped, Return,
           EnsureStart, EnsureReturn, MakePair, EnsureIdle
  <2>2. \A u \in Thread : pc'[u] \in {"have", "save"} =>
                             Completed(u) /\ held'[u] = held[u]
    BY <1>a, <1>9
       DEF Get, GetLock, TakeNone, MakeFail, SendFd, SendFdDropped, Return,
           EnsureStart, EnsureReturn, MakePair, EnsureIdle, AfterFailure, Goto,
           Completed
  <2> QED BY <1>8, <1>9, <2>1, <2>2
<1>10. ASSUME NEW t \in Thread, ReadError(t) PROVE Paired'
  <2>1. /\ UNCHANGED <<list, pid, wpid>> /\ held' = [held EXCEPT ![t] = NoConn]
        /\ pc[t] = "await" /\ pc' = [pc EXCEPT ![t] = AfterFailure(t)]
    BY <1>10 DEF ReadError, Goto, procVars
  <2>2. AfterFailure(t) \notin {"have", "save"}
    BY DEF AfterFailure
  <2> QED BY <1>8, <1>a, <2>1, <2>2 DEF Completed
<1>11. ASSUME app' = "gone", list' = <<>>, pc' = [t \in Thread |-> "out"]
       PROVE  Paired'
  BY <1>11, EmptyList DEF Paired, Completed, Listed
<1>12. CASE Destroy
  <2>1. Listed' = {} /\ \A t \in Thread : pc'[t] = "out"
    BY <1>12, EmptyList DEF Destroy, Listed
  <2> QED BY <2>1 DEF Paired, Completed
<1>13. ASSUME UNCHANGED <<appVars, wpid>> PROVE Paired'
  BY <1>8, <1>13 DEF appVars, Completed
<1>14. ASSUME NEW p \in Pid, Fork(p) PROVE Paired'
  <2>1. /\ UNCHANGED appVars /\ mgrFd \in Conn /\ mgr = "fork"
        /\ wpid' = [wpid EXCEPT ![mgrFd] = p]
    BY <1>0, <1>14 DEF Fork, ChannelInv
  <2>2. mgrFd \notin Listed /\ \A u \in Thread : Completed(u) => held[u] # mgrFd
    <3>1. CASE app = "gone"
      BY <1>0, <3>1, EmptyList DEF GoneInv, Listed, Completed
    <3>2. CASE app # "gone"
      <4>1. PICK t \in Thread : pc[t] = "await" /\ held[t] = mgrFd
        BY <1>0, <2>1, <3>2 DEF ChannelInv
      <4>2. \A u \in Thread : Completed(u) => u # t
        BY <4>1 DEF Completed
      <4> QED BY <1>0, <2>1, <4>1, <4>2 DEF LeaseExclusive
    <3> QED BY <3>1, <3>2
  <2>3. list' = list /\ held' = held /\ pc' = pc /\ pid' = pid
    BY <2>1 DEF appVars
  <2>4. Listed' = Listed
    BY <2>3 DEF Listed
  <2> QED BY <1>0, <1>a, <2>1, <2>2, <2>3, <2>4 DEF Paired, Completed
<1>15. ASSUME NEW t \in Thread, ThreadStep(t) \/ ThreadCall(t) PROVE Paired'
  <2>1. wpid' = wpid
    BY <1>15
       DEF ThreadStep, ThreadCall, Get, GetLock, TakeLive, TakeDead, TakeNone,
           MakePair, MakeFail, SendFd, SendFdBroken, ReadReply, ReadError,
           Return, SaveWorn, SaveStore, Erase, EnsureIdle, EnsureStart,
           EnsureReturn, procVars
  <2>2. SendFdBroken(t) => SendFdDropped(t) \/ AppGone
    BY DEF SendFdBroken, SendFdDropped
  <2> QED
    BY <1>2, <1>3, <1>4, <1>6, <1>7, <1>9, <1>10, <1>11, <1>15, <2>1, <2>2
       DEF ThreadStep, ThreadCall, AppGone
<1>16. ASSUME MgrStep, \A p \in Pid : ~Fork(p) PROVE Paired'
  <2>1. wpid' = wpid /\ (UNCHANGED appVars \/ AppGone)
    BY <1>16
       DEF MgrStep, RecvFd, ForkFail, SendReply, SendReplyBroken, MgrGone, CloseFd,
           RecvEof, procVars
  <2> QED BY <1>11, <1>13, <2>1 DEF AppGone
<1>17. ASSUME \/ Sigchild \/ MgrKill \/ UNCHANGED vars
              \/ \E c \in Conn : WorkerEof(c) \/ WorkerDie(c)
       PROVE  Paired'
  BY <1>13, <1>17
     DEF Sigchild, MgrKill, MgrGone, WorkerEof, WorkerDie, WorkerExit, vars, procVars
<1> QED
  BY <1>11, <1>12, <1>14, <1>15, <1>16, <1>17
     DEF Next, MgrStep, Environment, AppExit, AppGone

-----------------------------------------------------------------------------
(* A create() that waits for the manager is going to be answered.          *)

LEMMA ServedStep == IInv /\ [Next]_vars => Served'
<1> SUFFICES ASSUME IInv, [Next]_vars PROVE Served'
  OBVIOUS
<1>0. TypeOK /\ LockInv /\ HeldInv /\ GoneInv /\ ChannelInv /\ Served
  BY DEF IInv, PidPairing
<1>a. /\ pc \in [Thread -> Location] /\ held \in [Thread -> Conn \cup {NoConn}]
      /\ fdQ \in Seq(Conn) /\ pduQ \in Seq(Pid \cup {ForkError})
  BY <1>0 DEF TypeOK
<1>b. \A t \in Thread : pc[t] = "await" => app = "up"
  BY <1>0 DEF GoneInv
<1>1. ASSUME NEW t \in Thread, SendFd(t) PROVE Served'
  <2>1. /\ pc' = [pc EXCEPT ![t] = "await"] /\ fdQ' = Append(fdQ, held[t])
        /\ UNCHANGED <<app, held, pduQ, mgrVars>>
        /\ mutex = NoThread /\ pc[t] = "connect" /\ app = "up" /\ held[t] \in Conn
    BY <1>0, <1>1 DEF SendFd, Goto, procVars, GoneInv, HeldInv, TypeOK
  <2>2. \A u \in Thread : pc[u] # "await"
    BY <1>0, <2>1, NullAssumption DEF LockInv
  <2>3. mgr = "dead" \/ (fdQ = <<>> /\ mgr \in {"recv", "close"})
    BY <1>0, <2>1, <2>2 DEF ChannelInv, TypeOK, MgrState
  <2>4. \A u \in Thread : pc'[u] = "await" => u = t /\ held'[u] = held[t]
    BY <1>a, <2>1, <2>2
  <2>5. fdQ = <<>> => fdQ' = <<held[t]>>
    BY <2>1
  <2> QED BY <2>1, <2>3, <2>4, <2>5 DEF Served, mgrVars
<1>2. ASSUME NEW t \in Thread, ReadReply(t) \/ ReadError(t) PROVE Served'
  <2>1. /\ pc[t] = "await" /\ pc'[t] # "await"
        /\ \A u \in Thread \ {t} : pc'[u] = pc[u]
    BY <1>a, <1>2 DEF ReadReply, ReadError, Goto, AfterFailure
  <2>2. \A u \in Thread : pc'[u] # "await"
    BY <1>0, <2>1 DEF LockInv
  <2> QED BY <2>2 DEF Served
<1>3. ASSUME UNCHANGED <<chanVars, mgr, mgrFd>> \/ mgr' = "dead",
             \A u \in Thread : pc'[u] = "await" => pc[u] = "await" /\ held'[u] = held[u]
      PROVE  Served'
  BY <1>0, <1>3 DEF Served, chanVars
<1>4. ASSUME \A u \in Thread : pc'[u] # "await" PROVE Served'
  BY <1>4 DEF Served
<1>5. ASSUME NEW t \in Thread, ThreadStep(t) \/ ThreadCall(t),
             ~SendFd(t), ~ReadReply(t), ~ReadError(t)
      PROVE  Served'
  <2>1. CASE AppGone
    BY <1>4, <2>1 DEF AppGone
  <2>2. CASE ~AppGone
    <3>1. /\ UNCHANGED <<chanVars, mgr, mgrFd>> /\ pc[t] # "await"
          /\ \E loc \in Location \ {"await"} : Goto(t, loc) \/ UNCHANGED pc
          /\ held' = held \/ \E c : held' = [held EXCEPT ![t] = c]
      BY <1>a, <1>5, <2>2
         DEF ThreadStep, ThreadCall, Get, GetLock, TakeLive, TakeDead, TakeNone, MakePair,
             MakeFail, SendFdBroken, Return, SaveWorn, SaveStore, SaveDone, Erase, EnsureIdle,
             EnsureStart, EnsureReturn, AfterFailure, Goto, Location, mgrVars
    <3>2. \A u \in Thread : pc'[u] = "await" => pc[u] = "await" /\ held'[u] = held[u]
      BY <1>a, <3>1 DEF Goto
    <3> QED BY <1>3, <3>1, <3>2
  <2> QED BY <2>1, <2>2
<1>6. CASE RecvFd
  <2>1. /\ mgrFd' = Head(fdQ) /\ mgr' = "fork" /\ mgr = "recv"
        /\ UNCHANGED <<pc, held, pduQ>>
    BY <1>6 DEF RecvFd, appVars
  <2>2. ASSUME NEW t \in Thread, pc[t] = "await" PROVE pduQ # <<>> \/ mgrFd' = held[t]
    <3>1. pduQ # <<>> \/ fdQ = <<held[t]>>
      BY <1>0, <2>1, <2>2 DEF Served
    <3> QED BY <2>1, <3>1
  <2> QED BY <2>1, <2>2 DEF Served
<1>7. CASE (\E p \in Pid : Fork(p)) \/ ForkFail \/ CloseFd
  BY <1>0, <1>7 DEF Fork, ForkFail, CloseFd, appVars, chanVars, Served
<1>8. CASE SendReply
  <2>1. pduQ' = Append(pduQ, mgrPdu) /\ mgrPdu \in Pid \cup {ForkError}
    BY <1>0, <1>8 DEF SendReply, ChannelInv, TypeOK
  <2>2. pduQ' # <<>>
    BY <1>a, <2>1
  <2> QED BY <2>2 DEF Served
<1>9. CASE SendReplyBroken \/ RecvEof
  <2>1. \A u \in Thread : pc[u] # "await"
    BY <1>9, <1>b DEF SendReplyBroken, MgrGone, RecvEof
  <2>2. UNCHANGED pc \/ AppGone
    BY <1>9 DEF SendReplyBroken, MgrGone, RecvEof, appVars
  <2> QED BY <1>4, <2>1, <2>2 DEF AppGone
<1>10. CASE Destroy \/ AppExit
  BY <1>4, <1>10 DEF Destroy, AppExit, AppGone
<1>11. CASE Sigchild \/ MgrKill \/ UNCHANGED vars
  BY <1>3, <1>11 DEF Sigchild, MgrKill, MgrGone, vars, appVars, mgrVars
<1>12. ASSUME NEW c \in Conn, WorkerExit(c) PROVE Served'
  BY <1>3, <1>12 DEF WorkerExit, appVars, mgrVars
<1> QED
  BY <1>1, <1>2, <1>5, <1>6, <1>7, <1>8, <1>9, <1>10, <1>11, <1>12
     DEF Next, MgrStep, Environment, WorkerEof, WorkerDie

-----------------------------------------------------------------------------
(* The limits set by setMaxRequestsPerProc and setMaxIdleProc.             *)

\* The process of an info that a caller of get() has.
LentTo(t) == Completed(t) /\ todo[t] = 0

LEMMA IdleLimitStep == IInv /\ [Next]_vars => IdleLimit'
<1> SUFFICES ASSUME IInv, [Next]_vars PROVE IdleLimit'
  OBVIOUS
<1>0. list \in Seq(Conn) /\ Len(list) \in Nat /\ IdleLimit /\ MaxIdleProc \in Nat
      /\ held \in [Thread -> Conn \cup {NoConn}] /\ HeldInv
  BY ConstantAssumption DEF IInv, TypeOK
<1>1. ASSUME list' = list PROVE IdleLimit'
  BY <1>0, <1>1 DEF IdleLimit
<1>2. ASSUME list' = <<>> PROVE IdleLimit'
  BY <1>0, <1>2, EmptyList DEF IdleLimit
<1>3. ASSUME list # <<>>, list' = Front(list) PROVE IdleLimit'
  <2>1. Len(list') = Len(list) - 1
    BY <1>0, <1>3, TakeLast
  <2> QED BY <1>0, <2>1 DEF IdleLimit
<1>4. ASSUME NEW t \in Thread, SaveStore(t) PROVE IdleLimit'
  <2>1. CASE EnoughIdle
    BY <1>1, <1>4, <2>1 DEF SaveStore
  <2>2. CASE ~EnoughIdle
    <3>1. list' = Append(list, held[t]) /\ held[t] \in Conn
      BY <1>0, <1>4, <2>2 DEF SaveStore, HeldInv
    <3>2. Len(list') = Len(list) + 1
      BY <1>0, <3>1, AppendNew
    <3>3. MaxIdleProc > 0 => Len(list) < MaxIdleProc
      BY <1>0, <2>2 DEF EnoughIdle
    <3> QED BY <1>0, <3>2, <3>3 DEF IdleLimit
  <2> QED BY <2>1, <2>2
<1>5. ASSUME NEW t \in Thread, AppThreadStep(t) PROVE IdleLimit'
  BY <1>1, <1>3, <1>4, <1>5
     DEF AppThreadStep, Get, GetLock, TakeLive, TakeDead, TakeNone, MakePair,
         MakeFail, SendFd, SendFdDropped, ReadReply, ReadError, Return,
         SaveWorn, Erase, EnsureIdle, EnsureStart, EnsureReturn
<1> QED
  BY <1>1, <1>2, <1>5, AppStep DEF Destroy, AppGone, appVars

Counting == CountInv /\ RequestLimit

LEMMA CountingStep == IInv /\ [Next]_vars => Counting'
<1> SUFFICES ASSUME IInv, [Next]_vars PROVE Counting'
  OBVIOUS
<1>0. /\ TypeOK /\ HeldInv /\ TodoInv /\ GoneInv /\ LeaseExclusive
      /\ CountInv /\ RequestLimit
      /\ NoConn \notin Conn /\ MaxRequestsPerProc \in Nat
  BY ConstantAssumption, NullAssumption DEF IInv
<1>a. /\ pc \in [Thread -> Location] /\ held \in [Thread -> Conn \cup {NoConn}]
      /\ todo \in [Thread -> Nat] /\ requests \in [Conn -> Nat]
      /\ list \in Seq(Conn) /\ Listed \subseteq Conn
      /\ \A t \in Thread : Completed(t) => held[t] \in Conn
      /\ Distinct(list)
  BY <1>0, OwnedType
     DEF TypeOK, HeldInv, Completed, LeaseExclusive, Distinct
<1>b. \A c \in Conn : requests[c] # 0 =>
         c \in Listed \/ \E t \in Thread : LentTo(t) /\ held[t] = c
  BY <1>0 DEF CountInv, LentTo
\* It suffices to say which infos are listed, lent and counted afterwards.
<1>c. ASSUME \A c \in Conn : requests'[c] # 0 =>
                \/ c \in Listed'
                \/ \E t \in Thread :
                      pc'[t] \in {"have", "save"} /\ todo'[t] = 0 /\ held'[t] = c,
             MaxRequestsPerProc > 0 =>
                /\ \A c \in Listed' : requests'[c] < MaxRequestsPerProc
                /\ \A t \in Thread : pc'[t] \in {"have", "save"} =>
                      requests'[held'[t]] <= MaxRequestsPerProc
      PROVE  Counting'
  BY <1>c DEF Counting, CountInv, RequestLimit, Completed
<1>1. ASSUME UNCHANGED <<list, requests>>,
             \A u \in Thread : pc'[u] \in {"have", "save"} =>
                                  Completed(u) /\ held'[u] = held[u],
             \A u \in Thread : LentTo(u) =>
                pc'[u] \in {"have", "save"} /\ todo'[u] = 0 /\ held'[u] = held[u]
      PROVE  Counting'
  <2>1. Listed' = Listed
    BY <1>1 DEF Listed
  <2>2. \A c \in Conn : requests'[c] # 0 =>
           \/ c \in Listed'
           \/ \E t \in Thread :
                 pc'[t] \in {"have", "save"} /\ todo'[t] = 0 /\ held'[t] = c
    BY <1>b, <1>1, <2>1
  <2>3. MaxRequestsPerProc > 0 =>
           /\ \A c \in Listed' : requests'[c] < MaxRequestsPerProc
           /\ \A t \in Thread : pc'[t] \in {"have", "save"} =>
                 requests'[held'[t]] <= MaxRequestsPerProc
    BY <1>0, <1>1, <2>1 DEF RequestLimit
  <2> QED BY <1>c, <2>2, <2>3
<1>2. ASSUME NEW t \in Thread, TakeLive(t) PROVE Counting'
  <2>1. /\ list' = Front(list) /\ held' = [held EXCEPT ![t] = Last(list)]
        /\ list # <<>> /\ pc' = [pc EXCEPT ![t] = "have"] /\ todo' = todo
        /\ requests' = [requests EXCEPT ![Last(list)] = @ + 1]
        /\ todo[t] = 0 /\ ~Completed(t)
    BY <1>0, <1>2 DEF TakeLive, Goto, TodoInv, Completed
  <2>2. /\ Listed' = Listed \ {Last(list)} /\ Last(list) \in Listed
    BY <1>a, <2>1, TakeLast DEF Listed
  <2>3. \A u \in Thread : held[u] # Last(list)
    BY <1>0, <2>2 DEF LeaseExclusive
  <2>4. pc'[t] = "have" /\ todo'[t] = 0 /\ held'[t] = Last(list)
    BY <1>a, <2>1
  <2>5. \A u \in Thread \ {t} : pc'[u] = pc[u] /\ todo'[u] = todo[u] /\ held'[u] = held[u]
    BY <1>a, <2>1
  <2>6. \A c \in Conn : requests'[c] = IF c = Last(list) THEN requests[c] + 1
                                                         ELSE requests[c]
    BY <1>a, <2>1
  <2>7. ASSUME NEW c \in Conn, requests'[c] # 0
        PROVE  \/ c \in Listed'
               \/ \E u \in Thread :
                     pc'[u] \in {"have", "save"} /\ todo'[u] = 0 /\ held'[u] = c
    <3>1. CASE c = Last(list)
      BY <2>4, <3>1
    <3>2. CASE c # Last(list)
      <4>1. c \in Listed' \/ \E u \in Thread : LentTo(u) /\ held[u] = c
        BY <1>b, <2>2, <2>6, <2>7, <3>2
      <4> QED BY <2>1, <2>5, <4>1 DEF LentTo, Completed
    <3> QED BY <3>1, <3>2
  <2>8. ASSUME MaxRequestsPerProc > 0
        PROVE  /\ \A c \in Listed' : requests'[c] < MaxRequestsPerProc
               /\ \A u \in Thread : pc'[u] \in {"have", "save"} =>
                     requests'[held'[u]] <= MaxRequestsPerProc
    <3>1. requests[Last(list)] < MaxRequestsPerProc
      BY <1>0, <2>2, <2>8 DEF RequestLimit
    <3>2. \A c \in Listed' : requests'[c] < MaxRequestsPerProc
      BY <1>0, <1>a, <2>2, <2>6, <2>8 DEF RequestLimit
    <3>3. requests'[held'[t]] <= MaxRequestsPerProc
      BY <1>0, <1>a, <2>2, <2>4, <2>6, <3>1
    <3>4. \A u \in Thread \ {t} : pc'[u] \in {"have", "save"} =>
             requests'[held'[u]] <= MaxRequestsPerProc
      BY <1>0, <1>a, <2>3, <2>5, <2>6, <2>8 DEF RequestLimit, Completed
    <3> QED BY <3>2, <3>3, <3>4
  <2> QED BY <1>c, <2>7, <2>8
<1>3. ASSUME NEW t \in Thread, TakeDead(t) PROVE Counting'
  <2>1. /\ list' = Front(list) /\ UNCHANGED <<held, pc, todo>> /\ list # <<>>
        /\ requests' = [c \in Conn |-> IF c \in {Last(list)} THEN 0 ELSE requests[c]]
    BY <1>3 DEF TakeDead, Delete
  <2>2. Listed' = Listed \ {Last(list)} /\ Last(list) \in Listed
    BY <1>a, <2>1, TakeLast DEF Listed
  <2>3. \A u \in Thread : held[u] # Last(list)
    BY <1>0, <2>2 DEF LeaseExclusive
  <2>4. \A c \in Conn : requests'[c] # 0 =>
           \/ c \in Listed'
           \/ \E u \in Thread :
                 pc'[u] \in {"have", "save"} /\ todo'[u] = 0 /\ held'[u] = c
    BY <1>b, <2>1, <2>2 DEF LentTo, Completed
  <2>5. MaxRequestsPerProc > 0 =>
           /\ \A c \in Listed' : requests'[c] < MaxRequestsPerProc
           /\ \A u \in Thread : pc'[u] \in {"have", "save"} =>
                 requests'[held'[u]] <= MaxRequestsPerProc
    BY <1>0, <1>a, <2>1, <2>2, <2>3 DEF RequestLimit, Completed
  <2> QED BY <1>c, <2>4, <2>5
<1>4. ASSUME NEW t \in Thread, ReadReply(t) PROVE Counting'
  <2>1. /\ pc' = [pc EXCEPT ![t] = IF todo[t] = 0 THEN "have" ELSE "save"]
        /\ requests' = [requests EXCEPT ![held[t]] = IF todo[t] = 0 THEN 1 ELSE 0]
        /\ UNCHANGED <<list, held, todo>> /\ pc[t] = "await"
    BY <1>4 DEF ReadReply, Goto
  <2>2. /\ held[t] \in Conn /\ held[t] \notin Listed
        /\ \A u \in Thread \ {t} : held[u] # held[t]
    BY <1>0, <1>a, <2>1 DEF HeldInv, LeaseExclusive
  <2>3. Listed' = Listed /\ ~Completed(t)
    BY <2>1 DEF Listed, Completed
  <2>4. \A u \in Thread \ {t} : pc'[u] = pc[u]
    BY <1>a, <2>1
  <2>5. pc'[t] \in {"have", "save"}
    BY <1>a, <2>1
  <2>6. requests'[held[t]] \in {0, 1} /\ (requests'[held[t]] # 0 => todo[t] = 0)
    BY <1>a, <2>1, <2>2
  <2>7. \A c \in Conn \ {held[t]} : requests'[c] = requests[c]
    BY <1>a, <2>1
  <2>8. ASSUME NEW c \in Conn, requests'[c] # 0
        PROVE  \/ c \in Listed'
               \/ \E u \in Thread :
                     pc'[u] \in {"have", "save"} /\ todo'[u] = 0 /\ held'[u] = c
    <3>1. CASE c = held[t]
      BY <2>1, <2>5, <2>6, <2>8, <3>1
    <3>2. CASE c # held[t]
      <4>1. c \in Listed \/ \E u \in Thread : LentTo(u) /\ held[u] = c
        BY <1>b, <2>7, <2>8, <3>2
      <4> QED BY <2>1, <2>3, <2>4, <3>2, <4>1 DEF LentTo, Completed
    <3> QED BY <3>1, <3>2
  <2>9. ASSUME MaxRequestsPerProc > 0
        PROVE  /\ \A c \in Listed' : requests'[c] < MaxRequestsPerProc
               /\ \A u \in Thread : pc'[u] \in {"have", "save"} =>
                     requests'[held'[u]] <= MaxRequestsPerProc
    <3>1. \A c \in Listed' : requests'[c] < MaxRequestsPerProc
      BY <1>0, <1>a, <2>2, <2>3, <2>7, <2>9 DEF RequestLimit
    <3>2. requests'[held'[t]] <= MaxRequestsPerProc
      BY <1>0, <2>1, <2>6, <2>9
    <3>3. \A u \in Thread \ {t} : pc'[u] \in {"have", "save"} =>
             requests'[held'[u]] <= MaxRequestsPerProc
      BY <1>0, <1>a, <2>1, <2>2, <2>4, <2>7, <2>9 DEF RequestLimit, Completed
    <3> QED BY <3>1, <3>2, <3>3
  <2> QED BY <1>c, <2>8, <2>9
\* The info of a thread is deleted.
<1>5. ASSUME NEW t \in Thread, Completed(t), list' = list,
             requests' = [c \in Conn |-> IF c \in {held[t]} THEN 0 ELSE requests[c]],
             held' = [held EXCEPT ![t] = NoConn],
             pc'[t] \notin {"have", "save"},
             \A u \in Thread \ {t} : pc'[u] = pc[u] /\ todo'[u] = todo[u]
      PROVE  Counting'
  <2>1. held[t] \in Conn /\ held[t] \notin Listed /\ Listed' = Listed
    BY <1>0, <1>a, <1>5 DEF LeaseExclusive, Listed
  <2>2. \A u \in Thread \ {t} : held[u] # held[t] /\ held'[u] = held[u]
    BY <1>0, <1>a, <1>5, <2>1 DEF LeaseExclusive
  <2>3. ASSUME NEW c \in Conn, requests'[c] # 0
        PROVE  \/ c \in Listed'
               \/ \E u \in Thread :
                     pc'[u] \in {"have", "save"} /\ todo'[u] = 0 /\ held'[u] = c
    <3>1. c # held[t] /\ requests[c] # 0
      BY <1>5, <2>3
    <3>2. c \in Listed \/ \E u \in Thread \ {t} : LentTo(u) /\ held[u] = c
      BY <1>b, <3>1
    <3> QED BY <1>5, <2>1, <2>2, <3>2 DEF LentTo, Completed
  <2>4. MaxRequestsPerProc > 0 =>
           /\ \A c \in Listed' : requests'[c] < MaxRequestsPerProc
           /\ \A u \in Thread : pc'[u] \in {"have", "save"} =>
                 requests'[held'[u]] <= MaxRequestsPerProc
    BY <1>0, <1>a, <1>5, <2>1, <2>2 DEF RequestLimit, Completed
  <2> QED BY <1>c, <2>3, <2>4
<1>6. ASSUME NEW t \in Thread, SaveWorn(t) \/ Erase(t) PROVE Counting'
  <2>1. pc'[t] \in {"out", "count", "make"}
        /\ \A u \in Thread \ {t} : pc'[u] = pc[u] /\ todo'[u] = todo[u]
    BY <1>a, <1>6 DEF SaveWorn, SaveDone, Erase, Goto
  <2> QED BY <1>5, <1>6, <2>1 DEF SaveWorn, SaveDone, Erase, Delete, Completed
<1>7. ASSUME NEW t \in Thread, SaveStore(t) PROVE Counting'
  <2>1. pc'[t] \in {"out", "count", "make"}
        /\ \A u \in Thread \ {t} : pc'[u] = pc[u] /\ todo'[u] = todo[u]
    BY <1>a, <1>7 DEF SaveStore, SaveDone, Goto
  <2>2. Completed(t) /\ held' = [held EXCEPT ![t] = NoConn] /\ ~Worn(held[t])
    BY <1>7 DEF SaveStore, SaveDone, Completed
  <2>3. CASE EnoughIdle
    BY <1>5, <1>7, <2>1, <2>2, <2>3 DEF SaveStore, Delete
  <2>4. CASE ~EnoughIdle
    <3>1. list' = Append(list, held[t]) /\ requests' = requests
      BY <1>7, <2>4 DEF SaveStore
    <3>2. Listed' = Listed \cup {held[t]} /\ held[t] \in Conn
      BY <1>a, <2>2, <3>1, AppendNew DEF Listed
    <3>3. \A u \in Thread \ {t} : held'[u] = held[u]
      BY <1>a, <2>2
    <3>4. ASSUME NEW c \in Conn, requests'[c] # 0
          PROVE  \/ c \in Listed'
                 \/ \E u \in Thread :
                       pc'[u] \in {"have", "save"} /\ todo'[u] = 0 /\ held'[u] = c
      <4>1. c \in Listed \/ \E u \in Thread : LentTo(u) /\ held[u] = c
        BY <1>b, <3>1, <3>4
      <4>2. c \in Listed' \/ \E u \in Thread \ {t} : LentTo(u) /\ held[u] = c
        BY <3>2, <4>1
      <4> QED BY <2>1, <3>3, <4>2 DEF LentTo, Completed
    <3>5. MaxRequestsPerProc > 0 => requests[held[t]] < MaxRequestsPerProc
      BY <1>0, <1>a, <2>2, <3>2 DEF Worn
    <3>6. MaxRequestsPerProc > 0 =>
             /\ \A c \in Listed' : requests'[c] < MaxRequestsPerProc
             /\ \A u \in Thread : pc'[u] \in {"have", "save"} =>
                   requests'[held'[u]] <= MaxRequestsPerProc
      BY <1>0, <2>1, <3>1, <3>2, <3>3, <3>5 DEF RequestLimit, Completed
    <3> QED BY <1>c, <3>4, <3>6
  <2> QED BY <2>3, <2>4
<1>8. ASSUME NEW t \in Thread,
             \/ Get(t) \/ GetLock(t) \/ TakeNone(t) \/ MakeFail(t) \/ SendFd(t)
             \/ SendFdDropped(t) \/ Return(t) \/ ReadError(t)
             \/ EnsureStart(t) \/ EnsureReturn(t)
             \/ (\E c \in Conn : MakePair(t, c))
             \/ (\E n \in Wanted : EnsureIdle(t, n))
      PROVE  Counting'
  <2>1. UNCHANGED <<list, requests>>
    BY <1>8
       DEF Get, GetLock, TakeNone, MakeFail, SendFd, SendFdDropped, Return,
           ReadError, EnsureStart, EnsureReturn, MakePair, EnsureIdle
  <2>2. \A u \in Thread \ {t} :
           pc'[u] = pc[u] /\ todo'[u] = todo[u] /\ held'[u] = held[u]
    BY <1>a, <1>8
       DEF Get, GetLock, TakeNone, MakeFail, SendFd, SendFdDropped, Return,
           ReadError, EnsureStart, EnsureReturn, MakePair, EnsureIdle, Goto
  <2>3. \/ pc[t] \notin {"have", "save"} /\ pc'[t] \notin {"have", "save"}
        \/ pc[t] = "have" /\ pc'[t] = "save" /\ UNCHANGED <<todo, held>>
    BY <1>a, <1>8
       DEF Get, GetLock, TakeNone, MakeFail, SendFd, SendFdDropped, Return,
           ReadError, EnsureStart, EnsureReturn, MakePair, EnsureIdle, Goto,
           AfterFailure
  <2> QED BY <1>1, <2>1, <2>2, <2>3 DEF LentTo, Completed
<1>9. CASE AppGone
  <2>1. Listed' = {} /\ (\A t \in Thread : pc'[t] = "out")
        /\ \A c \in Conn : requests'[c] = 0
    BY <1>9, EmptyList DEF AppGone, Delete, Listed
  <2> QED BY <1>c, <2>1
<1>10. CASE Destroy
  <2>1. Listed' = {} /\ (\A t \in Thread : pc[t] = "out" /\ pc'[t] = "out")
        /\ \A c \in Conn : requests'[c] = IF c \in Listed THEN 0 ELSE requests[c]
    BY <1>10, EmptyList DEF Destroy, Delete, Listed
  <2>2. \A c \in Conn : requests'[c] = 0
    BY <1>b, <2>1 DEF LentTo, Completed
  <2> QED BY <1>c, <2>1, <2>2
<1>11. CASE UNCHANGED appVars
  BY <1>1, <1>11 DEF appVars, LentTo, Completed
<1> QED
  BY <1>2, <1>3, <1>4, <1>6, <1>7, <1>8, <1>9, <1>10, <1>11, AppStep
     DEF AppThreadStep

-----------------------------------------------------------------------------
(* The inductive invariant, and what follows from it.                      *)

LEMMA InitInv == Init => IInv
<1> SUFFICES ASSUME Init PROVE IInv
  OBVIOUS
<1>1. TypeOK
  BY TypeInit
<1>2. Listed = {} /\ Held = {} /\ Len(list) = 0
  BY EmptyList DEF Init, Listed, Held
<1>3. LockInv /\ HeldInv /\ TodoInv /\ GoneInv
  BY NullAssumption DEF Init, LockInv, HeldInv, TodoInv, GoneInv
<1>4. AppEnds /\ LeaseExclusive
  BY <1>2 DEF Init, AppEnds, LeaseExclusive, Owned
<1>5. ChannelInv /\ PidPairing /\ CountInv
  BY <1>2 DEF Init, ChannelInv, PidPairing, Paired, Served, Completed, CountInv
<1>6. RequestLimit /\ IdleLimit
  BY <1>2, ConstantAssumption DEF Init, RequestLimit, IdleLimit, Completed
<1>7. WorkerEnds /\ Reaped
  BY DEF Init, WorkerEnds, Creating, Reaped
<1> QED
  BY <1>1, <1>3, <1>4, <1>5, <1>6, <1>7 DEF IInv, NoLeak

LEMMA StepInv == IInv /\ [Next]_vars => IInv'
BY TypeStep, ControlStep, OwnershipStep, ChannelStep, PairingStep, ServedStep,
   CountingStep, IdleLimitStep, WorkerEndsStep, ReapedStep
   DEF IInv, PidPairing, Control, Ownership, Counting, NoLeak

\* The inductive invariant holds in every reachable state of the pool.
THEOREM Invariance == Spec => []IInv
<1>1. Init => IInv
  BY InitInv
<1>2. IInv /\ [Next]_vars => IInv'
  BY StepInv
<1> QED BY <1>1, <1>2, PTL DEF Spec

\* Every variable keeps its type, whatever the limits, faults and signals.
THEOREM TypeCorrect == Spec => []TypeOK
<1>1. IInv => TypeOK
  BY DEF IInv
<1> QED BY <1>1, Invariance, PTL

\* get(), save() and create() never hand one process to two threads, nor keep
\* one in mList that a thread has.
THEOREM LeaseSafety == Spec => []LeaseExclusive
<1>1. IInv => LeaseExclusive
  BY DEF IInv
<1> QED BY <1>1, Invariance, PTL

\* create() never pairs a pipe with the pid of another worker, for any number
\* of threads that create at once, worker exits and reused pids.
THEOREM PairingSafety == Spec => []PidPairing
<1>1. IInv => PidPairing
  BY DEF IInv
<1> QED BY <1>1, Invariance, PTL

\* No process serves more requests than setMaxRequestsPerProc allows, and mList
\* never grows beyond what setMaxIdleProc allows.
THEOREM LimitSafety == Spec => []Limits
<1>1. IInv => Limits
  BY DEF IInv, Limits
<1> QED BY <1>1, Invariance, PTL

\* On no path of create(), of the manager's loop or of the end of any process is
\* an end of a pair left open or a zombie forgotten; only a send_fd() that fails
\* (AppEnds names the case) keeps pipeFd[1].
THEOREM DescriptorSafety == Spec => []NoLeak
<1>1. IInv => NoLeak
  BY DEF IInv
<1> QED BY <1>1, Invariance, PTL

-----------------------------------------------------------------------------
(* When the manager spins.                                                 *)

\* Only a signal that does not restart recvmsg() leaves EINTR behind.
SpinInv == SpinCause /\ (eintr => ~SaRestart)

LEMMA SpinStep == IInv /\ SpinInv /\ [Next]_vars => SpinInv'
<1> SUFFICES ASSUME IInv, SpinInv, [Next]_vars PROVE SpinInv'
  OBVIOUS
<1>0. eintr \in BOOLEAN
  BY DEF IInv, TypeOK
<1>1. ASSUME app' = "up" => app = "up", mgr' = "spin" => mgr = "spin", eintr' => eintr
      PROVE  SpinInv'
  BY <1>1 DEF SpinInv, SpinCause
<1>2. ASSUME NEW t \in Thread, ThreadStep(t) \/ ThreadCall(t) PROVE SpinInv'
  BY <1>1, <1>2
     DEF ThreadStep, ThreadCall, Get, GetLock, TakeLive, TakeDead, TakeNone, MakePair,
         MakeFail, SendFd, SendFdBroken, ReadReply, ReadError, Return, SaveWorn, SaveStore,
         Erase, EnsureIdle, EnsureStart, EnsureReturn, AppGone, mgrVars
<1>3. CASE RecvFd \/ (\E p \in Pid : Fork(p)) \/ ForkFail \/ SendReply \/ CloseFd
  BY <1>0, <1>1, <1>3 DEF RecvFd, Fork, ForkFail, SendReply, CloseFd, appVars
<1>4. CASE SendReplyBroken \/ RecvEof
  <2>1. /\ app' # "up" /\ eintr' = eintr
        /\ mgr' = "spin" => SigpipeIgnored \/ eintr
    BY <1>4 DEF SendReplyBroken, MgrGone, RecvEof, AppGone, appVars
  <2> QED BY <2>1 DEF SpinInv, SpinCause
<1>5. CASE Sigchild
  <2>1. UNCHANGED <<app, mgr>> /\ (eintr' => eintr \/ ~SaRestart)
    BY <1>5 DEF Sigchild, appVars
  <2> QED BY <2>1 DEF SpinInv, SpinCause
<1>6. CASE Environment \/ UNCHANGED vars
  BY <1>1, <1>6 DEF Environment, Destroy, AppExit, AppGone, MgrKill, MgrGone, WorkerDie, WorkerExit,
                    vars, appVars, mgrVars
<1>7. CASE \E c \in Conn : WorkerEof(c)
  BY <1>1, <1>7 DEF WorkerEof, WorkerExit, appVars, mgrVars
<1> QED BY <1>2, <1>3, <1>4, <1>5, <1>6, <1>7 DEF Next, MgrStep

\* The manager stays in one of its loops for ever after its application only,
\* and there are no causes but an ignored SIGPIPE and a stale EINTR.
THEOREM SpinKnown == Spec => []SpinCause
<1>1. Init => SpinInv
  BY DEF Init, SpinInv, SpinCause
<1>2. SpinInv => SpinCause
  BY DEF SpinInv
<1> QED BY <1>1, <1>2, SpinStep, Invariance, PTL DEF Spec

-----------------------------------------------------------------------------
(* The pool implements the lending of processes that ProcLease describes.  *)

LEMMA LendingInit == Init => Lending!Init
<1> SUFFICES ASSUME Init PROVE Lending!Init
  OBVIOUS
<1>1. Listed = {}
  BY EmptyList DEF Init, Listed
<1>2. Lease = [t \in Thread |-> NoConn]
  BY DEF Init, Lease, Completed
<1> QED BY <1>1, <1>2 DEF Init, Lending!Init

LEMMA LendingStep ==
    IInv /\ IInv' /\ [Next]_vars => [Lending!Next]_(Lending!vars)
<1> SUFFICES ASSUME IInv, IInv', [Next]_vars
             PROVE  [Lending!Next]_(Lending!vars)
  OBVIOUS
<1>0. /\ TypeOK /\ HeldInv /\ TodoInv /\ LeaseExclusive /\ CountInv
      /\ RequestLimit /\ IdleLimit /\ CountInv'
      /\ NoConn \notin Conn /\ MaxRequestsPerProc \in Nat /\ MaxIdleProc \in Nat
  BY ConstantAssumption, NullAssumption DEF IInv
<1>a. /\ pc \in [Thread -> Location] /\ held \in [Thread -> Conn \cup {NoConn}]
      /\ todo \in [Thread -> Nat] /\ requests \in [Conn -> Nat]
      /\ list \in Seq(Conn) /\ Listed \subseteq Conn
      /\ \A t \in Thread : Completed(t) => held[t] \in Conn
      /\ Distinct(list)
      /\ Cardinality(Listed) = Len(list)
  BY <1>0, OwnedType, DistinctCardinality
     DEF TypeOK, HeldInv, Completed, LeaseExclusive, Distinct, Listed
<1> DEFINE ToLease(t) == pc'[t] \in {"have", "save"} /\ todo'[t] = 0
<1>b. /\ Lease = [t \in Thread |-> IF LentTo(t) THEN held[t] ELSE NoConn]
      /\ Lease' = [t \in Thread |-> IF ToLease(t) THEN held'[t] ELSE NoConn]
      /\ \A t \in Thread : LentTo(t) => Lease[t] = held[t] /\ held[t] \in Conn
      /\ \A t \in Thread : ~LentTo(t) => Lease[t] = NoConn
      /\ \A c \in Lending!Lent : \E t \in Thread : LentTo(t) /\ held[t] = c
  BY <1>a DEF Lease, LentTo, Completed, Lending!Lent
\* Only thread t may have changed what it has been lent.
<1>c. ASSUME NEW t \in Thread, NEW x,
             \A u \in Thread \ {t} :
                pc'[u] = pc[u] /\ todo'[u] = todo[u] /\ held'[u] = held[u],
             x = IF ToLease(t) THEN held'[t] ELSE NoConn
      PROVE  Lease' = [Lease EXCEPT ![t] = x]
  BY <1>b, <1>c DEF LentTo, Completed
<1>1. ASSUME UNCHANGED <<Listed, Lease, requests>>
      PROVE  [Lending!Next]_(Lending!vars)
  BY <1>1 DEF Lending!vars
<1>2. ASSUME NEW t \in Thread, TakeLive(t) PROVE Lending!Next
  <2>1. /\ list' = Front(list) /\ held' = [held EXCEPT ![t] = Last(list)]
        /\ list # <<>> /\ pc' = [pc EXCEPT ![t] = "have"] /\ todo' = todo
        /\ requests' = [requests EXCEPT ![Last(list)] = @ + 1]
        /\ todo[t] = 0 /\ ~LentTo(t)
    BY <1>0, <1>2 DEF TakeLive, Goto, TodoInv, Completed, LentTo
  <2>2. /\ Listed' = Listed \ {Last(list)} /\ Last(list) \in Listed
        /\ Last(list) \in Conn
    BY <1>a, <2>1, TakeLast DEF Listed
  <2>3. Lease' = [Lease EXCEPT ![t] = Last(list)]
    <3>1. \A u \in Thread \ {t} :
             pc'[u] = pc[u] /\ todo'[u] = todo[u] /\ held'[u] = held[u]
      BY <1>a, <2>1
    <3>2. Last(list) = IF ToLease(t) THEN held'[t] ELSE NoConn
      BY <1>a, <2>1
    <3> QED BY <1>c, <3>1, <3>2
  <2>4. Last(list) \notin Lending!Lent
    BY <1>0, <1>b, <2>2 DEF LeaseExclusive
  <2>5. Lending!MayLend(Last(list))
    BY <1>0, <2>2 DEF RequestLimit, Lending!MayLend
  <2>6. Lending!Lend(t, Last(list))
    BY <1>b, <2>1, <2>2, <2>3, <2>4, <2>5 DEF Lending!Lend
  <2> QED BY <2>2, <2>6 DEF Lending!Next
<1>3. ASSUME NEW t \in Thread, TakeDead(t) PROVE Lending!Next
  <2>1. /\ list' = Front(list) /\ UNCHANGED <<held, pc, todo>> /\ list # <<>>
        /\ requests' = [c \in Conn |-> IF c \in {Last(list)} THEN 0 ELSE requests[c]]
    BY <1>3 DEF TakeDead, Delete
  <2>2. /\ Listed' = Listed \ {Last(list)} /\ Last(list) \in Listed
        /\ Last(list) \in Conn
    BY <1>a, <2>1, TakeLast DEF Listed
  <2>3. Lease' = Lease
    BY <1>b, <2>1 DEF LentTo, Completed
  <2>4. requests' = [requests EXCEPT ![Last(list)] = 0]
    BY <1>a, <2>1, <2>2
  <2>5. Lending!Discard(Last(list))
    BY <2>2, <2>3, <2>4 DEF Lending!Discard
  <2> QED BY <2>2, <2>5 DEF Lending!Next
<1>4. ASSUME NEW t \in Thread, ReadReply(t) PROVE [Lending!Next]_(Lending!vars)
  <2>1. /\ pc' = [pc EXCEPT ![t] = IF todo[t] = 0 THEN "have" ELSE "save"]
        /\ requests' = [requests EXCEPT ![held[t]] = IF todo[t] = 0 THEN 1 ELSE 0]
        /\ UNCHANGED <<list, held, todo>> /\ pc[t] = "await" /\ ~LentTo(t)
    BY <1>4 DEF ReadReply, Goto, LentTo, Completed
  <2>2. /\ held[t] \in Conn /\ held[t] \notin Listed
        /\ \A u \in Thread \ {t} : held[u] # held[t]
    BY <1>0, <1>a, <2>1 DEF HeldInv, LeaseExclusive
  <2>3. Listed' = Listed
    BY <2>1 DEF Listed
  <2>4. requests[held[t]] = 0
    BY <1>0, <2>1, <2>2 DEF CountInv, Completed
  <2>5. \A u \in Thread \ {t} :
           pc'[u] = pc[u] /\ todo'[u] = todo[u] /\ held'[u] = held[u]
    BY <1>a, <2>1
  <2>6. CASE todo[t] = 0
    <3>1. held[t] = IF ToLease(t) THEN held'[t] ELSE NoConn
      BY <1>a, <2>1, <2>6
    <3>2. Lease' = [Lease EXCEPT ![t] = held[t]]
      BY <1>c, <2>5, <3>1
    <3>3. held[t] \notin Lending!Lent
      BY <1>b, <2>1, <2>2
    <3>4. requests' = [requests EXCEPT ![held[t]] = @ + 1]
      BY <1>a, <2>1, <2>2, <2>4, <2>6
    <3>5. Lending!MayLend(held[t])
      BY <1>0, <2>4 DEF Lending!MayLend
    <3>6. Listed' = Listed \ {held[t]}
      BY <2>2, <2>3
    <3>7. Lending!Lend(t, held[t])
      BY <1>b, <2>1, <3>2, <3>3, <3>4, <3>5, <3>6 DEF Lending!Lend
    <3> QED BY <2>2, <3>7 DEF Lending!Next
  <2>7. CASE todo[t] # 0
    <3>1. NoConn = IF ToLease(t) THEN held'[t] ELSE NoConn
      BY <2>1, <2>7
    <3>2. Lease' = [Lease EXCEPT ![t] = NoConn]
      BY <1>c, <2>5, <3>1
    <3>3. Lease' = Lease
      BY <1>b, <2>1, <3>2
    <3>4. requests' = requests
      BY <1>a, <2>1, <2>2, <2>4, <2>7
    <3> QED BY <1>1, <2>3, <3>3, <3>4
  <2> QED BY <2>6, <2>7
\* save() and erase() that delete an info.
<1>5. ASSUME NEW t \in Thread, Completed(t), list' = list,
             requests' = [c \in Conn |-> IF c \in {held[t]} THEN 0 ELSE requests[c]],
             pc'[t] \notin {"have", "save"},
             \A u \in Thread \ {t} :
                pc'[u] = pc[u] /\ todo'[u] = todo[u] /\ held'[u] = held[u]
      PROVE  [Lending!Next]_(Lending!vars)
  <2>1. held[t] \in Conn /\ Listed' = Listed
    BY <1>a, <1>5 DEF Listed
  <2>2. NoConn = IF ToLease(t) THEN held'[t] ELSE NoConn
    BY <1>5
  <2>3. Lease' = [Lease EXCEPT ![t] = NoConn]
    BY <1>c, <1>5, <2>2
  <2>4. requests' = [requests EXCEPT ![held[t]] = 0]
    BY <1>a, <1>5, <2>1
  <2>5. CASE todo[t] = 0
    <3>1. Lease[t] = held[t] /\ held[t] # NoConn
      BY <1>0, <1>5, <1>b, <2>1, <2>5 DEF LentTo
    <3>2. Lending!Retire(t)
      BY <2>1, <2>3, <2>4, <3>1 DEF Lending!Retire
    <3> QED BY <3>2 DEF Lending!Next
  <2>6. CASE todo[t] # 0
    <3>1. ~LentTo(t)
      BY <2>6 DEF LentTo
    <3>2. Lease' = Lease
      BY <1>b, <2>3, <3>1
    <3>3. requests[held[t]] = 0
      BY <1>0, <1>5, <2>1, <2>6 DEF CountInv, LeaseExclusive
    <3>4. requests' = requests
      BY <1>a, <2>1, <2>4, <3>3
    <3> QED BY <1>1, <2>1, <3>2, <3>4
  <2> QED BY <2>5, <2>6
<1>6. ASSUME NEW t \in Thread, SaveWorn(t) \/ Erase(t)
      PROVE  [Lending!Next]_(Lending!vars)
  <2>1. pc'[t] \in {"out", "count", "make"}
        /\ \A u \in Thread \ {t} :
              pc'[u] = pc[u] /\ todo'[u] = todo[u] /\ held'[u] = held[u]
    BY <1>a, <1>6 DEF SaveWorn, SaveDone, Erase, Goto
  <2> QED BY <1>5, <1>6, <2>1 DEF SaveWorn, SaveDone, Erase, Delete, Completed
<1>7. ASSUME NEW t \in Thread, SaveStore(t) PROVE [Lending!Next]_(Lending!vars)
  <2>1. pc'[t] \in {"out", "count", "make"}
        /\ \A u \in Thread \ {t} :
              pc'[u] = pc[u] /\ todo'[u] = todo[u] /\ held'[u] = held[u]
    BY <1>a, <1>7 DEF SaveStore, SaveDone, Goto
  <2>2. Completed(t) /\ ~Worn(held[t]) /\ held[t] \in Conn
    BY <1>a, <1>7 DEF SaveStore, Completed
  <2>3. CASE EnoughIdle
    BY <1>5, <1>7, <2>1, <2>2, <2>3 DEF SaveStore, Delete
  <2>4. CASE ~EnoughIdle
    <3>1. list' = Append(list, held[t]) /\ requests' = requests
      BY <1>7, <2>4 DEF SaveStore
    <3>2. Listed' = Listed \cup {held[t]}
      BY <1>a, <2>2, <3>1, AppendNew DEF Listed
    <3>3. NoConn = IF ToLease(t) THEN held'[t] ELSE NoConn
      BY <2>1
    <3>4. Lease' = [Lease EXCEPT ![t] = NoConn]
      BY <1>c, <2>1, <3>3
    <3>5. Lending!MayKeep
      <4>1. Len(list) \in Nat /\ (MaxIdleProc > 0 => ~(Len(list) >= MaxIdleProc))
        BY <1>a, <2>4 DEF EnoughIdle
      <4>2. MaxIdleProc > 0 => Len(list) < MaxIdleProc
        BY <1>0, <4>1
      <4> QED BY <1>a, <4>2 DEF Lending!MayKeep, Lending!Cardinality, Cardinality
    <3>6. CASE todo[t] = 0
      <4>1. Lease[t] = held[t] /\ held[t] # NoConn
        BY <1>0, <1>b, <2>2, <3>6 DEF LentTo
      <4>2. Lending!MayLend(held[t])
        BY <1>0, <1>a, <2>2 DEF Worn, Lending!MayLend
      <4>3. Lending!GiveBack(t)
        BY <3>1, <3>2, <3>4, <3>5, <4>1, <4>2 DEF Lending!GiveBack
      <4> QED BY <4>3 DEF Lending!Next
    <3>7. CASE todo[t] # 0
      <4>1. ~LentTo(t)
        BY <3>7 DEF LentTo
      <4>2. Lease' = Lease
        BY <1>b, <3>4, <4>1
      <4>3. held[t] \notin Listed /\ \A u \in Thread \ {t} : held[u] # held[t]
        BY <1>0, <2>2 DEF LeaseExclusive
      <4>4. held[t] \notin Lending!Lent
        BY <1>b, <4>1, <4>3
      <4>5. requests[held[t]] = 0
        BY <1>0, <2>2, <3>7, <4>3 DEF CountInv
      <4>6. Lending!Prefork(held[t])
        BY <3>1, <3>2, <3>5, <4>2, <4>3, <4>4, <4>5 DEF Lending!Prefork
      <4> QED BY <2>2, <4>6 DEF Lending!Next
    <3> QED BY <3>6, <3>7
  <2> QED BY <2>3, <2>4
\* Nothing a caller of the pool can see.
<1>8. ASSUME NEW t \in Thread,
             \/ Get(t) \/ GetLock(t) \/ TakeNone(t) \/ MakeFail(t) \/ SendFd(t)
             \/ SendFdDropped(t) \/ Return(t) \/ ReadError(t)
             \/ EnsureStart(t) \/ EnsureReturn(t)
             \/ (\E c \in Conn : MakePair(t, c))
             \/ (\E n \in Wanted : EnsureIdle(t, n))
      PROVE  [Lending!Next]_(Lending!vars)
  <2>1. UNCHANGED <<list, requests>>
    BY <1>8
       DEF Get, GetLock, TakeNone, MakeFail, SendFd, SendFdDropped, Return,
           ReadError, EnsureStart, EnsureReturn, MakePair, EnsureIdle
  <2>2. \A u \in Thread \ {t} :
           pc'[u] = pc[u] /\ todo'[u] = todo[u] /\ held'[u] = held[u]
    BY <1>a, <1>8
       DEF Get, GetLock, TakeNone, MakeFail, SendFd, SendFdDropped, Return,
           ReadError, EnsureStart, EnsureReturn, MakePair, EnsureIdle, Goto
  <2>3. \/ pc[t] \notin {"have", "save"} /\ pc'[t] \notin {"have", "save"}
        \/ pc[t] = "have" /\ pc'[t] = "save" /\ UNCHANGED <<todo, held>>
    BY <1>a, <1>8
       DEF Get, GetLock, TakeNone, MakeFail, SendFd, SendFdDropped, Return,
           ReadError, EnsureStart, EnsureReturn, MakePair, EnsureIdle, Goto,
           AfterFailure
  <2>4. Lease' = Lease
    BY <1>b, <2>2, <2>3 DEF LentTo, Completed
  <2>5. Listed' = Listed
    BY <2>1 DEF Listed
  <2> QED BY <1>1, <2>1, <2>4, <2>5
<1>9. ASSUME list' = <<>>, \A t \in Thread : pc'[t] = "out" PROVE Lending!Next
  <2>1. Listed' = {}
    BY <1>9, EmptyList DEF Listed
  <2>2. Lease' = [t \in Thread |-> NoConn]
    BY <1>9, <1>b
  <2>3. \A c \in Conn : requests'[c] = 0
    BY <1>0, <1>9, <2>1 DEF CountInv, Completed
  <2>4. requests' \in [Conn -> Nat]
    BY DEF IInv, TypeOK
  <2>5. requests' = [c \in Conn |-> 0]
    BY <2>3, <2>4
  <2> QED BY <2>1, <2>2, <2>5 DEF Lending!Next, Lending!Shut
<1>10. Destroy \/ AppGone => Lending!Next
  BY <1>9 DEF Destroy, AppGone
<1>11. CASE UNCHANGED appVars
  <2>1. Lease' = Lease /\ Listed' = Listed /\ requests' = requests
    BY <1>11 DEF appVars, Lease, Listed, Completed
  <2> QED BY <1>1, <2>1
<1> QED
  BY <1>2, <1>3, <1>4, <1>6, <1>7, <1>8, <1>10, <1>11, AppStep
     DEF AppThreadStep

\* Every behaviour of the pool is one of lending: each get(), save(), erase()
\* and ensureIdleProc() takes effect at one step.
THEOREM Refinement == Spec => LendingSpec
<1>1. Init => Lending!Init
  BY LendingInit
<1>2. IInv /\ IInv' /\ [Next]_vars => [Lending!Next]_(Lending!vars)
  BY LendingStep
<1> QED BY <1>1, <1>2, Invariance, PTL DEF Spec, LendingSpec, Lending!Spec

=============================================================================
