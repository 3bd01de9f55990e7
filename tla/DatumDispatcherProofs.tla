----------------------- MODULE DatumDispatcherProofs ------------------------
(***************************************************************************)
(* Proofs of the safety properties of DatumDispatcher, for every finite    *)
(* set of callers, every set of requests and pipes, and every limit.       *)
(***************************************************************************)
EXTENDS DatumDispatcher, ListLemmas, FiniteSetTheorems, TLAPS

-----------------------------------------------------------------------------
(* The inductive invariant.                                                *)

\* Where the destructor is, and what it may rely on there.
Control ==
    /\ stop <=> dpc # "none"
    /\ dpc # "none" => \A d \in Caller : cpc[d] = "out"
    /\ rpc = "gone" => busy = <<>> /\ dpc # "none"
    /\ dpc \in {"woken", "done"} => rpc = "gone"
    /\ dpc = "wait" => rpc # "gone"

\* The pipes on which a request has been sent and its end not been read.
Working == ToSet(busy) \cup {cconn[d] : d \in {e \in Caller : cpc[e] = "append"}}
              \cup (IF rpc = "read" THEN {rconn} ELSE {})

\* The pipes that the reply thread reads or is about to.
Due == pfd \cup (IF rpc = "read" THEN {rconn} ELSE {})

\* A working pipe holds its request or its reply, or nothing at all; on every
\* other pipe there is nothing to read and nothing to come.
Pipe(c) ==
    /\ inbox[c] = <<>> \/ inbox[c] = <<asked[c]>>
    /\ outbox[c] = <<>> \/ outbox[c] = <<asked[c]>> \/ outbox[c] = <<Torn>>
    /\ inbox[c] = <<>> \/ outbox[c] = <<>>
    /\ worker[c] = "work" => inbox[c] # <<>>
    /\ worker[c] = "dead" => inbox[c] = <<>>
    /\ c \notin Working => inbox[c] = <<>> /\ outbox[c] = <<>>
    /\ c \in Due => Ready(c)

PipeInv == \A c \in Conn : Pipe(c)

\* The pipes whose request has been sent, for all that dispatch() says.
Sent == ToSet(busy) \cup (IF rpc = "read" THEN {rconn} ELSE {})

\* Each request is with one caller or on one pipe.
CallInv ==
    /\ \A d \in Caller : cpc[d] # "out" => outcome[creq[d]] = "calling"
    /\ \A d, e \in Caller : cpc[d] # "out" /\ creq[d] = creq[e] => d = e
    /\ \A d \in Caller : cpc[d] = "append" => asked[cconn[d]] = creq[d]
    /\ \A c \in Sent : asked[c] \in Req /\ outcome[asked[c]] = "sent"
    /\ \A c, e \in Sent : asked[c] = asked[e] => c = e
    /\ \A r \in Req : outcome[r] = "sent" => \E c \in Sent : asked[c] = r

\* A pipe that the application holds has a process at its other end, which owes
\* it an answer when the pipe is a working one.
Answer(c) ==
    Open(c) => worker[c] # "none" /\ (c \in Working => inbox[c] # <<>> \/ Ready(c))

AnswerInv == \A c \in Conn : Answer(c)

IInv == TypeOK /\ Owned /\ Control /\ PipeInv /\ AnswerInv /\ CallInv /\ BusyBound

-----------------------------------------------------------------------------
(* Lists and leases.                                                       *)

LEMMA OneList ==
    ASSUME NEW S, NEW x \in S
    PROVE  /\ Append(<<>>, x) = <<x>> /\ <<x>> # <<>> /\ <<x>> \in Seq(S)
           /\ Head(<<x>>) = x /\ Tail(<<x>>) = <<>>
           /\ Len(<<x>>) = 1 /\ ToSet(<<x>>) = {x}
<1>1. DOMAIN <<x>> = {1}
  OBVIOUS
<1> QED BY <1>1 DEF ToSet

LEMMA BusyType ==
    ASSUME TypeOK, Owned
    PROVE  /\ busy \in Seq(Conn) /\ Len(busy) \in Nat /\ DOMAIN busy = 1..Len(busy)
           /\ Distinct(busy) /\ ToSet(busy) \subseteq Conn
<1>1. busy \in Seq(Conn) /\ Len(busy) \in Nat /\ DOMAIN busy = 1..Len(busy)
  BY DEF TypeOK, ReplyType
<1>2. Distinct(busy)
  BY <1>1 DEF Owned, Distinct, IsInjective
<1> QED BY <1>1, <1>2 DEF ToSet

LEMMA DistinctInjective ==
    ASSUME NEW S, NEW s \in Seq(S), Distinct(s)
    PROVE  IsInjective(s)
BY DEF Distinct, IsInjective

\* The lent processes are those that hold their own lease.
LEMMA LentPoint ==
    ASSUME NEW l, NEW h, \A c \in Conn : l[c] \in {c, NoConn}, h \subseteq Conn
    PROVE  ({l[c] : c \in Conn} \ {NoConn} = h) <=> (\A c \in Conn : l[c] = c <=> c \in h)
<1>1. NoConn \notin Conn
  BY DatumAssumption
<1>2. {l[c] : c \in Conn} \ {NoConn} = {c \in Conn : l[c] = c}
  BY <1>1
<1> QED BY <1>2

\* Who holds a process.
Hands == {cconn[d] : d \in InHand} \cup ToSet(busy) \cup ({rconn} \ {NoConn})

LEMMA HandsType ==
    ASSUME TypeOK
    PROVE  Hands \subseteq Conn
<1>1. ToSet(busy) \subseteq Conn
  BY DEF TypeOK, ReplyType, ToSet
<1>2. \A d \in InHand : cconn[d] \in Conn
  BY DEF TypeOK, CallType, InHand
<1>3. rconn \in Conn \cup {NoConn}
  BY DEF TypeOK, ReplyType
<1> QED BY <1>1, <1>2, <1>3 DEF Hands

\* appendBusy(): a process in the hands of a caller is not in the list.
LEMMA AppendFacts ==
    ASSUME TypeOK, Owned, NEW d \in Caller, AppendBusy(d)
    PROVE  /\ busy' \in Seq(Conn) /\ IsInjective(busy')
           /\ Len(busy') = Len(busy) + 1
           /\ ToSet(busy') = ToSet(busy) \cup {cconn[d]}
           /\ cconn[d] \in Conn /\ cconn[d] \notin ToSet(busy) /\ cconn[d] # rconn
<1>1. busy' = Append(busy, cconn[d]) /\ cpc[d] = "append"
  BY DEF AppendBusy
<1>2. d \in InHand /\ cconn[d] \in Conn
  BY <1>1 DEF InHand, TypeOK, CallType
<1>3. cconn[d] \notin ToSet(busy) /\ cconn[d] # rconn
  BY <1>2 DEF Owned
<1>4. /\ busy' \in Seq(Conn) /\ Distinct(busy') /\ Len(busy') = Len(busy) + 1
      /\ ToSet(busy') = ToSet(busy) \cup {cconn[d]}
  BY <1>1, <1>2, <1>3, BusyType, AppendNew
<1>5. IsInjective(busy')
  BY <1>4, DistinctInjective
<1> QED BY <1>2, <1>3, <1>4, <1>5

\* takeByPipeFd(): the pipe is in the list, and taken out of it.
LEMMA TakeFacts ==
    ASSUME TypeOK, Owned, TakeBusy
    PROVE  \E c \in Conn :
             /\ c \in pfd /\ c \in ToSet(busy)
             /\ busy' \in Seq(Conn) /\ IsInjective(busy')
             /\ Len(busy') = Len(busy) - 1
             /\ ToSet(busy') = ToSet(busy) \ {c}
             /\ rconn' = c /\ rpc' = "read" /\ pfd' = pfd \ {c}
<1>1. PICK c \in Conn :
        /\ First(c)
        /\ IF c \in ToSet(busy)
             THEN /\ \E i \in 1..Len(busy) : busy[i] = c /\ busy' = RemoveAt(busy, i)
                  /\ rconn' = c /\ rpc' = "read"
             ELSE UNCHANGED <<busy, rconn, rpc>>
        /\ pfd' = pfd \ {c}
  BY DEF TakeBusy
<1>2. c \in pfd /\ c \in ToSet(busy)
  BY <1>1 DEF First, Owned
<1>3. PICK i \in 1..Len(busy) : busy[i] = c /\ busy' = RemoveAt(busy, i)
  BY <1>1, <1>2
<1>4. /\ busy' \in Seq(Conn) /\ Distinct(busy')
      /\ Len(busy') = Len(busy) - 1
      /\ ToSet(busy') = ToSet(busy) \ {c}
  BY <1>3, BusyType, RemoveOne
<1>5. IsInjective(busy')
  BY <1>4, DistinctInjective
<1> QED BY <1>1, <1>2, <1>4, <1>5

-----------------------------------------------------------------------------
(* Type correctness.                                                       *)

LEMMA TypeInit == Init => TypeOK
<1> SUFFICES ASSUME Init PROVE TypeOK
  OBVIOUS
<1>1. stop \in BOOLEAN
  BY Zenon DEF Init
<1>2. \A d \in Caller : creq[d] = NoReq /\ cpc[d] = "out" /\ cconn[d] = NoConn
  BY DEF Init
<1>3. InHand = {}
  BY <1>2 DEF InHand
<1>4. \A d \in Caller : (creq[d] = NoReq) = (cpc[d] = "out")
  BY <1>2
<1>5. \A d \in Caller : (cconn[d] = NoConn) = (d \notin InHand)
  BY <1>2, <1>3
<1>6. (rconn = NoConn) = (rpc \notin {"read", "save", "erase"})
  BY DEF Init
<1> QED BY <1>1, <1>4, <1>5, <1>6 DEF Init, Pool!Init, TypeOK, PoolType, CallType,
                                ReplyType, WorkerType, Outcome

\* A variable that a part of TypeOK does not mention does not matter to it.
LEMMA TypeFrame ==
    ASSUME TypeOK
    PROVE  /\ UNCHANGED poolVars => PoolType'
           /\ UNCHANGED <<callVars, outcome>> => CallType'
           /\ UNCHANGED <<busy, replyVars>> => ReplyType'
           /\ UNCHANGED workerVars => WorkerType'
           /\ UNCHANGED stop => stop' \in BOOLEAN
<1>1. ASSUME UNCHANGED stop PROVE stop' \in BOOLEAN
  <2>1. stop \in BOOLEAN
    BY DEF TypeOK
  <2> QED BY <1>1, <2>1
<1>2. UNCHANGED poolVars => PoolType'
  BY DEF TypeOK, poolVars, PoolType
<1>3. UNCHANGED <<callVars, outcome>> => CallType'
  BY DEF TypeOK, callVars, CallType, InHand
<1>4. UNCHANGED <<busy, replyVars>> => ReplyType'
  BY DEF TypeOK, replyVars, ReplyType
<1>5. UNCHANGED workerVars => WorkerType'
  BY DEF TypeOK, workerVars, WorkerType
<1> QED BY <1>1, <1>2, <1>3, <1>4, <1>5

\* The pool hands over one process.
LEMMA PoolMove ==
    ASSUME TypeOK, NEW c \in Conn,
           Pool!Lend(c, c) \/ Pool!Discard(c) \/ Pool!GiveBack(c) \/ Pool!Retire(c)
             \/ Pool!Prefork(c) \/ Pool!Shut
    PROVE  PoolType'
<1> USE DEF TypeOK, PoolType
<1>1. CASE Pool!Lend(c, c)
  BY <1>1 DEF Pool!Lend
<1>2. CASE Pool!Discard(c) \/ Pool!GiveBack(c) \/ Pool!Prefork(c)
  BY <1>2 DEF Pool!Discard, Pool!GiveBack, Pool!Prefork
<1>3. CASE Pool!Retire(c)
  <2>1. uses' \in [Conn -> Nat]
    BY <1>3 DEF Pool!Retire
  <2> QED BY <1>3, <2>1 DEF Pool!Retire
<1>4. CASE Pool!Shut
  BY <1>4 DEF Pool!Shut
<1> QED BY <1>1, <1>2, <1>3, <1>4

LEMMA TypeStep == TypeOK /\ Owned /\ PipeInv /\ [Next]_vars => TypeOK'
<1> SUFFICES ASSUME TypeOK, Owned, PipeInv, [Next]_vars PROVE TypeOK'
  OBVIOUS
<1> USE DEF TypeOK
<1>0. UNCHANGED stop => stop' \in BOOLEAN
  BY TypeFrame
<1>1. ASSUME NEW d \in Caller, NEW r \in Req, Dispatch(d, r) PROVE TypeOK'
  <2>1. CallType'
    <3>1. NoReq \notin Req /\ "calling" \in Outcome
      BY DatumAssumption DEF Outcome
    <3> QED BY <1>1, <3>1 DEF Dispatch, CallType, InHand
  <2> QED BY <1>0, <1>1, <2>1, TypeFrame DEF Dispatch
<1>2. ASSUME NEW d \in Caller, CallerStep(d) PROVE TypeOK'
  <2>0. {"refused", "sent"} \subseteq Outcome
    BY DEF Outcome
  <2>1. CASE TestLimit(d)
    <3>1. CallType'
      <4>1. CASE BelowLimit
        BY <2>1, <4>1 DEF TestLimit, CallType, InHand
      <4>2. CASE ~BelowLimit
        BY <2>0, <2>1, <4>2 DEF TestLimit, Refuse, CallType, InHand
      <4> QED BY <4>1, <4>2
    <3> QED BY <1>0, <2>1, <3>1, TypeFrame DEF TestLimit
  <2>2. ASSUME NEW c \in Conn, GetProc(d, c) PROVE TypeOK'
    <3>1. PoolType'
      BY <2>2, PoolMove DEF GetProc
    <3>2. CallType'
      BY <2>2, DatumAssumption DEF GetProc, CallType, InHand
    <3>3. WorkerType'
      <4>1. worker' = worker \/ worker' = [worker EXCEPT ![c] = "up"]
        BY <2>2 DEF GetProc
      <4> QED BY <2>2, <4>1 DEF GetProc, WorkerType
    <3> QED BY <1>0, <2>2, <3>1, <3>2, <3>3, TypeFrame DEF GetProc
  <2>3. ASSUME NEW c \in Conn, GetDrop(d, c) PROVE TypeOK'
    <3>1. PoolType'
      BY <2>3, PoolMove DEF GetDrop
    <3>2. WorkerType'
      BY <2>3 DEF GetDrop, WorkerType
    <3> QED BY <1>0, <2>3, <3>1, <3>2, TypeFrame DEF GetDrop
  <2>4. CASE GetFail(d)
    <3>1. CallType'
      BY <2>0, <2>4 DEF GetFail, Refuse, CallType, InHand
    <3> QED BY <1>0, <2>4, <3>1, TypeFrame DEF GetFail
  <2>5. CASE Send(d)
    <3>1. CallType'
      BY <2>5 DEF Send, CallType, InHand
    <3>2. cconn[d] \in Conn /\ creq[d] \in Req
      BY <2>5 DEF Send, CallType, InHand
    <3>3. WorkerType'
      BY <2>5, <3>2 DEF Send, WorkerType
    <3> QED BY <1>0, <2>5, <3>1, <3>3, TypeFrame DEF Send
  <2>6. CASE SendBroken(d)
    <3>1. CallType'
      <4>1. cpc' = cpc \/ cpc' = [cpc EXCEPT ![d] = "stuck"]
        BY <2>6 DEF SendBroken
      <4> QED BY <2>6, <4>1 DEF SendBroken, CallType, InHand
    <3>2. app' \in {"up", "gone"}
      BY <2>6 DEF SendBroken
    <3> QED BY <1>0, <2>6, <3>1, <3>2, TypeFrame DEF SendBroken
  <2>7. CASE AppendBusy(d)
    <3>1. CallType'
      BY <2>0, <2>7 DEF AppendBusy, CallType, InHand
    <3>2. ReplyType'
      BY <2>7, AppendFacts DEF AppendBusy, ReplyType, replyVars
    <3> QED BY <1>0, <2>7, <3>1, <3>2, TypeFrame DEF AppendBusy
  <2> QED BY <1>2, <2>1, <2>2, <2>3, <2>4, <2>5, <2>6, <2>7 DEF CallerStep
<1>3. CASE ReplyStep
  <2>0. {"torn", "replied", "lost", "error"} \subseteq Outcome /\ NoConn \notin Conn
    BY DatumAssumption DEF Outcome, Settled
  <2>1. CASE Poll
    <3>1. ReplyType'
      <4>1. pfd' \subseteq Conn
        BY <2>1, BusyType DEF Poll
      <4> QED BY <2>1, <4>1 DEF Poll, ReplyType
    <3> QED BY <1>0, <2>1, <3>1, TypeFrame DEF Poll
  <2>2. CASE TakeBusy
    <3>1. ReplyType'
      <4>1. /\ busy' \in Seq(Conn) /\ rconn' \in Conn /\ rpc' = "read"
            /\ pfd' \subseteq Conn
        BY <2>2, TakeFacts DEF ReplyType
      <4> QED BY <2>0, <2>2, <4>1 DEF ReplyType
    <3> QED BY <1>0, <2>2, <3>1, TypeFrame DEF TakeBusy
  <2>3. CASE NextTurn
    <3>1. ReplyType'
      BY <2>3 DEF NextTurn, ReplyType
    <3> QED BY <1>0, <2>3, <3>1, TypeFrame DEF NextTurn
  <2>4. CASE ReadReply
    <3>1. ReplyType'
      BY <2>4 DEF ReadReply, ReplyType
    <3>2. CallType'
      BY <2>0, <2>4 DEF ReadReply, callVars, CallType, InHand
    <3>3. rconn \in Conn
      BY <2>0, <2>4 DEF ReadReply, ReplyType
    <3>4. outbox[rconn] \in Seq(Req \cup {Torn}) /\ outbox[rconn] # <<>>
      BY <2>4, <3>3 DEF ReadReply, WorkerType
    <3>5. Tail(outbox[rconn]) \in Seq(Req \cup {Torn})
      BY <3>4
    <3>6. WorkerType'
      BY <2>4, <3>3, <3>5 DEF ReadReply, WorkerType
    <3> QED BY <1>0, <2>4, <3>1, <3>2, <3>6, TypeFrame DEF ReadReply
  <2>5. CASE ReadEnd
    <3>1. ReplyType'
      BY <2>5 DEF ReadEnd, ReplyType
    <3>2. CallType'
      BY <2>0, <2>5 DEF ReadEnd, callVars, CallType, InHand
    <3> QED BY <1>0, <2>5, <3>1, <3>2, TypeFrame DEF ReadEnd
  <2>6. CASE Save \/ Erase
    <3>1. ReplyType'
      BY <2>6 DEF Save, Erase, ReplyType
    <3>2. PoolType'
      <4>1. rconn \in Conn
        BY <2>6 DEF Save, Erase, ReplyType
      <4> QED BY <2>6, <4>1, PoolMove DEF Save, Erase
    <3>3. WorkerType'
      <4>1. UNCHANGED workerVars \/ Close(rconn)
        BY <2>6 DEF Save, Erase
      <4>2. CASE Close(rconn)
        <5>1. worker' \in [Conn -> {"none", "up", "work", "dead"}]
          BY <4>2 DEF Close, WorkerType
        <5>2. outbox' \in [Conn -> Seq(Req \cup {Torn})]
          <6>1. <<>> \in Seq(Req \cup {Torn})
            OBVIOUS
          <6>2. outbox' = [outbox EXCEPT ![rconn] = <<>>]
            BY <4>2 DEF Close
          <6> QED BY <6>1, <6>2 DEF WorkerType
        <5> QED BY <4>2, <5>1, <5>2 DEF Close, WorkerType
      <4> QED BY <4>1, <4>2, TypeFrame
    <3> QED BY <1>0, <2>6, <3>1, <3>2, <3>3, TypeFrame DEF Save, Erase
  <2>7. CASE ReplyExit
    <3>1. ReplyType'
      BY <2>7 DEF ReplyExit, ReplyType
    <3> QED BY <1>0, <2>7, <3>1, TypeFrame DEF ReplyExit
  <2> QED BY <1>3, <2>1, <2>2, <2>3, <2>4, <2>5, <2>6, <2>7 DEF ReplyStep
<1>4. CASE Destroy
  BY <1>4, TypeFrame DEF Destroy
<1>5. CASE DestroyEnd
  <2>1. PoolType'
    BY <1>5 DEF DestroyEnd, Pool!Shut, PoolType
  <2>2. WorkerType'
    BY <1>5 DEF DestroyEnd, WorkerType
  <2> QED BY <1>0, <1>5, <2>1, <2>2, TypeFrame DEF DestroyEnd
<1>6. ASSUME NEW c \in Conn, EnsureIdle(c) PROVE TypeOK'
  <2>1. PoolType'
    BY <1>6, PoolMove DEF EnsureIdle
  <2>2. WorkerType'
    BY <1>6 DEF EnsureIdle, WorkerType
  <2> QED BY <1>0, <1>6, <2>1, <2>2, TypeFrame DEF EnsureIdle
<1>7. ASSUME NEW c \in Conn, WorkerStep(c) \/ WorkerDie(c) PROVE TypeOK'
  <2>1. WorkerType'
    <3>1. CASE WorkerRead(c) \/ WorkerEof(c)
      BY <3>1 DEF WorkerRead, WorkerEof, WorkerType
    <3>2. CASE WorkerReply(c)
      <4>1. inbox[c] \in Seq(Req) /\ inbox[c] # <<>>
        BY <3>2 DEF WorkerReply, PipeInv, Pipe, WorkerType
      <4>2. Head(inbox[c]) \in Req /\ Tail(inbox[c]) \in Seq(Req)
        BY <4>1
      <4>3. outbox' = outbox \/ outbox' = [outbox EXCEPT ![c] = Append(@, Head(inbox[c]))]
        BY <3>2 DEF WorkerReply
      <4>4. worker' \in [Conn -> {"none", "up", "work", "dead"}]
        BY <3>2 DEF WorkerReply, WorkerType
      <4>5. outbox' \in [Conn -> Seq(Req \cup {Torn})]
        <5>1. outbox[c] \in Seq(Req \cup {Torn})
          BY DEF WorkerType
        <5>2. Append(outbox[c], Head(inbox[c])) \in Seq(Req \cup {Torn})
          BY <4>2, <5>1
        <5> QED BY <4>3, <5>2 DEF WorkerType
      <4>6. inbox' \in [Conn -> Seq(Req)]
        BY <3>2, <4>2 DEF WorkerReply, WorkerType
      <4> QED BY <3>2, <4>4, <4>5, <4>6 DEF WorkerReply, WorkerType
    <3>3. CASE WorkerDie(c)
      <4>1. outbox' = outbox \/ outbox' = [outbox EXCEPT ![c] = Append(@, Torn)]
        BY <3>3 DEF WorkerDie
      <4>2. <<>> \in Seq(Req)
        OBVIOUS
      <4>3. outbox' \in [Conn -> Seq(Req \cup {Torn})]
        <5>1. outbox[c] \in Seq(Req \cup {Torn})
          BY DEF WorkerType
        <5>2. Append(outbox[c], Torn) \in Seq(Req \cup {Torn})
          BY <5>1
        <5> QED BY <4>1, <5>2 DEF WorkerType
      <4> QED BY <3>3, <4>2, <4>3 DEF WorkerDie, WorkerType
    <3> QED BY <1>7, <3>1, <3>2, <3>3 DEF WorkerStep
  <2>2. UNCHANGED <<poolVars, busy, stop, app, callVars, replyVars, dpc, outcome>>
    BY <1>7 DEF WorkerStep, WorkerRead, WorkerReply, WorkerEof, WorkerDie
  <2> QED BY <1>0, <2>1, <2>2, TypeFrame
<1>8. CASE UNCHANGED vars
  BY <1>0, <1>8, TypeFrame DEF vars
<1> QED BY <1>1, <1>2, <1>3, <1>4, <1>5, <1>6, <1>7, <1>8 DEF Next

-----------------------------------------------------------------------------
(* Every leased process is in one place.                                   *)

\* Owned, said of one process at a time.
OwnedEach ==
    /\ \A c \in Conn : lease[c] \in {c, NoConn} /\ (lease[c] = c <=> c \in Hands)
    /\ \A d, e \in InHand : cconn[d] = cconn[e] => d = e
    /\ \A d \in InHand : cconn[d] \notin ToSet(busy) /\ cconn[d] # rconn
    /\ rconn \notin ToSet(busy)
    /\ IsInjective(busy)
    /\ pfd \subseteq ToSet(busy)
    /\ \A c \in idle : lease[c] # c

LEMMA OwnedIsEach ==
    ASSUME TypeOK, Owned
    PROVE  OwnedEach
<1>1. \A c \in Conn : lease[c] \in {c, NoConn}
  BY DEF Owned
<1>2. {lease[c] : c \in Conn} \ {NoConn} = Hands
  BY DEF Owned, Pool!Lent, Hands
<1>3. \A c \in Conn : lease[c] = c <=> c \in Hands
  BY <1>1, <1>2, LentPoint, HandsType
<1>4. \A c \in idle : lease[c] # c
  <2>1. idle \cap ({lease[c] : c \in Conn} \ {NoConn}) = {} /\ NoConn \notin Conn
    BY DatumAssumption DEF Owned, Pool!Lent
  <2>2. idle \subseteq Conn
    BY DEF TypeOK, PoolType
  <2> QED BY <2>1, <2>2
<1> QED BY <1>1, <1>3, <1>4 DEF Owned, OwnedEach

\* A step that takes no process from one place to another.
LEMMA OwnedSame ==
    ASSUME OwnedEach, UNCHANGED <<lease, busy, cconn, rconn>>,
           \A d \in Caller : d \in InHand' <=> d \in InHand,
           pfd' \subseteq pfd, idle' \subseteq idle
    PROVE  OwnedEach'
<1>1. InHand' = InHand
  BY DEF InHand
<1> QED BY <1>1 DEF OwnedEach, Hands

LEMMA OwnedCaller ==
    ASSUME TypeOK, Owned, OwnedEach, NEW d \in Caller, CallerStep(d)
    PROVE  OwnedEach'
<1>0. \A e \in Caller : cpc' = [cpc EXCEPT ![d] = cpc'[d]] /\ e # d => cpc'[e] = cpc[e]
  BY DEF TypeOK, CallType
<1>1. CASE TestLimit(d) \/ GetFail(d)
  <2>1. /\ UNCHANGED <<lease, busy, cconn, rconn, pfd, idle>>
        /\ cpc[d] \in {"test", "get"}
        /\ cpc' = [cpc EXCEPT ![d] = "get"] \/ cpc' = [cpc EXCEPT ![d] = "out"]
    BY <1>1 DEF TestLimit, GetFail, Refuse, poolVars, replyVars
  <2>2. \A e \in Caller : e \in InHand' <=> e \in InHand
    BY <2>1 DEF TypeOK, CallType, InHand
  <2> QED BY <2>1, <2>2, OwnedSame
<1>2. CASE Send(d) \/ SendBroken(d)
  <2>1. /\ UNCHANGED <<lease, busy, cconn, rconn, pfd, idle>>
        /\ cpc[d] = "send"
        /\ \/ cpc' = [cpc EXCEPT ![d] = "append"] \/ cpc' = [cpc EXCEPT ![d] = "stuck"]
           \/ cpc' = cpc
    BY <1>2 DEF Send, SendBroken, poolVars, replyVars
  <2>2. \A e \in Caller : e \in InHand' <=> e \in InHand
    BY <2>1 DEF TypeOK, CallType, InHand
  <2> QED BY <2>1, <2>2, OwnedSame
<1>3. ASSUME NEW c \in Conn, GetDrop(d, c) PROVE OwnedEach'
  <2>1. UNCHANGED <<lease, busy, cpc, cconn, rconn, pfd>> /\ idle' \subseteq idle
    BY <1>3 DEF GetDrop, Pool!Discard, callVars, replyVars
  <2> QED BY <2>1, OwnedSame DEF InHand
<1>4. ASSUME NEW c \in Conn, GetProc(d, c) PROVE OwnedEach'
  <2>1. /\ lease[c] = NoConn /\ lease' = [lease EXCEPT ![c] = c] /\ idle' = idle \ {c}
        /\ cpc[d] = "get" /\ cpc' = [cpc EXCEPT ![d] = "send"]
        /\ cconn' = [cconn EXCEPT ![d] = c]
        /\ UNCHANGED <<busy, rconn, pfd>>
    BY <1>4 DEF GetProc, Pool!Lend, replyVars
  <2>2. InHand' = InHand \cup {d} /\ d \notin InHand
    BY <2>1 DEF TypeOK, CallType, InHand
  <2>3. cconn'[d] = c /\ \A e \in InHand : cconn'[e] = cconn[e]
    BY <2>1, <2>2 DEF TypeOK, CallType, InHand
  <2>4. NoConn \notin Conn
    BY DatumAssumption
  <2>5. c \notin Hands
    BY <2>1, <2>4 DEF OwnedEach
  <2>6. Hands' = Hands \cup {c}
    BY <2>1, <2>2, <2>3 DEF Hands
  <2>7. \A b \in Conn : lease'[b] = IF b = c THEN c ELSE lease[b]
    BY <2>1 DEF TypeOK, PoolType
  <2>8. \A b \in Conn : lease'[b] \in {b, NoConn} /\ (lease'[b] = b <=> b \in Hands')
    BY <2>6, <2>7 DEF OwnedEach
  <2>9. c \notin ToSet(busy) /\ c # rconn /\ \A e \in InHand : cconn[e] # c
    BY <2>4, <2>5 DEF Hands
  <2>10. \A b \in idle' : lease'[b] # b
    <3>1. \A b \in idle' : b \in Conn /\ b # c /\ b \in idle
      BY <2>1 DEF TypeOK, PoolType
    <3> QED BY <2>7, <3>1 DEF OwnedEach
  <2>11. \A e, f \in InHand' : cconn'[e] = cconn'[f] => e = f
    BY <2>2, <2>3, <2>9 DEF OwnedEach
  <2>12. \A e \in InHand' : cconn'[e] \notin ToSet(busy') /\ cconn'[e] # rconn'
    BY <2>1, <2>2, <2>3, <2>9 DEF OwnedEach
  <2> QED BY <2>1, <2>8, <2>10, <2>11, <2>12 DEF OwnedEach
<1>5. CASE AppendBusy(d)
  <2>1. /\ UNCHANGED <<lease, idle, rconn, pfd>>
        /\ cpc[d] = "append" /\ cpc' = [cpc EXCEPT ![d] = "out"]
        /\ cconn' = [cconn EXCEPT ![d] = NoConn]
    BY <1>5 DEF AppendBusy, poolVars, replyVars
  <2>2. InHand' = InHand \ {d} /\ d \in InHand
    BY <2>1 DEF TypeOK, CallType, InHand
  <2>3. \A e \in InHand' : cconn'[e] = cconn[e]
    BY <2>1, <2>2 DEF TypeOK, CallType, InHand
  <2>4. /\ IsInjective(busy') /\ ToSet(busy') = ToSet(busy) \cup {cconn[d]}
        /\ cconn[d] # rconn
    BY <1>5, AppendFacts
  <2>5. Hands' = Hands
    BY <2>1, <2>2, <2>3, <2>4 DEF Hands
  <2> QED BY <2>1, <2>2, <2>3, <2>4, <2>5 DEF OwnedEach
<1> QED BY <1>1, <1>2, <1>3, <1>4, <1>5 DEF CallerStep

LEMMA OwnedReply ==
    ASSUME TypeOK, Owned, OwnedEach, ReplyStep
    PROVE  OwnedEach'
<1>1. CASE Poll
  <2>1. pfd' \subseteq ToSet(busy) /\ UNCHANGED <<lease, idle, busy, cpc, cconn, rconn>>
    BY <1>1 DEF Poll, poolVars, callVars
  <2> QED BY <2>1 DEF OwnedEach, Hands, InHand
<1>2. CASE NextTurn \/ ReadReply \/ ReadEnd \/ ReplyExit
  <2>1. UNCHANGED <<lease, idle, busy, cpc, cconn, rconn, pfd>>
    BY <1>2 DEF NextTurn, ReadReply, ReadEnd, ReplyExit, poolVars, callVars
  <2> QED BY <2>1, OwnedSame DEF InHand
<1>3. CASE TakeBusy
  <2>1. PICK c \in Conn :
          /\ c \in pfd /\ c \in ToSet(busy)
          /\ IsInjective(busy') /\ ToSet(busy') = ToSet(busy) \ {c}
          /\ rconn' = c /\ pfd' = pfd \ {c}
    BY <1>3, TakeFacts
  <2>2. UNCHANGED <<lease, idle, cpc, cconn>> /\ rpc = "next"
    BY <1>3 DEF TakeBusy, poolVars, callVars
  <2>3. rconn = NoConn /\ NoConn \notin Conn
    BY <2>2, DatumAssumption DEF TypeOK, ReplyType
  <2>4. Hands' = Hands
    BY <2>1, <2>2, <2>3 DEF Hands, InHand
  <2>5. \A d \in InHand : cconn[d] # c
    BY <2>1 DEF OwnedEach
  <2> QED BY <2>1, <2>2, <2>4, <2>5 DEF OwnedEach, InHand
<1>4. CASE Save \/ Erase
  <2>1. /\ rconn' = NoConn /\ UNCHANGED <<busy, cpc, cconn, pfd>>
        /\ rpc \in {"save", "erase"}
        /\ Pool!GiveBack(rconn) \/ Pool!Retire(rconn)
    BY <1>4 DEF Save, Erase, callVars
  <2>2. rconn \in Conn /\ NoConn \notin Conn
    BY <2>1, DatumAssumption DEF TypeOK, ReplyType
  <2>3. /\ lease' = [lease EXCEPT ![rconn] = NoConn]
        /\ idle' \subseteq idle \cup {lease[rconn]} /\ lease[rconn] # NoConn
    BY <2>1 DEF Pool!GiveBack, Pool!Retire
  <2>4. lease[rconn] = rconn
    BY <2>2, <2>3 DEF OwnedEach
  <2>5. \A b \in Conn : lease'[b] = IF b = rconn THEN NoConn ELSE lease[b]
    BY <2>2, <2>3 DEF TypeOK, PoolType
  <2>6. Hands' = Hands \ {rconn}
    <3>1. \A d \in InHand : cconn[d] # rconn
      BY DEF OwnedEach
    <3>2. rconn \notin ToSet(busy) /\ InHand' = InHand
      BY <2>1 DEF OwnedEach, InHand
    <3> QED BY <2>1, <3>1, <3>2 DEF Hands
  <2>7. \A b \in Conn : lease'[b] \in {b, NoConn} /\ (lease'[b] = b <=> b \in Hands')
    BY <2>2, <2>5, <2>6 DEF OwnedEach
  <2>8. \A b \in idle' : lease'[b] # b
    <3>1. idle \subseteq Conn
      BY DEF TypeOK, PoolType
    <3> QED BY <2>2, <2>3, <2>4, <2>5, <3>1 DEF OwnedEach
  <2>9. NoConn \notin ToSet(busy) /\ \A d \in InHand : cconn[d] # NoConn
    BY <2>2, BusyType DEF TypeOK, CallType, InHand
  <2> QED BY <2>1, <2>7, <2>8, <2>9 DEF OwnedEach, InHand
<1> QED BY <1>1, <1>2, <1>3, <1>4 DEF ReplyStep

LEMMA OwnedStep == IInv /\ [Next]_vars => Owned'
<1> SUFFICES ASSUME IInv, [Next]_vars PROVE Owned'
  OBVIOUS
<1>0. TypeOK /\ Owned /\ OwnedEach /\ TypeOK'
  BY OwnedIsEach, TypeStep DEF IInv
<1>1. OwnedEach'
  <2>1. ASSUME NEW d \in Caller, NEW r \in Req, Dispatch(d, r) PROVE OwnedEach'
    <3>1. /\ UNCHANGED <<lease, idle, busy, cconn, rconn, pfd>>
          /\ cpc[d] = "out" /\ cpc' = [cpc EXCEPT ![d] = "test"]
      BY <2>1 DEF Dispatch, poolVars, replyVars
    <3>2. \A e \in Caller : e \in InHand' <=> e \in InHand
      BY <1>0, <3>1 DEF TypeOK, CallType, InHand
    <3> QED BY <1>0, <3>1, <3>2, OwnedSame
  <2>2. ASSUME NEW d \in Caller, CallerStep(d) PROVE OwnedEach'
    BY <1>0, <2>2, OwnedCaller
  <2>3. CASE ReplyStep
    BY <1>0, <2>3, OwnedReply
  <2>4. CASE Destroy
    <3>1. UNCHANGED <<lease, idle, busy, cpc, cconn, rconn, pfd>>
      BY <2>4 DEF Destroy, poolVars, callVars, replyVars
    <3> QED BY <1>0, <3>1, OwnedSame DEF InHand
  <2>5. CASE DestroyEnd
    <3>1. /\ idle' = {} /\ lease' = [c \in Conn |-> NoConn]
          /\ UNCHANGED <<busy, cpc, cconn, rconn, rpc, pfd>>
          /\ dpc = "woken"
      BY <2>5 DEF DestroyEnd, Pool!Shut, callVars, replyVars
    <3>2. InHand = {} /\ ToSet(busy) = {} /\ rconn = NoConn
      <4>1. /\ \A d \in Caller : cpc[d] = "out"
            /\ rpc = "gone" /\ busy = <<>>
        BY <3>1 DEF IInv, Control
      <4> QED BY <1>0, <4>1, EmptyList DEF InHand, TypeOK, ReplyType
    <3>3. Hands' = {}
      BY <3>1, <3>2 DEF Hands, InHand
    <3>4. NoConn \notin Conn
      BY DatumAssumption
    <3> QED BY <1>0, <3>1, <3>3, <3>4 DEF OwnedEach, InHand
  <2>6. ASSUME NEW c \in Conn, EnsureIdle(c) PROVE OwnedEach'
    <3>1. /\ c \notin idle \cup Pool!Lent /\ idle' = idle \cup {c}
          /\ UNCHANGED <<lease, busy, cpc, cconn, rconn, pfd>>
      BY <2>6 DEF EnsureIdle, Pool!Prefork, callVars, replyVars
    <3>2. lease[c] # c
      BY <3>1, DatumAssumption DEF Pool!Lent
    <3> QED BY <1>0, <3>1, <3>2 DEF OwnedEach, Hands, InHand
  <2>7. ASSUME NEW c \in Conn, WorkerStep(c) \/ WorkerDie(c) PROVE OwnedEach'
    <3>1. UNCHANGED <<lease, idle, busy, cpc, cconn, rconn, pfd>>
      BY <2>7 DEF WorkerStep, WorkerRead, WorkerReply, WorkerEof, WorkerDie, poolVars,
                  callVars, replyVars
    <3> QED BY <1>0, <3>1, OwnedSame DEF InHand
  <2>8. CASE UNCHANGED vars
    <3>1. UNCHANGED <<lease, idle, busy, cpc, cconn, rconn, pfd>>
      BY <2>8 DEF vars, poolVars, callVars, replyVars
    <3> QED BY <1>0, <3>1, OwnedSame DEF InHand
  <2> QED BY <2>1, <2>2, <2>3, <2>4, <2>5, <2>6, <2>7, <2>8 DEF Next
<1>2. Hands' \subseteq Conn
  <2>1. ToSet(busy') \subseteq Conn
    BY <1>0 DEF TypeOK, ReplyType, ToSet
  <2>2. \A d \in InHand' : cconn'[d] \in Conn
    BY <1>0 DEF TypeOK, CallType, InHand
  <2>3. rconn' \in Conn \cup {NoConn}
    BY <1>0 DEF TypeOK, ReplyType
  <2> QED BY <2>1, <2>2, <2>3 DEF Hands
<1>3. Pool!Lent' = Hands'
  <2>1. {lease'[c] : c \in Conn} \ {NoConn} = Hands'
    BY <1>1, <1>2, LentPoint DEF OwnedEach
  <2> QED BY <2>1 DEF Pool!Lent
<1>4. idle' \cap Pool!Lent' = {}
  <2>1. idle' \subseteq Conn
    BY <1>0 DEF TypeOK, PoolType
  <2> QED BY <1>1, <1>3, <2>1 DEF OwnedEach
<1> QED BY <1>1, <1>3, <1>4 DEF OwnedEach, Owned, Hands

-----------------------------------------------------------------------------
(* The destructor and the reply thread.                                    *)

LEMMA ControlStep == IInv /\ [Next]_vars => Control'
<1> SUFFICES ASSUME IInv, [Next]_vars PROVE Control'
  OBVIOUS
<1>0. Control /\ TypeOK
  BY DEF IInv
<1>1. ASSUME UNCHANGED <<stop, dpc, cpc, busy>>, rpc' = "gone" <=> rpc = "gone"
      PROVE  Control'
  BY <1>0, <1>1 DEF Control
<1>2. ASSUME NEW d \in Caller, NEW r \in Req, Dispatch(d, r) PROVE Control'
  BY <1>0, <1>2 DEF Dispatch, Control, replyVars
<1>3. ASSUME NEW d \in Caller, CallerStep(d) PROVE Control'
  <2>1. cpc[d] # "out" /\ UNCHANGED <<stop, dpc, rpc>>
    BY <1>3 DEF CallerStep, TestLimit, GetProc, GetDrop, GetFail, Send, SendBroken,
                AppendBusy, replyVars
  <2> QED BY <1>0, <2>1 DEF Control
<1>4. CASE Poll \/ NextTurn \/ ReadReply \/ ReadEnd \/ Save \/ Erase
  <2>1. UNCHANGED <<stop, dpc, cpc, busy>> /\ rpc # "gone" /\ rpc' # "gone"
    BY <1>4 DEF Poll, NextTurn, ReadReply, ReadEnd, Save, Erase, callVars
  <2> QED BY <1>1, <2>1
<1>5. CASE TakeBusy
  <2>1. UNCHANGED <<stop, dpc, cpc>> /\ rpc = "next" /\ rpc' \in {"next", "read"}
    BY <1>5 DEF TakeBusy, callVars
  <2> QED BY <1>0, <2>1 DEF Control
<1>6. CASE ReplyExit
  BY <1>0, <1>6 DEF ReplyExit, Control, callVars
<1>7. CASE Destroy \/ DestroyEnd
  BY <1>0, <1>7 DEF Destroy, DestroyEnd, Control, callVars, replyVars
<1>8. ASSUME NEW c \in Conn, EnsureIdle(c) \/ WorkerStep(c) \/ WorkerDie(c) PROVE Control'
  BY <1>1, <1>8 DEF EnsureIdle, WorkerStep, WorkerRead, WorkerReply, WorkerEof, WorkerDie,
                    callVars, replyVars
<1>9. CASE UNCHANGED vars
  BY <1>1, <1>9 DEF vars, callVars, replyVars
<1> QED
  BY <1>2, <1>3, <1>4, <1>5, <1>6, <1>7, <1>8, <1>9 DEF Next, ReplyStep

-----------------------------------------------------------------------------
(* What is in the pipes.                                                   *)

\* Who is working or due is leased.
LEMMA InHands ==
    ASSUME TypeOK, Owned
    PROVE  /\ Working \subseteq Hands /\ Due \subseteq Hands \cup {NoConn}
           /\ \A c \in Conn : lease[c] = NoConn => c \notin Hands
           /\ \A c \in idle : c \in Conn /\ c \notin Hands
<1>1. OwnedEach /\ NoConn \notin Conn /\ idle \subseteq Conn
  BY OwnedIsEach, DatumAssumption DEF TypeOK, PoolType
<1>2. Working \subseteq Hands
  <2>1. rpc = "read" => rconn # NoConn
    BY DEF TypeOK, ReplyType
  <2> QED BY <2>1 DEF Working, Hands, InHand
<1>3. Due \subseteq Hands \cup {NoConn}
  BY <1>1 DEF Due, Hands, OwnedEach
<1> QED BY <1>1, <1>2, <1>3 DEF OwnedEach

\* A step that leaves all pipes but one alone.
LEMMA PipeOne ==
    ASSUME PipeInv, NEW c \in Conn, Pipe(c)',
           \A b \in Conn \ {c} :
              /\ worker'[b] = worker[b] /\ inbox'[b] = inbox[b]
              /\ outbox'[b] = outbox[b] /\ asked'[b] = asked[b]
              /\ b \in Working => b \in Working'
              /\ b \in Due' => b \in Due
    PROVE  PipeInv'
<1> SUFFICES ASSUME NEW b \in Conn PROVE Pipe(b)'
  BY DEF PipeInv
<1>1. CASE b # c
  BY <1>1 DEF PipeInv, Pipe, Ready
<1> QED BY <1>1

\* A step that leaves all pipes alone.
LEMMA PipeSame ==
    ASSUME PipeInv, UNCHANGED workerVars, Working \subseteq Working', Due' \subseteq Due
    PROVE  PipeInv'
BY DEF PipeInv, Pipe, Ready, workerVars

LEMMA PipeCaller ==
    ASSUME IInv, NEW d \in Caller, CallerStep(d)
    PROVE  PipeInv'
<1>0. /\ TypeOK /\ Owned /\ OwnedEach /\ PipeInv
      /\ UNCHANGED <<rpc, rconn, pfd>>
  BY OwnedIsEach DEF IInv, CallerStep, TestLimit, GetProc, GetDrop, GetFail, Send, SendBroken,
                     AppendBusy, replyVars
<1>1. Due' = Due
  BY <1>0 DEF Due
<1>2. CASE TestLimit(d) \/ GetFail(d) \/ SendBroken(d)
  <2>1. /\ UNCHANGED <<busy, cconn>> /\ UNCHANGED workerVars
        /\ cpc[d] # "append"
        /\ \A e \in Caller : e # d => cpc'[e] = cpc[e]
    BY <1>0, <1>2 DEF TestLimit, GetFail, SendBroken, Refuse, TypeOK, CallType
  <2>2. Working \subseteq Working'
    BY <1>0, <2>1 DEF Working
  <2> QED BY <1>0, <1>1, <2>1, <2>2, PipeSame
<1>3. ASSUME NEW c \in Conn, GetProc(d, c) \/ GetDrop(d, c) PROVE PipeInv'
  <2>1. c \notin Hands /\ c # NoConn
    BY <1>0, <1>3, InHands, DatumAssumption DEF GetProc, GetDrop, Pool!Lend, Pool!Discard
  <2>2. c \notin Working /\ c \notin Due
    BY <1>0, <2>1, InHands
  <2>3. /\ UNCHANGED <<busy, inbox, outbox, asked>> /\ cpc[d] = "get"
        /\ \A e \in Caller : e # d => cpc'[e] = cpc[e] /\ cconn'[e] = cconn[e]
        /\ worker'[c] \in {worker[c], "up", "none"}
        /\ \A b \in Conn \ {c} : worker'[b] = worker[b]
    BY <1>0, <1>3 DEF GetProc, GetDrop, callVars, TypeOK, CallType, WorkerType
  <2>4. Working \subseteq Working'
    BY <1>0, <2>3 DEF Working
  <2>5. Pipe(c)'
    <3>1. inbox[c] = <<>> /\ outbox[c] = <<>> /\ worker[c] # "work"
      BY <1>0, <2>2 DEF PipeInv, Pipe
    <3> QED BY <1>1, <2>2, <2>3, <3>1 DEF Pipe
  <2> QED BY <1>0, <1>1, <2>3, <2>4, <2>5, PipeOne
<1>4. CASE Send(d)
  <2>0. PICK c \in Conn : c = cconn[d]
    BY <1>0, <1>4 DEF Send, InHand, TypeOK, CallType
  <2>1. /\ cpc[d] = "send" /\ cpc' = [cpc EXCEPT ![d] = "append"]
        /\ UNCHANGED <<busy, cconn, worker, outbox>>
        /\ worker[c] # "dead"
        /\ inbox' = [inbox EXCEPT ![c] = Append(@, creq[d])]
        /\ asked' = [asked EXCEPT ![c] = creq[d]]
    BY <1>4, <2>0 DEF Send
  <2>2. d \in InHand /\ creq[d] \in Req
    BY <1>0, <2>1 DEF InHand, TypeOK, CallType
  <2>3. c \notin Working /\ c \notin Due
    <3>1. c \notin ToSet(busy) /\ c # rconn
      BY <1>0, <2>0, <2>2 DEF OwnedEach
    <3>2. \A e \in Caller : cpc[e] = "append" => cconn[e] # c
      BY <1>0, <2>0, <2>1, <2>2 DEF OwnedEach, InHand
    <3> QED BY <1>0, <3>1, <3>2 DEF Working, Due, OwnedEach
  <2>4. inbox[c] = <<>> /\ outbox[c] = <<>>
    BY <1>0, <2>2, <2>3 DEF PipeInv, Pipe
  <2>5. inbox'[c] = <<creq[d]>> /\ asked'[c] = creq[d] /\ <<creq[d]>> # <<>>
    <3>1. Append(<<>>, creq[d]) = <<creq[d]>> /\ <<creq[d]>> # <<>>
      BY <2>2, OneList
    <3> QED BY <1>0, <2>1, <2>2, <2>4, <3>1 DEF TypeOK, WorkerType
  <2>6. Working \subseteq Working' /\ c \in Working'
    BY <1>0, <2>0, <2>1 DEF Working, TypeOK, CallType
  <2>7. Pipe(c)'
    BY <1>1, <2>1, <2>3, <2>4, <2>5, <2>6 DEF Pipe
  <2>8. \A b \in Conn \ {c} : inbox'[b] = inbox[b] /\ asked'[b] = asked[b]
    BY <1>0, <2>1 DEF TypeOK, WorkerType
  <2> QED BY <1>0, <1>1, <2>1, <2>2, <2>6, <2>7, <2>8, PipeOne
<1>5. CASE AppendBusy(d)
  <2>1. /\ UNCHANGED workerVars /\ ToSet(busy') = ToSet(busy) \cup {cconn[d]}
        /\ cpc' = [cpc EXCEPT ![d] = "out"] /\ cconn' = [cconn EXCEPT ![d] = NoConn]
    BY <1>0, <1>5, AppendFacts DEF AppendBusy
  <2>2. Working \subseteq Working'
    BY <1>0, <2>1 DEF Working, TypeOK, CallType
  <2> QED BY <1>0, <1>1, <2>1, <2>2, PipeSame
<1> QED BY <1>2, <1>3, <1>4, <1>5 DEF CallerStep

LEMMA PipeReply ==
    ASSUME IInv, ReplyStep
    PROVE  PipeInv'
<1>0. TypeOK /\ Owned /\ OwnedEach /\ PipeInv
  BY OwnedIsEach DEF IInv
<1>1. CASE Poll
  <2>1. /\ UNCHANGED workerVars /\ UNCHANGED <<busy, cpc, cconn, rconn>>
        /\ rpc = "loop" /\ rpc' = "next" /\ pfd' = {c \in ToSet(busy) : Ready(c)}
    BY <1>1 DEF Poll, callVars
  <2>2. Working' = Working
    BY <2>1 DEF Working
  <2> QED BY <1>0, <2>1, <2>2 DEF PipeInv, Pipe, Ready, Due, workerVars
<1>2. CASE TakeBusy
  <2>1. PICK c \in Conn :
          /\ c \in pfd /\ c \in ToSet(busy) /\ ToSet(busy') = ToSet(busy) \ {c}
          /\ rconn' = c /\ rpc' = "read" /\ pfd' = pfd \ {c}
    BY <1>0, <1>2, TakeFacts
  <2>2. UNCHANGED workerVars /\ UNCHANGED <<cpc, cconn>> /\ rpc = "next"
    BY <1>2 DEF TakeBusy, callVars
  <2>3. Working' = Working /\ Due' \subseteq Due
    BY <2>1, <2>2 DEF Working, Due
  <2> QED BY <1>0, <2>2, <2>3, PipeSame
<1>3. CASE NextTurn \/ ReplyExit
  <2>1. /\ UNCHANGED workerVars /\ UNCHANGED <<busy, cpc, cconn, rconn, pfd>>
        /\ rpc # "read" /\ rpc' # "read"
    BY <1>3 DEF NextTurn, ReplyExit, callVars
  <2>2. Working' = Working /\ Due' \subseteq Due
    BY <2>1 DEF Working, Due
  <2> QED BY <1>0, <2>1, <2>2, PipeSame
<1>4. CASE ReadReply \/ ReadEnd
  <2>1. /\ UNCHANGED <<busy, cpc, cconn, rconn, pfd, worker, inbox, asked>>
        /\ rpc = "read" /\ rpc' # "read"
    BY <1>4 DEF ReadReply, ReadEnd, callVars, workerVars
  <2>2. PICK c \in Conn : c = rconn
    BY <1>0, <2>1 DEF TypeOK, ReplyType
  <2>3. \A b \in Conn \ {c} : outbox'[b] = outbox[b]
    BY <1>0, <1>4, <2>2 DEF ReadReply, ReadEnd, workerVars, TypeOK, WorkerType
  <2>4. /\ \A b \in Conn \ {c} : b \in Working => b \in Working'
        /\ Due' \subseteq Due /\ c \notin Due'
    BY <1>0, <2>1, <2>2 DEF Working, Due, OwnedEach
  <2>5. c \in Due /\ Pipe(c)
    BY <1>0, <2>1, <2>2 DEF Due, PipeInv
  <2>6. inbox[c] = <<>> /\ outbox'[c] = <<>>
    <3>1. CASE ReadReply
      <4>1. outbox[c] # <<>> /\ outbox'[c] = Tail(outbox[c])
        BY <1>0, <2>2, <3>1 DEF ReadReply, TypeOK, WorkerType
      <4>2. \A x : Tail(<<x>>) = <<>>
        BY OneList
      <4> QED BY <2>5, <4>1, <4>2 DEF Pipe
    <3>2. CASE ReadEnd
      BY <2>2, <2>5, <3>2 DEF ReadEnd, Pipe, Ready, workerVars
    <3> QED BY <1>4, <3>1, <3>2
  <2>7. Pipe(c)'
    BY <2>1, <2>4, <2>5, <2>6 DEF Pipe
  <2> QED BY <2>1, <2>3, <2>4, <2>7, <1>0, PipeOne
<1>5. CASE Save \/ Erase
  <2>1. /\ UNCHANGED <<busy, cpc, cconn, pfd>> /\ rpc \in {"save", "erase"} /\ rpc' = "next"
        /\ UNCHANGED workerVars \/ Close(rconn)
    BY <1>5 DEF Save, Erase, callVars
  <2>2. PICK c \in Conn : c = rconn
    BY <1>0, <2>1 DEF TypeOK, ReplyType
  <2>3. Working' = Working /\ Due' \subseteq Due /\ c \notin Due'
    BY <1>0, <2>1, <2>2 DEF Working, Due, OwnedEach
  <2>4. CASE UNCHANGED workerVars
    BY <1>0, <2>3, <2>4, PipeSame
  <2>5. CASE Close(rconn)
    <3>1. \A b \in Conn \ {c} : /\ worker'[b] = worker[b] /\ inbox'[b] = inbox[b]
                                /\ outbox'[b] = outbox[b] /\ asked'[b] = asked[b]
      BY <1>0, <2>2, <2>5 DEF Close, TypeOK, WorkerType
    <3>2. c \notin Working
      <4>1. \A d \in InHand : cconn[d] # c
        BY <1>0, <2>2 DEF OwnedEach
      <4> QED BY <1>0, <2>1, <2>2, <4>1 DEF Working, OwnedEach, InHand
    <3>3. /\ inbox[c] = <<>> /\ inbox'[c] = <<>> /\ outbox'[c] = <<>>
          /\ worker[c] # "work" /\ worker'[c] # "work"
      BY <1>0, <2>2, <2>5, <3>2 DEF Close, TypeOK, WorkerType, PipeInv, Pipe
    <3>4. Pipe(c)'
      BY <2>3, <3>3 DEF Pipe
    <3> QED BY <1>0, <2>3, <3>1, <3>4, PipeOne
  <2> QED BY <2>1, <2>4, <2>5
<1> QED BY <1>1, <1>2, <1>3, <1>4, <1>5 DEF ReplyStep

LEMMA PipeWorker ==
    ASSUME IInv, NEW c \in Conn, WorkerStep(c) \/ WorkerDie(c)
    PROVE  PipeInv'
<1>0. TypeOK /\ PipeInv /\ Pipe(c) /\ UNCHANGED <<asked, busy, cpc, cconn, rpc, rconn, pfd>>
  BY DEF IInv, PipeInv, WorkerStep, WorkerRead, WorkerReply, WorkerEof, WorkerDie,
         callVars, replyVars
<1>1. Working' = Working /\ Due' = Due
  BY <1>0 DEF Working, Due
<1>2. /\ worker \in [Conn -> {"none", "up", "work", "dead"}]
      /\ inbox \in [Conn -> Seq(Req)] /\ outbox \in [Conn -> Seq(Req \cup {Torn})]
  BY <1>0 DEF TypeOK, WorkerType
<1>3. \A b \in Conn \ {c} : /\ worker'[b] = worker[b] /\ inbox'[b] = inbox[b]
                            /\ outbox'[b] = outbox[b]
  <2>1. worker' = worker \/ \E w : worker' = [worker EXCEPT ![c] = w]
    BY DEF WorkerStep, WorkerRead, WorkerReply, WorkerEof, WorkerDie
  <2>2. inbox' = inbox \/ \E i : inbox' = [inbox EXCEPT ![c] = i]
    BY DEF WorkerStep, WorkerRead, WorkerReply, WorkerEof, WorkerDie
  <2>3. outbox' = outbox \/ \E o : outbox' = [outbox EXCEPT ![c] = o]
    BY DEF WorkerStep, WorkerRead, WorkerReply, WorkerEof, WorkerDie
  <2> QED BY <1>2, <2>1, <2>2, <2>3
<1>4. \A x : Append(<<>>, x) = <<x>> /\ <<x>> # <<>> /\ Head(<<x>>) = x /\ Tail(<<x>>) = <<>>
  BY OneList
<1>5. Pipe(c)'
  <2>1. CASE WorkerRead(c)
    BY <1>0, <1>1, <1>2, <2>1 DEF WorkerRead, Pipe, Ready
  <2>2. CASE WorkerReply(c)
    <3>1. inbox[c] = <<asked[c]>> /\ outbox[c] = <<>> /\ worker[c] = "work"
          /\ c \in Working
      BY <2>2 , <1>0 DEF WorkerReply, Pipe
    <3>2. c \notin Due
      BY <1>0, <3>1 DEF Pipe, Ready
    <3>3. inbox'[c] = <<>> /\ worker'[c] \in {"up", "none"}
      BY <1>2, <1>4, <2>2, <3>1 DEF WorkerReply
    <3>4. outbox'[c] = <<asked[c]>> \/ outbox'[c] = <<>>
      BY <1>2, <1>4, <2>2, <3>1 DEF WorkerReply
    <3> QED BY <1>0, <1>1, <3>1, <3>2, <3>3, <3>4 DEF Pipe
  <2>3. CASE WorkerEof(c)
    BY <1>0, <1>1, <1>2, <2>3 DEF WorkerEof, Pipe, Ready
  <2>4. CASE WorkerDie(c)
    <3>1. worker'[c] = "dead" /\ inbox'[c] = <<>>
      BY <1>2, <2>4 DEF WorkerDie
    <3>2. outbox'[c] = outbox[c] \/ (worker[c] = "work" /\ outbox'[c] = Append(outbox[c], Torn))
      BY <1>2, <2>4 DEF WorkerDie
    <3>3. CASE outbox'[c] = outbox[c]
      BY <1>0, <1>1, <3>1, <3>3 DEF Pipe, Ready
    <3>4. CASE worker[c] = "work" /\ outbox'[c] = Append(outbox[c], Torn)
      <4>1. outbox[c] = <<>> /\ c \in Working
        BY <1>0, <3>4 DEF Pipe
      <4> QED BY <1>1, <1>4, <3>1, <3>4, <4>1 DEF Pipe, Ready
    <3> QED BY <3>2, <3>3, <3>4
  <2> QED BY <2>1, <2>2, <2>3, <2>4 DEF WorkerStep
<1> QED BY <1>0, <1>1, <1>3, <1>5, PipeOne

LEMMA PipeStep == IInv /\ [Next]_vars => PipeInv'
<1> SUFFICES ASSUME IInv, [Next]_vars PROVE PipeInv'
  OBVIOUS
<1>0. TypeOK /\ Owned /\ PipeInv /\ Control
  BY DEF IInv
<1>1. ASSUME UNCHANGED workerVars, UNCHANGED <<busy, cconn, rpc, rconn, pfd>>,
             \A d \in Caller : cpc[d] = "append" => cpc'[d] = "append"
      PROVE  PipeInv'
  <2>1. Working \subseteq Working' /\ Due' \subseteq Due
    BY <1>1 DEF Working, Due
  <2> QED BY <1>0, <1>1, <2>1, PipeSame
<1>2. ASSUME NEW d \in Caller, NEW r \in Req, Dispatch(d, r) PROVE PipeInv'
  <2>1. \A e \in Caller : cpc[e] = "append" => cpc'[e] = "append"
    BY <1>0, <1>2 DEF Dispatch, TypeOK, CallType
  <2> QED BY <1>1, <1>2, <2>1 DEF Dispatch, replyVars
<1>3. CASE Destroy \/ UNCHANGED vars
  BY <1>1, <1>3 DEF Destroy, vars, callVars, replyVars
<1>4. CASE DestroyEnd
  <2>1. /\ UNCHANGED <<inbox, outbox, asked, busy, cpc, cconn, rpc, rconn, pfd>>
        /\ \A c \in Conn : worker'[c] = IF worker[c] = "dead" THEN "none" ELSE worker[c]
        /\ dpc = "woken"
    BY <1>4 DEF DestroyEnd, callVars, replyVars
  <2>2. Due = {}
    <3>1. rpc = "gone" /\ ToSet(busy) = {}
      BY <1>0, <2>1, EmptyList DEF Control
    <3> QED BY <1>0, <3>1 DEF Due, Owned
  <2>3. Working' = Working /\ Due' = {}
    BY <2>1, <2>2 DEF Working, Due
  <2> QED BY <1>0, <2>1, <2>3 DEF PipeInv, Pipe
<1>5. ASSUME NEW c \in Conn, EnsureIdle(c) PROVE PipeInv'
  <2>1. /\ UNCHANGED <<inbox, outbox, asked, busy, cpc, cconn, rpc, rconn, pfd>>
        /\ c \notin Pool!Lent
        /\ worker' = [worker EXCEPT ![c] = "up"]
    BY <1>5 DEF EnsureIdle, Pool!Prefork, callVars, replyVars
  <2>2. c \notin Hands /\ c # NoConn
    BY <1>0, <2>1, DatumAssumption DEF Owned, Hands
  <2>3. c \notin Working /\ c \notin Due
    BY <1>0, <2>2, InHands
  <2>4. Working' = Working /\ Due' = Due
    BY <2>1 DEF Working, Due
  <2>5. worker'[c] = "up" /\ \A b \in Conn \ {c} : worker'[b] = worker[b]
    BY <1>0, <2>1 DEF TypeOK, WorkerType
  <2>6. Pipe(c)'
    BY <1>0, <2>1, <2>3, <2>4, <2>5 DEF PipeInv, Pipe
  <2> QED BY <1>0, <2>1, <2>4, <2>5, <2>6, PipeOne
<1> QED
  BY <1>2, <1>3, <1>4, <1>5, PipeCaller, PipeReply, PipeWorker DEF Next

-----------------------------------------------------------------------------
(* Who has something to say.                                               *)

\* A step that leaves all pipes but one alone.
LEMMA AnswerOne ==
    ASSUME AnswerInv, NEW c \in Conn, Answer(c)',
           \A b \in Conn \ {c} :
              /\ worker'[b] = worker[b] /\ inbox'[b] = inbox[b] /\ outbox'[b] = outbox[b]
              /\ Open(b)' => Open(b)
              /\ b \in Working' => b \in Working
    PROVE  AnswerInv'
<1> SUFFICES ASSUME NEW b \in Conn PROVE Answer(b)'
  BY DEF AnswerInv
<1>1. CASE b # c
  BY <1>1 DEF AnswerInv, Answer, Ready
<1> QED BY <1>1

\* A step that leaves all pipes alone.
LEMMA AnswerSame ==
    ASSUME AnswerInv, UNCHANGED workerVars, \A b \in Conn : Open(b)' => Open(b),
           Working' \subseteq Working
    PROVE  AnswerInv'
BY DEF AnswerInv, Answer, Ready, workerVars

LEMMA AnswerCaller ==
    ASSUME IInv, NEW d \in Caller, CallerStep(d)
    PROVE  AnswerInv'
<1>0. /\ TypeOK /\ Owned /\ OwnedEach /\ PipeInv /\ AnswerInv
      /\ UNCHANGED <<rpc, rconn>> /\ app = "up"
  BY OwnedIsEach DEF IInv, CallerStep, TestLimit, GetProc, GetDrop, GetFail, Send, SendBroken,
                     AppendBusy, replyVars
<1>1. CASE TestLimit(d) \/ GetFail(d) \/ SendBroken(d)
  <2>1. /\ UNCHANGED <<busy, cconn>> /\ UNCHANGED <<workerVars, poolVars>>
        /\ cpc'[d] # "append"
        /\ \A e \in Caller : e # d => cpc'[e] = cpc[e]
    BY <1>0, <1>1 DEF TestLimit, GetFail, SendBroken, Refuse, TypeOK, CallType
  <2>2. Working' \subseteq Working
    BY <1>0, <2>1 DEF Working
  <2> QED BY <1>0, <2>1, <2>2, AnswerSame DEF poolVars, Open
<1>2. ASSUME NEW c \in Conn, GetProc(d, c) \/ GetDrop(d, c) PROVE AnswerInv'
  <2>1. c \notin Hands /\ c # NoConn /\ c \notin Working
    <3>1. c \notin Hands /\ c # NoConn
      BY <1>0, <1>2, InHands, DatumAssumption DEF GetProc, GetDrop, Pool!Lend, Pool!Discard
    <3> QED BY <1>0, <3>1, InHands
  <2>2. /\ UNCHANGED <<busy, inbox, outbox>> /\ cpc[d] = "get" /\ cpc'[d] # "append"
        /\ \A e \in Caller : e # d => cpc'[e] = cpc[e] /\ cconn'[e] = cconn[e]
        /\ \A b \in Conn \ {c} : worker'[b] = worker[b]
    BY <1>0, <1>2 DEF GetProc, GetDrop, callVars, TypeOK, CallType, WorkerType
  <2>3. Working' \subseteq Working
    BY <1>0, <2>2 DEF Working
  <2>4. \A b \in Conn \ {c} : Open(b)' => Open(b)
    BY <1>0, <1>2 DEF GetProc, GetDrop, Pool!Lend, Pool!Discard, Open, TypeOK, PoolType
  <2>5. Answer(c)'
    <3>1. c \notin Working'
      BY <2>1, <2>3
    <3>2. CASE GetProc(d, c)
      <4>1. (c \in idle /\ UNCHANGED worker) \/ worker'[c] = "up"
        BY <1>0, <3>2 DEF GetProc, TypeOK, WorkerType
      <4>2. c \in idle => worker[c] # "none"
        BY <1>0 DEF AnswerInv, Answer, Open
      <4> QED BY <3>1, <4>1, <4>2 DEF Answer
    <3>3. CASE GetDrop(d, c)
      <4>1. c \notin idle' /\ lease'[c] = NoConn
        BY <1>0, <2>1, <3>3 DEF GetDrop, Pool!Discard, OwnedEach
      <4> QED BY <4>1 DEF Answer, Open
    <3> QED BY <1>2, <3>2, <3>3
  <2> QED BY <1>0, <2>2, <2>3, <2>4, <2>5, AnswerOne
<1>3. CASE Send(d)
  <2>1. PICK c \in Conn : c = cconn[d]
    BY <1>0, <1>3 DEF Send, InHand, TypeOK, CallType
  <2>2. /\ cpc' = [cpc EXCEPT ![d] = "append"] /\ cpc[d] = "send"
        /\ UNCHANGED <<busy, cconn, worker, outbox, idle, lease, app>>
        /\ inbox' = [inbox EXCEPT ![c] = Append(@, creq[d])]
    BY <1>3, <2>1 DEF Send, poolVars
  <2>3. d \in InHand /\ creq[d] \in Req /\ lease[c] = c
    <3>1. d \in InHand /\ creq[d] \in Req
      BY <1>0, <2>2 DEF InHand, TypeOK, CallType
    <3> QED BY <1>0, <2>1, <3>1 DEF Hands, OwnedEach
  <2>4. worker[c] # "none"
    BY <1>0, <2>3, DatumAssumption DEF AnswerInv, Answer, Open
  <2>5. inbox'[c] # <<>> /\ \A b \in Conn \ {c} : inbox'[b] = inbox[b]
    <3>1. inbox \in [Conn -> Seq(Req)]
      BY <1>0 DEF TypeOK, WorkerType
    <3>2. inbox'[c] = Append(inbox[c], creq[d]) /\ inbox[c] \in Seq(Req)
      BY <2>2, <3>1
    <3>3. inbox'[c] # <<>>
      BY <2>3, <3>2
    <3> QED BY <2>2, <3>1, <3>3
  <2>6. Answer(c)'
    BY <2>2, <2>4, <2>5 DEF Answer
  <2>7. \A b \in Conn \ {c} : b \in Working' => b \in Working
    BY <1>0, <2>1, <2>2 DEF Working, TypeOK, CallType
  <2>8. \A b \in Conn : Open(b)' => Open(b)
    BY <2>2 DEF Open
  <2> QED BY <1>0, <2>2, <2>5, <2>6, <2>7, <2>8, AnswerOne
<1>4. CASE AppendBusy(d)
  <2>1. /\ UNCHANGED <<workerVars, poolVars>> /\ ToSet(busy') = ToSet(busy) \cup {cconn[d]}
        /\ cpc[d] = "append"
        /\ cpc' = [cpc EXCEPT ![d] = "out"] /\ cconn' = [cconn EXCEPT ![d] = NoConn]
    BY <1>0, <1>4, AppendFacts DEF AppendBusy
  <2>2. Working' \subseteq Working
    BY <1>0, <2>1 DEF Working, TypeOK, CallType
  <2> QED BY <1>0, <2>1, <2>2, AnswerSame DEF poolVars, Open
<1> QED BY <1>1, <1>2, <1>3, <1>4 DEF CallerStep

LEMMA AnswerReply ==
    ASSUME IInv, ReplyStep
    PROVE  AnswerInv'
<1>0. /\ TypeOK /\ Owned /\ OwnedEach /\ AnswerInv
      /\ UNCHANGED <<cpc, cconn, app>>
  BY OwnedIsEach DEF IInv, ReplyStep, Poll, TakeBusy, NextTurn, ReadReply, ReadEnd, Save, Erase,
                     ReplyExit, callVars
<1>1. CASE Poll \/ NextTurn \/ ReplyExit
  <2>1. UNCHANGED <<workerVars, poolVars>> /\ UNCHANGED <<busy, rconn>> /\ rpc' # "read"
    BY <1>1 DEF Poll, NextTurn, ReplyExit
  <2>2. Working' \subseteq Working
    BY <1>0, <2>1 DEF Working
  <2> QED BY <1>0, <2>1, <2>2, AnswerSame DEF poolVars, Open
<1>2. CASE TakeBusy
  <2>1. \E c \in Conn : c \in ToSet(busy) /\ ToSet(busy') = ToSet(busy) \ {c} /\ rconn' = c
    BY <1>0, <1>2, TakeFacts
  <2>2. UNCHANGED <<workerVars, poolVars>>
    BY <1>2 DEF TakeBusy
  <2>3. Working' \subseteq Working
    BY <1>0, <2>1 DEF Working
  <2> QED BY <1>0, <2>2, <2>3, AnswerSame DEF poolVars, Open
<1>3. CASE ReadReply \/ ReadEnd
  <2>1. /\ UNCHANGED <<busy, worker, inbox, idle, lease>> /\ rpc = "read" /\ rpc' # "read"
    BY <1>3 DEF ReadReply, ReadEnd, workerVars, poolVars
  <2>2. PICK c \in Conn : c = rconn
    BY <1>0, <2>1 DEF TypeOK, ReplyType
  <2>3. \A b \in Conn \ {c} : outbox'[b] = outbox[b]
    BY <1>0, <1>3, <2>2 DEF ReadReply, ReadEnd, workerVars, TypeOK, WorkerType
  <2>4. Working' \subseteq Working /\ c \notin Working'
    <3>1. \A d \in InHand : cconn[d] # c
      BY <1>0, <2>2 DEF OwnedEach
    <3> QED BY <1>0, <2>1, <2>2, <3>1 DEF Working, OwnedEach, InHand
  <2>5. \A b \in Conn : Open(b)' = Open(b)
    BY <1>0, <2>1 DEF Open
  <2>6. Answer(c)'
    BY <1>0, <2>1, <2>4, <2>5 DEF AnswerInv, Answer
  <2> QED BY <1>0, <2>1, <2>3, <2>4, <2>5, <2>6, AnswerOne
<1>4. CASE Save \/ Erase
  <2>1. /\ UNCHANGED busy /\ rpc \in {"save", "erase"} /\ rpc' = "next"
    BY <1>4 DEF Save, Erase
  <2>2. PICK c \in Conn : c = rconn
    BY <1>0, <2>1 DEF TypeOK, ReplyType
  <2>3. Working' \subseteq Working /\ c \notin Working'
    <3>1. \A d \in InHand : cconn[d] # c
      BY <1>0, <2>2 DEF OwnedEach
    <3> QED BY <1>0, <2>1, <2>2, <3>1 DEF Working, OwnedEach, InHand
  <2>4. lease[c] = c
    BY <1>0, <2>2, DatumAssumption DEF OwnedEach, Hands
  <2>5. CASE Pool!GiveBack(c) /\ UNCHANGED workerVars
    <3>1. \A b \in Conn : Open(b)' => Open(b)
      BY <1>0, <2>4, <2>5, DatumAssumption DEF Pool!GiveBack, Open, TypeOK, PoolType
    <3> QED BY <1>0, <2>3, <2>5, <3>1, AnswerSame
  <2>6. CASE Pool!Retire(c) /\ Close(c)
    <3>1. \A b \in Conn : Open(b)' => Open(b)
      BY <1>0, <2>6, DatumAssumption DEF Pool!Retire, Open, TypeOK, PoolType
    <3>2. ~Open(c)'
      BY <1>0, <2>4, <2>6, DatumAssumption DEF Pool!Retire, Open, TypeOK, PoolType, OwnedEach
    <3>3. \A b \in Conn \ {c} : /\ worker'[b] = worker[b] /\ inbox'[b] = inbox[b]
                                /\ outbox'[b] = outbox[b]
      BY <1>0, <2>6 DEF Close, TypeOK, WorkerType
    <3>4. Answer(c)'
      BY <3>2 DEF Answer
    <3> QED BY <1>0, <2>3, <3>1, <3>3, <3>4, AnswerOne
  <2> QED BY <1>4, <2>2, <2>5, <2>6 DEF Save, Erase
<1> QED BY <1>1, <1>2, <1>3, <1>4 DEF ReplyStep

LEMMA AnswerWorker ==
    ASSUME IInv, NEW c \in Conn, WorkerStep(c) \/ WorkerDie(c)
    PROVE  AnswerInv'
<1>0. /\ TypeOK /\ AnswerInv /\ Answer(c)
      /\ UNCHANGED <<idle, lease, app, busy, cpc, cconn, rpc, rconn>>
  BY DEF IInv, AnswerInv, WorkerStep, WorkerRead, WorkerReply, WorkerEof, WorkerDie,
         callVars, replyVars, poolVars
<1>1. Working' = Working /\ \A b \in Conn : Open(b)' = Open(b)
  BY <1>0 DEF Working, Open
<1>2. /\ worker \in [Conn -> {"none", "up", "work", "dead"}]
      /\ inbox \in [Conn -> Seq(Req)] /\ outbox \in [Conn -> Seq(Req \cup {Torn})]
  BY <1>0 DEF TypeOK, WorkerType
<1>3. \A b \in Conn \ {c} : /\ worker'[b] = worker[b] /\ inbox'[b] = inbox[b]
                            /\ outbox'[b] = outbox[b]
  <2>1. worker' = worker \/ \E w : worker' = [worker EXCEPT ![c] = w]
    BY DEF WorkerStep, WorkerRead, WorkerReply, WorkerEof, WorkerDie
  <2>2. inbox' = inbox \/ \E i : inbox' = [inbox EXCEPT ![c] = i]
    BY DEF WorkerStep, WorkerRead, WorkerReply, WorkerEof, WorkerDie
  <2>3. outbox' = outbox \/ \E o : outbox' = [outbox EXCEPT ![c] = o]
    BY DEF WorkerStep, WorkerRead, WorkerReply, WorkerEof, WorkerDie
  <2> QED BY <1>2, <2>1, <2>2, <2>3
<1>4. Answer(c)'
  <2>1. CASE WorkerRead(c)
    <3>1. worker'[c] = "work" /\ inbox'[c] # <<>>
      BY <1>2, <2>1 DEF WorkerRead
    <3> QED BY <3>1 DEF Answer
  <2>2. CASE WorkerReply(c)
    <3>1. CASE Open(c)
      <4>1. worker'[c] = "up" /\ outbox'[c] = Append(outbox[c], Head(inbox[c]))
        BY <1>2, <2>2, <3>1 DEF WorkerReply
      <4>2. inbox[c] # <<>>
        BY <2>2 DEF WorkerReply, IInv, PipeInv, Pipe
      <4>3. Head(inbox[c]) \in Req
        BY <1>2, <4>2
      <4>4. outbox[c] \in Seq(Req \cup {Torn}) /\ Head(inbox[c]) \in Req \cup {Torn}
        BY <1>2, <4>3
      <4>5. outbox'[c] # <<>>
        BY <4>1, <4>4
      <4> QED BY <4>1, <4>5 DEF Answer, Ready
    <3> QED BY <1>1, <3>1 DEF Answer
  <2>3. CASE WorkerEof(c)
    BY <1>1, <2>3 DEF WorkerEof, Answer
  <2>4. CASE WorkerDie(c)
    <3>1. worker'[c] = "dead"
      BY <1>2, <2>4 DEF WorkerDie
    <3> QED BY <3>1 DEF Answer, Ready
  <2> QED BY <2>1, <2>2, <2>3, <2>4 DEF WorkerStep
<1> QED BY <1>0, <1>1, <1>3, <1>4, AnswerOne

LEMMA AnswerStep == IInv /\ [Next]_vars => AnswerInv'
<1> SUFFICES ASSUME IInv, [Next]_vars PROVE AnswerInv'
  OBVIOUS
<1>0. TypeOK /\ Owned /\ OwnedEach /\ Control /\ AnswerInv
  BY OwnedIsEach DEF IInv
<1>1. ASSUME NEW d \in Caller, NEW r \in Req, Dispatch(d, r) PROVE AnswerInv'
  <2>1. Working' \subseteq Working
    BY <1>0, <1>1 DEF Dispatch, Working, replyVars, TypeOK, CallType
  <2> QED BY <1>0, <1>1, <2>1, AnswerSame DEF Dispatch, poolVars, Open
<1>2. CASE Destroy \/ UNCHANGED vars
  <2>1. Working' = Working
    BY <1>2 DEF Destroy, vars, callVars, replyVars, Working
  <2> QED BY <1>0, <1>2, <2>1, AnswerSame DEF Destroy, vars, poolVars, Open
<1>3. CASE DestroyEnd
  <2>1. \A c \in Conn : ~Open(c)'
    BY <1>3 DEF DestroyEnd, Pool!Shut, Open
  <2> QED BY <2>1 DEF AnswerInv, Answer
<1>4. ASSUME NEW c \in Conn, EnsureIdle(c) PROVE AnswerInv'
  <2>1. /\ UNCHANGED <<inbox, outbox, asked, busy, cpc, cconn, rpc, rconn, app>>
        /\ c \notin Pool!Lent
        /\ worker' = [worker EXCEPT ![c] = "up"]
        /\ idle' = idle \cup {c} /\ UNCHANGED lease
    BY <1>4 DEF EnsureIdle, Pool!Prefork, callVars, replyVars
  <2>2. c \notin Hands /\ c # NoConn
    BY <1>0, <2>1, DatumAssumption DEF Owned, Hands
  <2>3. c \notin Working /\ Working' = Working
    BY <1>0, <2>1, <2>2, InHands DEF Working
  <2>4. worker'[c] = "up" /\ \A b \in Conn \ {c} : worker'[b] = worker[b]
    BY <1>0, <2>1 DEF TypeOK, WorkerType
  <2>5. Answer(c)'
    BY <2>3, <2>4 DEF Answer
  <2>6. \A b \in Conn \ {c} : Open(b)' => Open(b)
    BY <2>1 DEF Open
  <2> QED BY <1>0, <2>1, <2>3, <2>4, <2>5, <2>6, AnswerOne
<1> QED
  BY <1>1, <1>2, <1>3, <1>4, AnswerCaller, AnswerReply, AnswerWorker DEF Next

-----------------------------------------------------------------------------
(* Where a request is.                                                     *)

LEMMA SentType ==
    ASSUME TypeOK, Owned
    PROVE  Sent \subseteq Conn /\ \A d \in InHand : cconn[d] \in Conn /\ cconn[d] \notin Sent
<1>1. \A d \in InHand : cconn[d] \in Conn
  BY DEF TypeOK, CallType, InHand
<1>2. rpc = "read" => rconn \in Conn
  BY DEF TypeOK, ReplyType
<1> QED BY <1>1, <1>2, BusyType DEF Sent, Owned

\* A step of callers and workers that settles nothing.
LEMMA CallSame ==
    ASSUME CallInv, Sent' = Sent, UNCHANGED <<creq, outcome>>,
           \A c \in Sent : asked'[c] = asked[c],
           \A d \in Caller : cpc'[d] # "out" => cpc[d] # "out",
           \A d \in Caller : cpc'[d] = "append" =>
              cpc[d] = "append" /\ asked'[cconn'[d]] = asked[cconn[d]]
    PROVE  CallInv'
BY DEF CallInv

LEMMA CallCaller ==
    ASSUME IInv, NEW d \in Caller, CallerStep(d)
    PROVE  CallInv'
<1>0. TypeOK /\ Owned /\ CallInv /\ UNCHANGED <<rpc, rconn>>
  BY DEF IInv, CallerStep, TestLimit, GetProc, GetDrop, GetFail, Send, SendBroken,
         AppendBusy, replyVars
<1>1. /\ cpc \in [Caller -> {"out", "test", "get", "send", "append", "stuck"}]
      /\ creq \in [Caller -> Req \cup {NoReq}] /\ outcome \in [Req -> Outcome]
      /\ cconn \in [Caller -> Conn \cup {NoConn}]
      /\ \A e \in Caller : cpc[e] # "out" => creq[e] \in Req
  BY <1>0 DEF TypeOK, CallType
<1>2. ASSUME UNCHANGED <<busy, asked, outcome, creq, cconn>>, cpc[d] # "out",
             NEW to, cpc' = [cpc EXCEPT ![d] = to], to # "append"
      PROVE  CallInv'
  <2>1. Sent' = Sent
    BY <1>0, <1>2 DEF Sent
  <2> QED BY <1>0, <1>1, <1>2, <2>1, CallSame
<1>3. ASSUME UNCHANGED <<busy, asked, cconn>>, Refuse(d), cpc[d] \in {"test", "get"}
      PROVE  CallInv'
  <2>1. /\ cpc'[d] = "out" /\ outcome' = [outcome EXCEPT ![creq[d]] = "refused"]
        /\ \A e \in Caller : e # d => cpc'[e] = cpc[e] /\ creq'[e] = creq[e]
    BY <1>1, <1>3 DEF Refuse
  <2>2. Sent' = Sent
    BY <1>0, <1>3 DEF Sent
  <2>3. creq[d] \in Req /\ outcome[creq[d]] = "calling"
    BY <1>0, <1>1, <1>3 DEF CallInv
  <2>4. \A r \in Req : r # creq[d] => outcome'[r] = outcome[r]
    BY <1>1, <2>1
  <2>5. outcome'[creq[d]] = "refused"
    BY <1>1, <2>1, <2>3
  <2>6. \A c \in Sent : asked[c] # creq[d]
    BY <1>0, <2>3 DEF CallInv
  <2>7. creq'[d] = NoReq /\ NoReq \notin Req
    BY <1>1, <1>3, DatumAssumption DEF Refuse
  <2>8. \A e \in Caller : cpc'[e] # "out" =>
           /\ e # d /\ cpc[e] # "out"
           /\ creq'[e] = creq[e] /\ creq[e] \in Req /\ creq[e] # creq[d]
    BY <1>0, <1>1, <1>3, <2>1 DEF CallInv
  <2>9. \A e \in Caller : cpc'[e] # "out" => outcome'[creq'[e]] = "calling"
    BY <1>0, <2>4, <2>8 DEF CallInv
  <2>10. \A e, f \in Caller : cpc'[e] # "out" /\ creq'[e] = creq'[f] => e = f
    <3> SUFFICES ASSUME NEW e \in Caller, NEW f \in Caller, cpc'[e] # "out",
                        creq'[e] = creq'[f]
                 PROVE  e = f
      OBVIOUS
    <3>1. f # d /\ creq[e] = creq[f] /\ cpc[e] # "out"
      BY <2>1, <2>7, <2>8
    <3> QED BY <1>0, <3>1 DEF CallInv
  <2>11. \A e \in Caller : cpc'[e] = "append" => asked'[cconn'[e]] = creq'[e]
    BY <1>0, <1>3, <2>1, <2>8 DEF CallInv
  <2>12. \A c \in Sent' : asked'[c] \in Req /\ outcome'[asked'[c]] = "sent"
    BY <1>0, <1>3, <2>2, <2>4, <2>6 DEF CallInv
  <2>13. \A c, e \in Sent' : asked'[c] = asked'[e] => c = e
    BY <1>0, <1>3, <2>2 DEF CallInv
  <2>14. \A r \in Req : outcome'[r] = "sent" => \E c \in Sent' : asked'[c] = r
    BY <1>0, <1>3, <2>2, <2>4, <2>5 DEF CallInv
  <2> QED BY <2>9, <2>10, <2>11, <2>12, <2>13, <2>14 DEF CallInv
<1>4. CASE TestLimit(d)
  <2>1. CASE BelowLimit
    BY <1>2, <1>4, <2>1 DEF TestLimit, workerVars
  <2>2. CASE ~BelowLimit
    BY <1>3, <1>4, <2>2 DEF TestLimit, workerVars
  <2> QED BY <2>1, <2>2
<1>5. CASE GetFail(d)
  BY <1>3, <1>5 DEF GetFail, workerVars
<1>6. ASSUME NEW c \in Conn, GetProc(d, c) PROVE CallInv'
  <2>1. /\ cpc[d] = "get" /\ cpc' = [cpc EXCEPT ![d] = "send"]
        /\ cconn' = [cconn EXCEPT ![d] = c]
        /\ UNCHANGED <<busy, asked, outcome, creq>>
    BY <1>6 DEF GetProc
  <2>2. Sent' = Sent
    BY <1>0, <2>1 DEF Sent
  <2>3. \A e \in Caller : e # d => cpc'[e] = cpc[e] /\ cconn'[e] = cconn[e]
    BY <1>1, <2>1
  <2>4. cpc'[d] = "send"
    BY <1>1, <2>1
  <2> QED BY <1>0, <2>1, <2>2, <2>3, <2>4, CallSame
<1>7. ASSUME NEW c \in Conn, GetDrop(d, c) PROVE CallInv'
  <2>1. UNCHANGED <<cpc, creq, cconn, busy, asked, outcome>>
    BY <1>7 DEF GetDrop, callVars
  <2>2. Sent' = Sent
    BY <1>0, <2>1 DEF Sent
  <2> QED BY <1>0, <2>1, <2>2, CallSame
<1>8. CASE Send(d)
  <2>1. /\ cpc[d] = "send" /\ cpc' = [cpc EXCEPT ![d] = "append"]
        /\ asked' = [asked EXCEPT ![cconn[d]] = creq[d]]
        /\ UNCHANGED <<busy, outcome, creq, cconn>>
    BY <1>8 DEF Send
  <2>2. Sent' = Sent
    BY <1>0, <2>1 DEF Sent
  <2>3. d \in InHand /\ asked \in [Conn -> Req \cup {NoReq}]
    BY <1>0, <2>1 DEF InHand, TypeOK, WorkerType
  <2>4. cconn[d] \in Conn /\ cconn[d] \notin Sent
    BY <1>0, <2>3, SentType
  <2>5. \A c \in Sent : asked'[c] = asked[c]
    BY <1>0, <2>1, <2>3, <2>4, SentType
  <2>6. ASSUME NEW e \in Caller, cpc'[e] = "append" PROVE asked'[cconn'[e]] = creq'[e]
    <3>1. CASE e = d
      BY <2>1, <2>3, <2>4, <3>1
    <3>2. CASE e # d
      <4>1. cpc[e] = "append" /\ e \in InHand
        BY <1>1, <2>1, <2>6, <3>2 DEF InHand
      <4>2. cconn[e] # cconn[d] /\ cconn[e] \in Conn
        BY <1>0, <2>3, <3>2, <4>1, SentType DEF Owned
      <4> QED BY <1>0, <2>1, <2>3, <4>1, <4>2 DEF CallInv
    <3> QED BY <3>1, <3>2
  <2>7. \A e \in Caller : cpc'[e] # "out" => cpc[e] # "out"
    BY <1>1, <2>1
  <2> QED BY <1>0, <2>1, <2>2, <2>5, <2>6, <2>7 DEF CallInv
<1>9. CASE SendBroken(d)
  <2>1. /\ cpc[d] = "send" /\ UNCHANGED <<busy, asked, outcome, creq, cconn>>
        /\ cpc' = cpc \/ cpc' = [cpc EXCEPT ![d] = "stuck"]
    BY <1>9 DEF SendBroken, workerVars
  <2>2. cpc' = cpc => Sent' = Sent
    BY <1>0, <2>1 DEF Sent
  <2>3. cpc' = cpc => CallInv'
    BY <1>0, <2>1, <2>2, CallSame
  <2> QED BY <1>2, <2>1, <2>3
<1>10. CASE AppendBusy(d)
  <2>1. /\ cpc[d] = "append" /\ cpc' = [cpc EXCEPT ![d] = "out"]
        /\ creq' = [creq EXCEPT ![d] = NoReq] /\ cconn' = [cconn EXCEPT ![d] = NoConn]
        /\ outcome' = [outcome EXCEPT ![creq[d]] = "sent"]
        /\ UNCHANGED asked
        /\ ToSet(busy') = ToSet(busy) \cup {cconn[d]}
    BY <1>0, <1>10, AppendFacts DEF AppendBusy, workerVars
  <2>2. Sent' = Sent \cup {cconn[d]}
    BY <1>0, <2>1 DEF Sent
  <2>3. /\ creq[d] \in Req /\ outcome[creq[d]] = "calling"
        /\ asked[cconn[d]] = creq[d]
    BY <1>0, <1>1, <2>1 DEF CallInv
  <2>4. \A c \in Sent : asked[c] # creq[d]
    BY <1>0, <2>3 DEF CallInv
  <2>5. \A r \in Req : outcome'[r] = IF r = creq[d] THEN "sent" ELSE outcome[r]
    BY <1>1, <2>1
  <2>6. /\ cpc'[d] = "out"
        /\ \A e \in Caller \ {d} :
              cpc'[e] = cpc[e] /\ creq'[e] = creq[e] /\ cconn'[e] = cconn[e]
    BY <1>1, <2>1
  <2>7. \A e \in Caller : e # d /\ cpc[e] # "out" => creq[e] # creq[d] /\ creq[e] \in Req
    BY <1>0, <1>1, <2>1 DEF CallInv
  <2>8. \A e \in Caller : cpc'[e] # "out" => e # d /\ outcome'[creq'[e]] = "calling"
    BY <1>0, <2>5, <2>6, <2>7 DEF CallInv
  <2>9. \A c \in Sent' : asked'[c] \in Req /\ outcome'[asked'[c]] = "sent"
    BY <1>0, <2>1, <2>2, <2>3, <2>5 DEF CallInv
  <2>10. \A c, e \in Sent' : asked'[c] = asked'[e] => c = e
    BY <1>0, <2>1, <2>2, <2>3, <2>4 DEF CallInv
  <2>11. \A r \in Req : outcome'[r] = "sent" => \E c \in Sent' : asked'[c] = r
    BY <1>0, <2>1, <2>2, <2>3, <2>5 DEF CallInv
  <2>12. \A e, f \in Caller : cpc'[e] # "out" /\ creq'[e] = creq'[f] => e = f
    <3> SUFFICES ASSUME NEW e \in Caller, NEW f \in Caller, cpc'[e] # "out",
                        creq'[e] = creq'[f]
                 PROVE  e = f
      OBVIOUS
    <3>1. e # d /\ cpc[e] # "out" /\ creq'[e] = creq[e] /\ creq[e] \in Req
      BY <2>6, <2>7
    <3>2. f # d
      BY <1>1, <2>1, <3>1, DatumAssumption
    <3>3. creq[e] = creq[f]
      BY <2>6, <3>1, <3>2
    <3> QED BY <1>0, <3>1, <3>3 DEF CallInv
  <2>13. \A e \in Caller : cpc'[e] = "append" => asked'[cconn'[e]] = creq'[e]
    BY <1>0, <2>1, <2>6 DEF CallInv
  <2> QED BY <2>8, <2>9, <2>10, <2>11, <2>12, <2>13 DEF CallInv
<1> QED BY <1>4, <1>5, <1>6, <1>7, <1>8, <1>9, <1>10 DEF CallerStep

LEMMA CallReply ==
    ASSUME IInv, ReplyStep
    PROVE  CallInv'
<1>0. TypeOK /\ Owned /\ CallInv /\ UNCHANGED <<cpc, creq, cconn>>
  BY DEF IInv, ReplyStep, Poll, TakeBusy, NextTurn, ReadReply, ReadEnd, Save, Erase, ReplyExit,
         callVars
<1>1. CASE Poll \/ NextTurn \/ ReplyExit
  <2>1. UNCHANGED <<busy, rconn, asked, outcome>> /\ rpc # "read" /\ rpc' # "read"
    BY <1>1 DEF Poll, NextTurn, ReplyExit, workerVars
  <2>2. Sent' = Sent
    BY <2>1 DEF Sent
  <2> QED BY <1>0, <2>1, <2>2, CallSame
<1>2. CASE TakeBusy
  <2>1. PICK c \in Conn : /\ c \in ToSet(busy) /\ ToSet(busy') = ToSet(busy) \ {c}
                          /\ rconn' = c /\ rpc' = "read"
    BY <1>0, <1>2, TakeFacts
  <2>2. rpc = "next" /\ UNCHANGED <<asked, outcome>>
    BY <1>2 DEF TakeBusy, workerVars
  <2>3. Sent' = Sent
    BY <2>1, <2>2 DEF Sent
  <2> QED BY <1>0, <2>2, <2>3, CallSame
<1>3. CASE ReadReply \/ ReadEnd
  <2>1. /\ UNCHANGED <<busy, rconn, asked>> /\ rpc = "read" /\ rpc' # "read"
        /\ \E x \in Settled : outcome' = [outcome EXCEPT ![asked[rconn]] = x]
    BY <1>3 DEF ReadReply, ReadEnd, workerVars, Settled
  <2>2. Sent = ToSet(busy) \cup {rconn} /\ Sent' = ToSet(busy) /\ rconn \notin ToSet(busy)
    BY <1>0, <2>1 DEF Sent, Owned
  <2>3. asked[rconn] \in Req /\ outcome[asked[rconn]] = "sent"
    BY <1>0, <2>2 DEF CallInv
  <2>4. /\ outcome'[asked[rconn]] # "sent"
        /\ \A r \in Req : r # asked[rconn] => outcome'[r] = outcome[r]
    BY <1>0, <2>1, <2>3 DEF TypeOK, CallType, Settled
  <2>5. \A c \in Sent' : asked[c] # asked[rconn]
    BY <1>0, <2>2 DEF CallInv
  <2>6. \A d \in Caller : cpc[d] # "out" => creq[d] # asked[rconn] /\ creq[d] \in Req
    BY <1>0, <2>3 DEF CallInv, TypeOK, CallType
  <2> QED BY <1>0, <2>1, <2>2, <2>3, <2>4, <2>5, <2>6 DEF CallInv
<1>4. CASE Save \/ Erase
  <2>1. /\ UNCHANGED <<busy, outcome>> /\ rpc \in {"save", "erase"} /\ rpc' = "next"
        /\ UNCHANGED asked \/ asked' = [asked EXCEPT ![rconn] = NoReq]
    BY <1>4 DEF Save, Erase, Close, workerVars
  <2>2. Sent' = Sent /\ rconn \notin Sent
    BY <1>0, <2>1 DEF Sent, Owned
  <2>3. \A c \in Conn \ {rconn} : asked'[c] = asked[c]
    BY <1>0, <2>1 DEF TypeOK, WorkerType
  <2>4. \A d \in InHand : cconn[d] # rconn /\ cconn[d] \in Conn
    BY <1>0, SentType DEF Owned
  <2>5. \A c \in Sent : asked'[c] = asked[c]
    BY <1>0, <2>2, <2>3, SentType
  <2>6. \A d \in Caller : cpc[d] = "append" => asked'[cconn[d]] = asked[cconn[d]]
    BY <2>3, <2>4 DEF InHand
  <2> QED BY <1>0, <2>1, <2>2, <2>5, <2>6, CallSame
<1> QED BY <1>1, <1>2, <1>3, <1>4 DEF ReplyStep

LEMMA CallStep == IInv /\ [Next]_vars => CallInv'
<1> SUFFICES ASSUME IInv, [Next]_vars PROVE CallInv'
  OBVIOUS
<1>0. TypeOK /\ CallInv
  BY DEF IInv
<1>1. ASSUME NEW d \in Caller, NEW r \in Req, Dispatch(d, r) PROVE CallInv'
  <2>1. /\ cpc[d] = "out" /\ outcome[r] = "new" /\ UNCHANGED <<cconn, asked, busy, rpc, rconn>>
        /\ cpc' = [cpc EXCEPT ![d] = "test"] /\ creq' = [creq EXCEPT ![d] = r]
        /\ outcome' = [outcome EXCEPT ![r] = "calling"]
    BY <1>1 DEF Dispatch, replyVars, workerVars
  <2>2. Sent' = Sent
    BY <2>1 DEF Sent
  <2>3. /\ cpc'[d] = "test" /\ creq'[d] = r
        /\ \A e \in Caller : e # d => cpc'[e] = cpc[e] /\ creq'[e] = creq[e]
    BY <1>0, <2>1 DEF TypeOK, CallType
  <2>4. \A q \in Req : outcome'[q] = IF q = r THEN "calling" ELSE outcome[q]
    BY <1>0, <2>1 DEF TypeOK, CallType
  <2>5. \A e \in Caller : cpc[e] # "out" => creq[e] # r /\ creq[e] \in Req
    BY <1>0, <2>1 DEF CallInv, TypeOK, CallType
  <2>6. \A e \in Caller : cpc[e] = "out" => creq[e] = NoReq
    BY <1>0 DEF TypeOK, CallType
  <2>7. \A c \in Sent : asked[c] # r
    BY <1>0, <2>1 DEF CallInv
  <2>8. \A e, f \in Caller : cpc'[e] # "out" /\ creq'[e] = creq'[f] => e = f
    <3>1. NoReq \notin Req
      BY DatumAssumption
    <3> QED BY <1>0, <2>3, <2>5, <2>6, <3>1 DEF CallInv
  <2> QED BY <1>0, <2>1, <2>2, <2>3, <2>4, <2>5, <2>7, <2>8 DEF CallInv
<1>2. ASSUME UNCHANGED <<busy, rpc, rconn, asked, cpc, creq, cconn, outcome>> PROVE CallInv'
  <2>1. Sent' = Sent
    BY <1>2 DEF Sent
  <2> QED BY <1>0, <1>2, <2>1, CallSame
<1>3. CASE Destroy \/ DestroyEnd \/ UNCHANGED vars
  BY <1>2, <1>3 DEF Destroy, DestroyEnd, vars, callVars, replyVars, workerVars
<1>4. ASSUME NEW c \in Conn, EnsureIdle(c) \/ WorkerStep(c) \/ WorkerDie(c) PROVE CallInv'
  BY <1>2, <1>4 DEF EnsureIdle, WorkerStep, WorkerRead, WorkerReply, WorkerEof, WorkerDie,
                    callVars, replyVars
<1> QED BY <1>1, <1>3, <1>4, CallCaller, CallReply DEF Next

-----------------------------------------------------------------------------
(* How many processes are busy.                                            *)

\* The callers that have passed the test of mMaxProc.
Passed == {d \in Caller : cpc[d] \notin {"out", "test"}}

LEMMA PassedType ==
    /\ IsFiniteSet(Passed) /\ Cardinality(Passed) \in Nat
    /\ \A d \in Caller : d \notin Passed => Cardinality(Passed) < Cardinality(Caller)
    /\ Cardinality(Caller) \in Nat
<1>1. IsFiniteSet(Caller) /\ Cardinality(Caller) \in Nat
  BY DatumAssumption, FS_CardinalityType
<1>2. IsFiniteSet(Passed) /\ Cardinality(Passed) \in Nat
  BY <1>1, FS_Subset, FS_CardinalityType DEF Passed
<1>3. ASSUME NEW d \in Caller, d \notin Passed
      PROVE  Cardinality(Passed) < Cardinality(Caller)
  <2>1. Passed \subseteq Caller /\ Passed # Caller
    BY <1>3 DEF Passed
  <2> QED BY <1>1, <1>2, <2>1, FS_Subset
<1> QED BY <1>1, <1>2, <1>3

LEMMA BoundStep == IInv /\ [Next]_vars => BusyBound'
<1> SUFFICES ASSUME IInv, [Next]_vars PROVE BusyBound'
  OBVIOUS
<1>0. /\ TypeOK /\ Owned /\ Len(busy) \in Nat /\ MaxProc \in Nat
      /\ Len(busy) + Cardinality(Passed) <= MaxProc - 1 + Cardinality(Caller)
  BY BusyType, DatumAssumption DEF IInv, BusyBound, Passed
<1>1. SUFFICES Len(busy') + Cardinality(Passed') <= MaxProc - 1 + Cardinality(Caller)
  BY DEF BusyBound, Passed
<1>2. ASSUME Len(busy') \in Nat, Len(busy') <= Len(busy), Passed' \subseteq Passed
      PROVE  Len(busy') + Cardinality(Passed') <= MaxProc - 1 + Cardinality(Caller)
  <2>1. Cardinality(Passed') <= Cardinality(Passed) /\ Cardinality(Passed') \in Nat
    BY <1>2, PassedType, FS_Subset, FS_CardinalityType
  <2> QED BY <1>0, <1>2, <2>1, PassedType
<1>3. ASSUME NEW d \in Caller, NEW r \in Req, Dispatch(d, r)
      PROVE  Len(busy') + Cardinality(Passed') <= MaxProc - 1 + Cardinality(Caller)
  <2>1. UNCHANGED busy /\ Passed' \subseteq Passed
    BY <1>0, <1>3 DEF Dispatch, Passed, TypeOK, CallType
  <2> QED BY <1>0, <1>2, <2>1
<1>4. ASSUME NEW d \in Caller, CallerStep(d)
      PROVE  Len(busy') + Cardinality(Passed') <= MaxProc - 1 + Cardinality(Caller)
  <2>0. cpc \in [Caller -> {"out", "test", "get", "send", "append", "stuck"}]
    BY <1>0 DEF TypeOK, CallType
  <2>1. CASE TestLimit(d)
    <3>1. CASE Len(busy) < MaxProc
      <4>1. UNCHANGED busy /\ Passed' = Passed \cup {d} /\ d \notin Passed
        BY <2>0, <2>1, <3>1 DEF TestLimit, BelowLimit, Passed
      <4>2. Cardinality(Passed') = Cardinality(Passed) + 1
        BY <4>1, PassedType, FS_AddElement
      <4>3. Cardinality(Passed) < Cardinality(Caller)
        BY <4>1, PassedType
      <4> QED BY <1>0, <3>1, <4>1, <4>2, <4>3, PassedType
    <3>2. CASE ~(Len(busy) < MaxProc)
      <4>1. UNCHANGED busy /\ Passed' \subseteq Passed
        BY <2>0, <2>1, <3>2 DEF TestLimit, BelowLimit, Refuse, Passed
      <4> QED BY <1>0, <1>2, <4>1
    <3> QED BY <3>1, <3>2
  <2>2. CASE AppendBusy(d)
    <3>1. Passed' = Passed \ {d} /\ d \in Passed
      BY <2>0, <2>2 DEF AppendBusy, Passed
    <3>2. Cardinality(Passed') = Cardinality(Passed) - 1
      BY <3>1, PassedType, FS_RemoveElement
    <3>3. Len(busy') = Len(busy) + 1
      BY <1>0, <2>2, AppendFacts
    <3> QED BY <1>0, <3>2, <3>3, PassedType
  <2>3. CASE ~TestLimit(d) /\ ~AppendBusy(d)
    <3>1. /\ UNCHANGED busy /\ cpc[d] \in {"get", "send"}
          /\ cpc' = cpc \/ \E to : cpc' = [cpc EXCEPT ![d] = to]
      BY <1>4, <2>3 DEF CallerStep, GetProc, GetDrop, GetFail, Refuse, Send, SendBroken,
                        callVars
    <3>2. Passed' \subseteq Passed
      BY <2>0, <3>1 DEF Passed
    <3> QED BY <1>0, <1>2, <3>1, <3>2
  <2> QED BY <2>1, <2>2, <2>3
<1>5. CASE TakeBusy
  <2>1. \E c \in Conn : c \in ToSet(busy) /\ busy' \in Seq(Conn) /\ Len(busy') = Len(busy) - 1
    BY <1>0, <1>5, TakeFacts
  <2>2. Len(busy') \in Nat /\ Len(busy') <= Len(busy)
    BY <1>0, <2>1
  <2>3. Passed' = Passed
    BY <1>5 DEF TakeBusy, callVars, Passed
  <2> QED BY <1>2, <2>2, <2>3
<1>6. ASSUME UNCHANGED <<busy, cpc>>
      PROVE  Len(busy') + Cardinality(Passed') <= MaxProc - 1 + Cardinality(Caller)
  BY <1>0, <1>6 DEF Passed
<1>7. CASE ReplyStep /\ ~TakeBusy
  BY <1>6, <1>7 DEF ReplyStep, Poll, NextTurn, ReadReply, ReadEnd, Save, Erase, ReplyExit,
                    callVars
<1>8. CASE Destroy \/ DestroyEnd \/ UNCHANGED vars
  BY <1>6, <1>8 DEF Destroy, DestroyEnd, vars, callVars
<1>9. ASSUME NEW c \in Conn, EnsureIdle(c) \/ WorkerStep(c) \/ WorkerDie(c)
      PROVE  Len(busy') + Cardinality(Passed') <= MaxProc - 1 + Cardinality(Caller)
  BY <1>6, <1>9 DEF EnsureIdle, WorkerStep, WorkerRead, WorkerReply, WorkerEof, WorkerDie,
                    callVars
<1> QED BY <1>3, <1>4, <1>5, <1>7, <1>8, <1>9 DEF Next

-----------------------------------------------------------------------------
(* The theorems.                                                           *)

LEMMA InitInv == Init => IInv
<1> SUFFICES ASSUME Init PROVE IInv
  OBVIOUS
<1>0. TypeOK /\ NoConn \notin Conn
  BY TypeInit, DatumAssumption
<1>1. /\ busy = <<>> /\ ToSet(busy) = {} /\ rpc \in {"none", "loop"} /\ rconn = NoConn /\ pfd = {}
      /\ idle = {} /\ lease = [c \in Conn |-> NoConn]
      /\ \A d \in Caller : cpc[d] = "out"
  BY EmptyList DEF Init, Pool!Init
<1>2. InHand = {} /\ Passed = {} /\ Working = {} /\ Sent = {} /\ Due = {}
  BY <1>1 DEF InHand, Passed, Working, Sent, Due
<1>3. Owned
  <2>1. IsInjective(busy)
    <3>1. DOMAIN busy = {}
      BY <1>1
    <3> QED BY <3>1 DEF IsInjective
  <2>2. Pool!Lent = {}
    BY <1>1 DEF Pool!Lent
  <2> QED BY <1>0, <1>1, <1>2, <2>1, <2>2 DEF Owned
<1>4. Control
  BY <1>1 DEF Init, Control
<1>5. PipeInv /\ AnswerInv
  <2>1. PipeInv
    BY <1>2 DEF Init, PipeInv, Pipe
  <2>2. AnswerInv
    BY <1>1 DEF AnswerInv, Answer, Open
  <2> QED BY <2>1, <2>2
<1>6. CallInv
  BY <1>1, <1>2 DEF Init, CallInv
<1>7. BusyBound
  <2>1. Cardinality(Passed) = 0 /\ Len(busy) = 0
    BY <1>1, <1>2, FS_EmptySet
  <2>2. Cardinality(Caller) \in Nat /\ Cardinality(Caller) # 0
    BY DatumAssumption, FS_EmptySet, FS_CardinalityType
  <2> QED BY <2>1, <2>2, DatumAssumption DEF BusyBound, Passed
<1> QED BY <1>0, <1>3, <1>4, <1>5, <1>6, <1>7 DEF IInv

\* The inductive invariant holds in every state of the dispatcher.
THEOREM Invariance == Spec => []IInv
<1>1. IInv /\ [Next]_vars => IInv'
  <2> SUFFICES ASSUME IInv, [Next]_vars PROVE IInv'
    OBVIOUS
  <2>1. TypeOK'
    BY TypeStep DEF IInv
  <2> QED BY <2>1, OwnedStep, ControlStep, PipeStep, AnswerStep, CallStep, BoundStep
         DEF IInv
<1> QED BY InitInv, <1>1, PTL DEF Spec

\* The variables keep their types, and a thread has a process and a request
\* exactly where dispatch() and checkReply() have one in a variable.
THEOREM TypeCorrect == Spec => []TypeOK
<1>1. IInv => TypeOK
  BY DEF IInv
<1> QED BY Invariance, <1>1, PTL

\* A leased process is with one caller, in the busy list or with the reply
\* thread, and never in two of these places.
THEOREM OwnedSafety == Spec => []Owned
<1>1. IInv => Owned
  BY DEF IInv
<1> QED BY Invariance, <1>1, PTL

\* A reply that onReply() gets is that of the request last sent on its pipe.
THEOREM ReplySafety == Spec => []ReplyMatches
<1>1. IInv => ReplyMatches
  <2> SUFFICES ASSUME IInv PROVE ReplyMatches
    OBVIOUS
  <2>0. TypeOK /\ Owned /\ PipeInv /\ AnswerInv /\ CallInv
    BY DEF IInv
  <2>2. ASSUME NEW c \in Conn PROVE ToSet(outbox[c]) \subseteq {asked[c], Torn}
    <3>1. outbox[c] = <<>> \/ outbox[c] = <<asked[c]>> \/ outbox[c] = <<Torn>>
      BY <2>0 DEF PipeInv, Pipe
    <3>2. ToSet(<<>>) = {} /\ ToSet(<<asked[c]>>) = {asked[c]} /\ ToSet(<<Torn>>) = {Torn}
      BY EmptyList, OneList
    <3> QED BY <3>1, <3>2
  <2>3. ASSUME NEW c \in Conn PROVE Len(inbox[c]) + Len(outbox[c]) <= 1
    <3>1. /\ outbox[c] = <<>> \/ outbox[c] = <<asked[c]>> \/ outbox[c] = <<Torn>>
          /\ inbox[c] = <<>> \/ inbox[c] = <<asked[c]>>
          /\ inbox[c] = <<>> \/ outbox[c] = <<>>
      BY <2>0 DEF PipeInv, Pipe
    <3>2. Len(<<>>) = 0 /\ Len(<<asked[c]>>) = 1 /\ Len(<<Torn>>) = 1
      BY EmptyList, OneList
    <3>3. Len(inbox[c]) \in {0, 1} /\ Len(outbox[c]) \in {0, 1}
      BY <3>1, <3>2, Zenon
    <3>4. Len(inbox[c]) = 0 \/ Len(outbox[c]) = 0
      BY <3>1, <3>2, Zenon
    <3>5. \A a, b \in {0, 1} : a = 0 \/ b = 0 => a + b <= 1
      OBVIOUS
    <3> QED BY <3>3, <3>4, <3>5, Zenon
  <2>4. \A c \in idle : inbox[c] = <<>> /\ outbox[c] = <<>> /\ worker[c] # "work"
    <3> SUFFICES ASSUME NEW c \in idle
                 PROVE  inbox[c] = <<>> /\ outbox[c] = <<>> /\ worker[c] # "work"
      OBVIOUS
    <3>1. c \in Conn /\ c \notin Working
      BY <2>0, InHands
    <3> QED BY <2>0, <3>1 DEF PipeInv, Pipe
  <2>5. \A i \in 1..Len(busy) : outcome[asked[busy[i]]] = "sent"
    <3>1. \A i \in 1..Len(busy) : busy[i] \in Sent
      BY <2>0, BusyType DEF Sent, ToSet
    <3> QED BY <2>0, <3>1 DEF CallInv
  <2>6. ASSUME app = "up", NEW c \in ToSet(busy) PROVE Ready(c) \/ Answering(c)
    <3>1. c \in Conn /\ c \in Working
      BY <2>0, <2>6, BusyType DEF Working
    <3>2. Open(c)
      BY <2>0, <2>6, <3>1, OwnedIsEach, DatumAssumption DEF Open, OwnedEach, Hands
    <3>3. worker[c] # "none" /\ (inbox[c] # <<>> \/ Ready(c))
      BY <2>0, <3>1, <3>2 DEF AnswerInv, Answer
    <3>4. worker[c] \in {"none", "up", "work", "dead"}
      BY <2>0, <3>1 DEF TypeOK, WorkerType
    <3>5. /\ inbox[c] = <<>> \/ inbox[c] = <<asked[c]>>
          /\ worker[c] = "dead" => inbox[c] = <<>>
      BY <2>0, <3>1 DEF PipeInv, Pipe
    <3> QED BY <3>3, <3>4, <3>5 DEF Ready, Answering
  <2> QED BY <2>2, <2>3, <2>4, <2>5, <2>6 DEF ReplyMatches
<1> QED BY Invariance, <1>1, PTL

\* At most one caller less than there are exceeds mMaxProc.
THEOREM BoundSafety == Spec => []BusyBound
<1>1. IInv => BusyBound
  BY DEF IInv
<1> QED BY Invariance, <1>1, PTL

\* The destructor goes on when every request that was sent has come to an end,
\* and deletes a pool that has all its processes.
THEOREM DrainSafety == Spec => []DrainedOnDelete
<1>1. IInv => DrainedOnDelete
  <2> SUFFICES ASSUME IInv, dpc \in {"woken", "done"}
               PROVE  /\ busy = <<>> /\ Pool!Lent = {}
                      /\ \A r \in Req : outcome[r] # "sent"
    BY DEF IInv, Control, DrainedOnDelete
  <2>1. TypeOK /\ Owned /\ Control /\ CallInv
    BY DEF IInv
  <2>2. rpc = "gone" /\ busy = <<>> /\ ToSet(busy) = {} /\ \A d \in Caller : cpc[d] = "out"
    BY <2>1, EmptyList DEF Control
  <2>3. rconn = NoConn /\ InHand = {} /\ Sent = {}
    BY <2>1, <2>2 DEF TypeOK, ReplyType, InHand, Sent
  <2> QED BY <2>1, <2>2, <2>3 DEF Owned, CallInv
<1> QED BY Invariance, <1>1, PTL

\* What dispatch() returned of a request, or the handler was told of it, stays.
LEMMA SettledStep ==
    IInv /\ [Next]_vars =>
       \A r \in Req : outcome[r] \in Settled \cup {"refused"} => outcome'[r] = outcome[r]
<1> SUFFICES ASSUME IInv, [Next]_vars, NEW r \in Req, outcome[r] \in Settled \cup {"refused"}
             PROVE  outcome'[r] = outcome[r]
  OBVIOUS
<1>0. /\ TypeOK /\ CallInv /\ outcome \in [Req -> Outcome]
      /\ outcome[r] \notin {"new", "calling", "sent"}
  BY DEF IInv, TypeOK, CallType, Settled
<1>1. ASSUME NEW q, NEW x, outcome' = [outcome EXCEPT ![q] = x],
             outcome[q] \in {"new", "calling", "sent"}
      PROVE  outcome'[r] = outcome[r]
  BY <1>0, <1>1
<1>2. ASSUME NEW d \in Caller, NEW q \in Req, Dispatch(d, q)
      PROVE  outcome'[r] = outcome[r]
  BY <1>1, <1>2 DEF Dispatch
<1>3. ASSUME NEW d \in Caller, CallerStep(d)
      PROVE  outcome'[r] = outcome[r]
  <2>1. CASE UNCHANGED outcome
    BY <2>1
  <2>2. CASE ~UNCHANGED outcome
    <3>1. /\ cpc[d] # "out"
          /\ \E x \in {"refused", "sent"} : outcome' = [outcome EXCEPT ![creq[d]] = x]
      BY <1>3, <2>2 DEF CallerStep, TestLimit, GetProc, GetDrop, GetFail, Send, SendBroken,
                        AppendBusy, Refuse
    <3> QED BY <1>0, <1>1, <3>1 DEF CallInv
  <2> QED BY <2>1, <2>2
<1>4. CASE ReadReply \/ ReadEnd
  <2>1. rpc = "read" /\ \E x \in Settled : outcome' = [outcome EXCEPT ![asked[rconn]] = x]
    BY <1>4 DEF ReadReply, ReadEnd, Settled
  <2>2. outcome[asked[rconn]] = "sent"
    BY <1>0, <2>1 DEF CallInv, Sent
  <2> QED BY <1>1, <2>1, <2>2
<1>5. CASE ReplyStep /\ ~ReadReply /\ ~ReadEnd
  BY <1>5 DEF ReplyStep, Poll, TakeBusy, NextTurn, Save, Erase, ReplyExit
<1>6. CASE Destroy \/ DestroyEnd \/ UNCHANGED vars
  BY <1>6 DEF Destroy, DestroyEnd, vars
<1>7. ASSUME NEW c \in Conn, EnsureIdle(c) \/ WorkerStep(c) \/ WorkerDie(c)
      PROVE  outcome'[r] = outcome[r]
  BY <1>7 DEF EnsureIdle, WorkerStep, WorkerRead, WorkerReply, WorkerEof, WorkerDie
<1> QED BY <1>2, <1>3, <1>4, <1>5, <1>6, <1>7 DEF Next

\* A request has one end, and nothing that comes late changes it.
THEOREM SettledForGood == Spec => SettledOnce
<1>1. IInv /\ [Next]_vars =>
         [\A r \in Req : outcome[r] \in Settled \cup {"refused"} => outcome'[r] = outcome[r]]_vars
  BY SettledStep
<1> QED BY Invariance, <1>1, PTL DEF Spec, SettledOnce

=============================================================================
