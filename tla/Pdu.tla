--------------------------------- MODULE Pdu ---------------------------------
(***************************************************************************)
(* SP_ProcPduUtils::send_pdu() and read_pdu() at the two ends of a stream  *)
(* socket that takes and gives as many bytes at a time as it likes.        *)
(*                                                                         *)
(* A byte is <<i, part, o>>: the o-th of the header or of the data of the   *)
(* i-th PDU, and one before the first when ptr has moved there.  Numbers   *)
(* of bytes have the type size_t, which has SizeValues values.              *)
(***************************************************************************)
EXTENDS Integers, Sequences

CONSTANTS
    HeadSize,     \* sizeof( SP_ProcPdu_t )
    DataSize,     \* mDataSize of each PDU that is sent
    Room,         \* bytes the socket holds
    SizeValues,   \* 2^w for a size_t, and an int, of w bits
    IntrBound     \* calls that a signal interrupts

ASSUME PduAssumption ==
    /\ {HeadSize, Room, SizeValues} \subseteq Nat \ {0} /\ IntrBound \in Nat
    /\ DataSize \in Seq(Nat)
    /\ HeadSize < SizeValues \div 2
    /\ \A i \in DOMAIN DataSize : HeadSize + DataSize[i] < SizeValues \div 2

VARIABLES
    wpdu,       \* the PDU the writer sends
    wpart,      \* which part of it: "head" or "data"
    wleft, wptr,   \* nleft of writen(), and ptr from the part's start
    closed,     \* the writer has closed the socket
    stream,     \* bytes in the socket
    rpart,      \* what the reader reads; "out" between two calls, "gone" at last
    rleft, rptr,   \* nleft and ptr of readn()
    rsize,      \* mDataSize of the header that was read
    buf,        \* what is stored at <<part, ptr>>
    results,    \* what read_pdu() returned and whether the PDU is whole
    intrs       \* calls that were interrupted

writerVars == <<wpdu, wpart, wleft, wptr, closed>>
readerVars == <<rpart, rleft, rptr, rsize, buf, results>>
vars == <<writerVars, stream, readerVars, intrs>>

Part == {"head", "data"}

Init ==
    /\ wpdu = 1 /\ wpart = "head" /\ wleft = HeadSize /\ wptr = 0
    /\ closed = FALSE
    /\ stream = <<>>
    /\ rpart = "out" /\ rleft = 0 /\ rptr = 0 /\ rsize = 0 /\ buf = <<>>
    /\ results = <<>>
    /\ intrs = 0

Unsigned(n) == n % SizeValues
Signed(n)   == IF Unsigned(n) < SizeValues \div 2 THEN Unsigned(n) ELSE Unsigned(n) - SizeValues

Interrupted == intrs < IntrBound /\ intrs' = intrs + 1

-----------------------------------------------------------------------------
(* send_pdu()                                                              *)

Sending == ~closed /\ wpdu <= Len(DataSize)

\* Mutant of Write: ptr is not moved behind a part that was written.
WriteAgain(k) ==
    /\ Sending /\ k <= wleft /\ k <= Room - Len(stream)
    /\ stream' = stream \o [j \in 1..k |-> <<wpdu, wpart, wptr + j - 1>>]
    /\ wleft' = wleft - k
    /\ UNCHANGED <<wptr, wpdu, wpart, closed, readerVars, intrs>>

\* write() takes k bytes.
Write(k) ==
    /\ Sending /\ k <= wleft /\ k <= Room - Len(stream)
    /\ stream' = stream \o [j \in 1..k |-> <<wpdu, wpart, wptr + j - 1>>]
    /\ wleft' = wleft - k
    /\ wptr' = wptr + k
    /\ UNCHANGED <<wpdu, wpart, closed, readerVars, intrs>>

\* write() returns -1, which is no error to an unsigned variable: one byte more
\* is left, from one byte before.
WriteIntr ==
    /\ Sending /\ wleft > 0
    /\ Interrupted
    /\ wleft' = Unsigned(wleft + 1)
    /\ wptr' = wptr - 1
    /\ UNCHANGED <<wpdu, wpart, closed, stream, readerVars>>

\* writen() returns: the data follow the header, the next PDU the last.
Written ==
    /\ Sending /\ wleft = 0
    /\ \/ /\ wpart = "head" /\ DataSize[wpdu] > 0
          /\ wpart' = "data" /\ wleft' = DataSize[wpdu] /\ wptr' = 0
          /\ UNCHANGED wpdu
       \/ /\ wpart = "data" \/ DataSize[wpdu] = 0
          /\ wpart' = "head" /\ wleft' = HeadSize /\ wptr' = 0
          /\ wpdu' = wpdu + 1
    /\ UNCHANGED <<closed, stream, readerVars, intrs>>

\* The writer ends after its last PDU, or before.
Close ==
    /\ ~closed /\ closed' = TRUE
    /\ UNCHANGED <<wpdu, wpart, wleft, wptr, stream, readerVars, intrs>>

-----------------------------------------------------------------------------
(* read_pdu()                                                              *)

ReadPdu ==
    /\ rpart = "out"
    /\ rpart' = "head" /\ rleft' = HeadSize /\ rptr' = 0 /\ buf' = <<>>
    /\ UNCHANGED <<writerVars, stream, rsize, results, intrs>>

\* read() gives k bytes.
Read(k) ==
    /\ rpart \in Part /\ k <= rleft /\ k <= Len(stream)
    /\ LET new == {<<rpart, rptr + j - 1>> : j \in 1..k}
       IN  buf' = [x \in new \cup DOMAIN buf |->
                     IF x \in new THEN stream[x[2] - rptr + 1] ELSE buf[x]]
    /\ stream' = SubSeq(stream, k + 1, Len(stream))
    /\ rleft' = rleft - k
    /\ rptr' = rptr + k
    /\ UNCHANGED <<writerVars, rpart, rsize, results, intrs>>

\* read() returns -1: as in WriteIntr.
ReadIntr ==
    /\ rpart \in Part /\ rleft > 0
    /\ Interrupted
    /\ rleft' = Unsigned(rleft + 1)
    /\ rptr' = rptr - 1
    /\ UNCHANGED <<writerVars, stream, rpart, rsize, buf, results>>

Stored(part, o) == <<part, o>> \in DOMAIN buf

InPlace(i, part, o) == Stored(part, o) /\ buf[<<part, o>>] = <<i, part, o>>

\* The PDU whose header is in buf; mMagicNum, its first bytes, is all that is
\* looked at.
Magic  == {i \in 1..Len(DataSize) : InPlace(i, "head", 0)}
HeadOf == {i \in Magic : \A o \in 0..(HeadSize - 1) : InPlace(i, "head", o)}

\* What mDataSize is: anything when its bytes have moved.
\* Bound: at most what keeps a number of bytes in an int.
SizeRead == IF HeadOf # {} THEN {DataSize[i] : i \in HeadOf}
                           ELSE 0..(SizeValues \div 2 - 1 - HeadSize)

Whole(i) == \A o \in 0..(DataSize[i] - 1) : InPlace(i, "data", o)

\* A caller that got a positive number reads again.
Return(n) ==
    /\ results' = Append(results,
                         [ret |-> n, whole |-> \E i \in HeadOf : Whole(i), pdu |-> HeadOf])
    /\ rpart' = IF n > 0 THEN "out" ELSE "gone"
    /\ UNCHANGED <<rleft, rptr, rsize, buf>>

\* Mutant of AtEnd: the end of file is waited for the missing bytes.
AtEndOfCount == rleft = 0

\* The loop of readn() ends with all bytes or at the end of the file.
AtEnd == rleft = 0 \/ (closed /\ stream = <<>>)

\* The header is there: its data follow, if it has any.
HeadRead ==
    /\ rpart = "head" /\ AtEnd
    /\ LET n == Signed(HeadSize - rleft) IN
         IF n = HeadSize /\ Magic # {}
           THEN \E size \in SizeRead :
                  IF size > 0
                    THEN /\ rpart' = "data" /\ rleft' = size /\ rptr' = 0 /\ rsize' = size
                         /\ UNCHANGED <<buf, results>>
                    ELSE Return(n)
           ELSE Return(n)
    /\ UNCHANGED <<writerVars, stream, intrs>>

DataRead ==
    /\ rpart = "data" /\ AtEnd
    /\ LET n == Signed(rsize - rleft)
       IN  Return(IF n = rsize THEN HeadSize + rsize ELSE n)
    /\ UNCHANGED <<writerVars, stream, intrs>>

-----------------------------------------------------------------------------
WriterStep == (\E k \in 1..Room : Write(k)) \/ Written \/ (~Sending /\ Close)

ReaderStep == ReadPdu \/ (\E k \in 1..Room : Read(k)) \/ HeadRead \/ DataRead

Next == WriterStep \/ ReaderStep \/ WriteIntr \/ ReadIntr \/ Close

Spec == Init /\ [][Next]_vars

\* Both processes are scheduled; a socket with bytes gives some, one with room
\* takes some.
FairSpec == Spec /\ WF_vars(WriterStep) /\ WF_vars(ReaderStep)

-----------------------------------------------------------------------------
(* Properties.                                                             *)

\* However the bytes are cut, and whatever calls signals interrupt, the PDUs that
\* read_pdu() hands over whole are some of those that were sent, each once and
\* in order.  While no call is interrupted none is missing before the end of the
\* file.  There, when the writer closed in the middle of a PDU, one result is no
\* PDU: what its number is worth is what PositiveWhole asks.
Framed ==
    /\ \A i, j \in DOMAIN results :
         i < j /\ results[i].whole /\ results[j].whole =>
            \A p \in results[i].pdu, q \in results[j].pdu : p < q
    /\ intrs = 0 =>
         \A i \in DOMAIN results :
            \/ results[i].whole /\ results[i].pdu = {i} /\ results[i].ret = HeadSize + DataSize[i]
            \/ closed /\ \A j \in DOMAIN results : j > i => results[j].ret = 0

\* "> 0 : OK, 0 : connect reset by peer, -1 : error", spprocpdu.hpp:56: who gets a
\* positive number has a whole PDU.  All callers of read_pdu() test just that.
PositiveWhole == \A i \in DOMAIN results : results[i].ret > 0 => results[i].whole

\* read_pdu() returns, also when the writer is gone or signals interrupt it.
Returns == rpart \in Part ~> rpart \notin Part

=============================================================================
