------------------------------ MODULE PduProofs -----------------------------
(***************************************************************************)
(* Theorems about Pdu: what read_pdu() hands over is what send_pdu() sent. *)
(***************************************************************************)
EXTENDS Pdu, SequenceTheorems, WellFoundedInduction, TLAPS

-----------------------------------------------------------------------------
(* The inductive invariant.                                                *)

Index == 1..Len(DataSize)
Byte  == Index \X Part \X Int

Result == [ret : Int, whole : BOOLEAN, pdu : SUBSET Index]

WriterType ==
    /\ wpdu \in 1..(Len(DataSize) + 1) /\ wpart \in Part
    /\ wleft \in 0..(SizeValues - 1) /\ wptr \in Int
    /\ wpart = "data" => wpdu \in Index /\ DataSize[wpdu] > 0
    /\ closed \in BOOLEAN
    /\ stream \in Seq(Byte)
    /\ intrs \in Nat

ReaderType ==
    /\ rpart \in Part \cup {"out", "gone"}
    /\ rleft \in Nat /\ rptr \in Int /\ rsize \in Nat
    /\ DOMAIN buf \subseteq Part \X Int
    /\ \A x \in DOMAIN buf : buf[x] \in Byte
    /\ results \in Seq(Result)

DataType == WriterType /\ ReaderType

\* The last byte of a header, which is written once: ptr never moves back from
\* the end of a part.
LastHead(i) == <<i, "head", HeadSize - 1>>

Past(i) == wpdu > i \/ (wpdu = i /\ (wpart = "data" \/ wleft = 0))

WriterAt == wpart = "head" => wleft = 0 \/ wleft + wptr = HeadSize

\* Byte c may come behind byte b.
Follows(b, c) == b[1] <= c[1] /\ (b = LastHead(b[1]) => c # b)

Sent(b) == b[1] <= wpdu /\ (b = LastHead(b[1]) => Past(b[1]))

\* What is in the socket, before it what the reader has stored, and before
\* that the headers of its results, is in the order of the PDUs.
StreamOrder ==
    /\ \A k \in 1..Len(stream) : Sent(stream[k])
    /\ \A k, l \in 1..Len(stream) : k < l => Follows(stream[k], stream[l])

BufOrder ==
    rpart \in Part =>
       \A x \in DOMAIN buf :
          /\ Sent(buf[x])
          /\ \A k \in 1..Len(stream) : Follows(buf[x], stream[k])

Handed(i) == \E n \in 1..Len(results) : i \in results[n].pdu

ResultOrder ==
    /\ \A i \in Index : Handed(i) =>
          /\ Past(i)
          /\ \A k \in 1..Len(stream) : Follows(LastHead(i), stream[k])
          /\ rpart \in Part => \A x \in DOMAIN buf : Follows(LastHead(i), buf[x])
    /\ \A m, n \in 1..Len(results) :
          m < n => \A i \in results[m].pdu, j \in results[n].pdu : i < j

Order == WriterAt /\ StreamOrder /\ BufOrder /\ ResultOrder

\* Without interrupted calls the bytes are one run from the reader's place to
\* the writer's.
Size(i, part) == IF part = "head" THEN HeadSize ELSE DataSize[i]

\* The byte at place o of a part, or the one behind the part.
At(i, part, o) ==
    IF o < Size(i, part) THEN <<i, part, o>>
    ELSE IF part = "head" /\ DataSize[i] > 0 THEN <<i, "data", 0>>
    ELSE <<i + 1, "head", 0>>

Succ(b) == At(b[1], b[2], b[3] + 1)

Turn == Len(results) + 1

WPos == At(wpdu, wpart, wptr)
RPos == IF rpart \in Part THEN At(Turn, rpart, rptr) ELSE <<Turn, "head", 0>>

Run ==
    /\ \A k \in 1..(Len(stream) - 1) : stream[k + 1] = Succ(stream[k])
    /\ IF stream = <<>> THEN WPos = RPos
       ELSE stream[1] = RPos /\ Succ(stream[Len(stream)]) = WPos

\* Result n is PDU n as it was sent.
Good(n) ==
    /\ results[n].whole /\ results[n].pdu = {n}
    /\ results[n].ret = HeadSize + DataSize[n]

\* The reader is in the PDU of its turn and has stored what is before rptr.
Stores(part, n) == \A o \in 0..(n - 1) : InPlace(Turn, part, o)

InStep ==
    /\ rpart # "gone"
    /\ \A n \in 1..Len(results) : Good(n)
    /\ Run
    /\ rpart = "head" => rptr \in Nat /\ rleft + rptr = HeadSize
    /\ rpart = "data" =>
          /\ Turn \in Index /\ rsize = DataSize[Turn] /\ rsize > 0
          /\ rptr \in Nat /\ rleft + rptr = rsize
          /\ Stores("head", HeadSize)
    /\ rpart \in Part => Stores(rpart, rptr)

\* The reader has met the end of the file.
Over ==
    /\ closed /\ stream = <<>>
    /\ rpart # "data" /\ (rpart = "head" => rleft = HeadSize)
    /\ \A n \in 1..Len(results) :
          Good(n) \/ \A m \in 1..Len(results) : m > n => results[m].ret = 0

Undisturbed ==
    intrs = 0 => wptr \in Nat /\ wleft + wptr = Size(wpdu, wpart) /\ (InStep \/ Over)

IInv == DataType /\ Order /\ Undisturbed

-----------------------------------------------------------------------------
(* Numbers and sequences.                                                  *)

LEMMA Sizes ==
    /\ HeadSize \in Nat /\ HeadSize >= 1 /\ SizeValues \in Nat /\ SizeValues >= 1
    /\ HeadSize < SizeValues \div 2 /\ SizeValues \div 2 \in Nat
    /\ SizeValues \div 2 < SizeValues
    /\ DataSize \in Seq(Nat) /\ Len(DataSize) \in Nat /\ DOMAIN DataSize = Index
    /\ \A i \in Index : DataSize[i] \in Nat /\ HeadSize + DataSize[i] < SizeValues \div 2
<1>1. /\ HeadSize \in Nat /\ HeadSize >= 1 /\ SizeValues \in Nat /\ SizeValues >= 1
      /\ HeadSize < SizeValues \div 2 /\ DataSize \in Seq(Nat)
      /\ \A i \in DOMAIN DataSize : HeadSize + DataSize[i] < SizeValues \div 2
  BY PduAssumption
<1>2. SizeValues \div 2 \in Nat /\ SizeValues \div 2 < SizeValues
  BY <1>1
<1>3. Len(DataSize) \in Nat /\ DOMAIN DataSize = Index
  BY <1>1 DEF Index
<1>4. \A i \in Index : DataSize[i] \in Nat
  BY <1>1, <1>3
<1> QED BY <1>1, <1>2, <1>3, <1>4

LEMMA SmallMod == ASSUME NEW m \in Nat, NEW n \in Nat, n < m PROVE n % m = n
OBVIOUS

\* What adding one to a size_t gives, and what an int makes of a number of
\* bytes.
LEMMA Wraps ==
    ASSUME NEW n \in 0..(SizeValues - 1)
    PROVE  /\ Unsigned(n + 1) \in 0..(SizeValues - 1)
           /\ Unsigned(n + 1) = n + 1 \/ Unsigned(n + 1) = 0
<1>1. SizeValues \in Nat /\ n + 1 \in Nat /\ n \in Nat /\ n <= SizeValues - 1
  BY Sizes
<1>2. CASE n + 1 = SizeValues
  <2>1. SizeValues % SizeValues = 0
    BY Sizes
  <2>2. Unsigned(n + 1) = 0
    BY <1>2, <2>1 DEF Unsigned
  <2> QED BY <1>1, <2>2
<1>3. CASE n + 1 < SizeValues
  <2>1. Unsigned(n + 1) = n + 1
    BY <1>1, <1>3, SmallMod DEF Unsigned
  <2> QED BY <1>1, <1>3, <2>1
<1> QED BY <1>1, <1>2, <1>3

LEMMA Fits ==
    ASSUME NEW n \in Nat, n < SizeValues \div 2
    PROVE  Signed(n) = n
<1>1. n < SizeValues /\ SizeValues \in Nat
  BY Sizes
<1>2. Unsigned(n) = n
  BY <1>1, SmallMod DEF Unsigned
<1> QED BY <1>2 DEF Signed

LEMMA UnsignedNat == ASSUME NEW n \in Int PROVE Unsigned(n) \in Nat
BY Sizes DEF Unsigned

LEMMA SignedInt == ASSUME NEW n \in Int PROVE Signed(n) \in Int
BY UnsignedNat, Sizes DEF Signed

\* Every set of numbers has a least one.
LEMMA Least ==
    ASSUME NEW T, T \subseteq Nat, T # {}
    PROVE  \E m \in T : \A n \in T : m <= n
<1>1. PICK m \in T : \A n \in T : ~ (<<n, m>> \in OpToRel(<, Nat))
  BY WFMin, NatLessThanWellFounded, Zenon
<1>2. ASSUME NEW n \in T PROVE m <= n
  <2>1. n \in Nat /\ m \in Nat
    OBVIOUS
  <2>2. ~ (n < m)
    BY <1>1, <2>1 DEF OpToRel
  <2> QED BY <2>1, <2>2
<1> QED BY <1>2

LEMMA JoinSeq ==
    ASSUME NEW S, NEW s \in Seq(S), NEW k \in Nat, NEW f \in [1..k -> S]
    PROVE  /\ s \o f \in Seq(S) /\ Len(s \o f) = Len(s) + k
           /\ \A l \in 1..Len(s) : (s \o f)[l] = s[l]
           /\ \A j \in 1..k : (s \o f)[Len(s) + j] = f[j]
<1>1. f \in Seq(S) /\ Len(f) = k
  OBVIOUS
<1>2. /\ s \o f \in Seq(S) /\ Len(s \o f) = Len(s) + k
      /\ \A l \in 1..(Len(s) + k) :
            (s \o f)[l] = IF l <= Len(s) THEN s[l] ELSE f[l - Len(s)]
  BY <1>1, ConcatProperties
<1>3. ASSUME NEW j \in 1..k PROVE (s \o f)[Len(s) + j] = f[j]
  <2>1. Len(s) + j \in 1..(Len(s) + k) /\ ~(Len(s) + j <= Len(s)) /\ Len(s) + j - Len(s) = j
    OBVIOUS
  <2> QED BY <1>2, <2>1
<1> QED BY <1>2, <1>3

LEMMA DropSeq ==
    ASSUME NEW S, NEW s \in Seq(S), NEW k \in 1..Len(s)
    PROVE  LET r == SubSeq(s, k + 1, Len(s))
           IN  /\ r \in Seq(S) /\ Len(r) = Len(s) - k
               /\ \A l \in 1..Len(r) : r[l] = s[l + k]
<1> DEFINE r == SubSeq(s, k + 1, Len(s))
<1>1. \A l \in (k + 1)..Len(s) : s[l] \in S
  OBVIOUS
<1>2. /\ r \in Seq(S)
      /\ Len(r) = IF k + 1 <= Len(s) THEN Len(s) - (k + 1) + 1 ELSE 0
      /\ \A l \in 1..(Len(s) - (k + 1) + 1) : r[l] = s[(k + 1) + l - 1]
  BY <1>1, SubSeqProperties
<1>3. Len(r) = Len(s) - k
  BY <1>2
<1> HIDE DEF r
<1>4. \A l \in 1..(Len(s) - k) : l \in 1..(Len(s) - (k + 1) + 1) /\ (k + 1) + l - 1 = l + k
  OBVIOUS
<1> QED BY <1>2, <1>3, <1>4 DEF r

-----------------------------------------------------------------------------
(* What the steps do to the stream and to what is stored.                  *)

LEMMA WriteStream ==
    ASSUME DataType, NEW k \in 1..Room, Write(k)
    PROVE  /\ wpdu \in Index /\ ~closed
           /\ stream' \in Seq(Byte) /\ Len(stream') = Len(stream) + k
           /\ \A l \in 1..Len(stream) : stream'[l] = stream[l]
           /\ \A j \in 1..k : stream'[Len(stream) + j] = <<wpdu, wpart, wptr + j - 1>>
<1> DEFINE f == [j \in 1..k |-> <<wpdu, wpart, wptr + j - 1>>]
<1>1. wpdu \in Index /\ ~closed
  BY Sizes DEF DataType, WriterType, Write, Sending, Index
<1>2. k \in Nat /\ f \in [1..k -> Byte]
  BY <1>1, Sizes, PduAssumption DEF DataType, WriterType, Byte
<1>3. stream \in Seq(Byte) /\ stream' = stream \o f
  BY DEF DataType, WriterType, Write
<1>4. \A j \in 1..k : f[j] = <<wpdu, wpart, wptr + j - 1>>
  OBVIOUS
<1> HIDE DEF f
<1> QED BY <1>1, <1>2, <1>3, <1>4, JoinSeq

LEMMA ReadStream ==
    ASSUME DataType, NEW k \in 1..Room, Read(k)
    PROVE  /\ k \in 1..Len(stream)
           /\ stream' \in Seq(Byte) /\ Len(stream') = Len(stream) - k
           /\ \A l \in 1..Len(stream') : stream'[l] = stream[l + k] /\ l + k \in 1..Len(stream)
<1>1. stream \in Seq(Byte) /\ k \in 1..Len(stream)
  BY PduAssumption DEF DataType, WriterType, Read
<1>2. stream' = SubSeq(stream, k + 1, Len(stream))
  BY DEF Read
<1>3. /\ stream' \in Seq(Byte) /\ Len(stream') = Len(stream) - k
      /\ \A l \in 1..Len(stream') : stream'[l] = stream[l + k]
  BY <1>1, <1>2, DropSeq
<1> QED BY <1>1, <1>3

LEMMA ReadBuf ==
    ASSUME DataType, NEW k \in 1..Room, Read(k)
    PROVE  /\ DOMAIN buf \subseteq DOMAIN buf'
           /\ \A j \in 1..k :
                 /\ <<rpart, rptr + j - 1>> \in DOMAIN buf'
                 /\ buf'[<<rpart, rptr + j - 1>>] = stream[j]
           /\ \A x \in DOMAIN buf' :
                 \/ \E j \in 1..k : x = <<rpart, rptr + j - 1>>
                 \/ x \in DOMAIN buf /\ buf'[x] = buf[x]
<1> DEFINE X == {<<rpart, rptr + j - 1>> : j \in 1..k}
<1>1. buf' = [x \in X \cup DOMAIN buf |->
                 IF x \in X THEN stream[x[2] - rptr + 1] ELSE buf[x]]
  BY DEF Read
<1>2. rptr \in Int /\ k \in Nat
  BY PduAssumption DEF DataType, ReaderType
<1>3. ASSUME NEW j \in 1..k
      PROVE  /\ <<rpart, rptr + j - 1>> \in DOMAIN buf'
             /\ buf'[<<rpart, rptr + j - 1>>] = stream[j]
  <2>1. <<rpart, rptr + j - 1>> \in X
    OBVIOUS
  <2>2. <<rpart, rptr + j - 1>>[2] - rptr + 1 = j
    BY <1>2
  <2> QED BY <1>1, <2>1, <2>2
<1> QED BY <1>1, <1>3

-----------------------------------------------------------------------------
(* Types.                                                                  *)

LEMMA StreamByte ==
    ASSUME DataType, NEW k \in 1..Len(stream)
    PROVE  /\ stream[k] \in Byte
           /\ stream[k][1] \in Index /\ stream[k][2] \in Part /\ stream[k][3] \in Int
           /\ stream[k] = <<stream[k][1], stream[k][2], stream[k][3]>>
<1>1. stream[k] \in Byte
  BY DEF DataType, WriterType
<1> QED BY <1>1 DEF Byte

LEMMA HeadIndex == DataType => HeadOf \subseteq Index /\ Magic \subseteq Index
BY DEF HeadOf, Magic, Index

LEMMA ReturnType ==
    ASSUME DataType, NEW n \in Int, Return(n)
    PROVE  /\ results' \in Seq(Result) /\ Len(results') = Len(results) + 1
           /\ \A m \in 1..Len(results) : results'[m] = results[m]
           /\ results'[Len(results) + 1].ret = n
           /\ results'[Len(results) + 1].whole = (\E i \in HeadOf : Whole(i))
           /\ results'[Len(results) + 1].pdu = HeadOf
           /\ rpart' = (IF n > 0 THEN "out" ELSE "gone")
           /\ rleft' = rleft /\ rptr' = rptr /\ rsize' = rsize /\ buf' = buf
<1> DEFINE r == [ret |-> n, whole |-> \E i \in HeadOf : Whole(i), pdu |-> HeadOf]
<1>0. r.ret = n /\ r.whole = (\E i \in HeadOf : Whole(i)) /\ r.pdu = HeadOf
  OBVIOUS
<1>1. r \in Result
  BY HeadIndex DEF Result
<1>2. results \in Seq(Result) /\ results' = Append(results, r)
  BY DEF Return, DataType, ReaderType
<1>3. /\ rpart' = (IF n > 0 THEN "out" ELSE "gone")
      /\ rleft' = rleft /\ rptr' = rptr /\ rsize' = rsize /\ buf' = buf
  BY DEF Return
<1> HIDE DEF r
<1>4. /\ results' \in Seq(Result) /\ Len(results') = Len(results) + 1
      /\ \A m \in 1..Len(results) : results'[m] = results[m]
      /\ results'[Len(results) + 1] = r
  BY <1>1, <1>2
<1> QED BY <1>0, <1>3, <1>4

\* How a header or data are done with.
LEMMA HeadCases ==
    ASSUME DataType, HeadRead
    PROVE  /\ rpart = "head" /\ AtEnd
           /\ UNCHANGED <<writerVars, stream, intrs>>
           /\ \/ /\ Signed(HeadSize - rleft) = HeadSize /\ Magic # {}
                 /\ \E size \in SizeRead :
                       /\ size \in Nat /\ size > 0
                       /\ rpart' = "data" /\ rleft' = size /\ rptr' = 0 /\ rsize' = size
                       /\ buf' = buf /\ results' = results
              \/ /\ Signed(HeadSize - rleft) = HeadSize /\ Magic # {}
                 /\ 0 \in SizeRead
                 /\ Return(HeadSize)
              \/ /\ Signed(HeadSize - rleft) # HeadSize \/ Magic = {}
                 /\ Return(Signed(HeadSize - rleft))
<1>1. SizeRead \subseteq Nat
  <2>1. HeadOf # {} => SizeRead \subseteq Nat
    BY HeadIndex, Sizes DEF SizeRead
  <2> QED BY <2>1, Sizes DEF SizeRead
<1>2. \A size \in SizeRead : size = 0 \/ size > 0
  BY <1>1
<1> QED BY <1>1, <1>2 DEF HeadRead

LEMMA DataCases ==
    ASSUME DataType, DataRead
    PROVE  /\ rpart = "data" /\ AtEnd
           /\ UNCHANGED <<writerVars, stream, intrs>>
           /\ \/ Signed(rsize - rleft) = rsize /\ Return(HeadSize + rsize)
              \/ Signed(rsize - rleft) # rsize /\ Return(Signed(rsize - rleft))
BY DEF DataRead

LEMMA InitType == Init => DataType
<1> SUFFICES ASSUME Init PROVE DataType
  OBVIOUS
<1>1. WriterType
  <2>1. /\ 1 \in 1..(Len(DataSize) + 1) /\ HeadSize \in 0..(SizeValues - 1)
        /\ <<>> \in Seq(Byte)
    BY Sizes
  <2>2. /\ wpdu = 1 /\ wpart = "head" /\ wleft = HeadSize /\ wptr = 0
        /\ stream = <<>> /\ intrs = 0
    BY DEF Init
  <2>3. closed \in BOOLEAN
    BY DEF Init
  <2> QED BY <2>1, <2>2, <2>3 DEF WriterType, Part
<1>2. ReaderType
  BY DEF Init, ReaderType, Part
<1> QED BY <1>1, <1>2 DEF DataType

LEMMA TypeStep == DataType /\ [Next]_vars => DataType'
<1> SUFFICES ASSUME DataType, [Next]_vars PROVE DataType'
  OBVIOUS
<1> USE DEF DataType
<1>1. ASSUME UNCHANGED readerVars PROVE ReaderType'
  BY <1>1 DEF ReaderType, readerVars
<1>2. ASSUME UNCHANGED writerVars, stream' \in Seq(Byte), intrs' \in Nat PROVE WriterType'
  BY <1>2 DEF WriterType, writerVars
<1>3. ASSUME NEW n \in Int, Return(n) PROVE ReaderType'
  BY <1>3, ReturnType DEF ReaderType
<1>4. stream \in Seq(Byte) /\ intrs \in Nat
  BY DEF WriterType
<1>5. ASSUME NEW k \in 1..Room, Write(k) PROVE DataType'
  <2>1. /\ k \in Nat /\ k <= wleft /\ wleft' = wleft - k /\ wptr' = wptr + k
        /\ UNCHANGED <<wpdu, wpart, closed, readerVars, intrs>>
    BY <1>5, PduAssumption DEF Write
  <2>2. stream' \in Seq(Byte)
    BY <1>5, WriteStream
  <2> QED BY <1>1, <2>1, <2>2, Sizes DEF WriterType
<1>6. CASE WriteIntr
  <2>1. wleft' = Unsigned(wleft + 1) /\ wptr' = wptr - 1 /\ intrs' = intrs + 1
    BY <1>6 DEF WriteIntr, Interrupted
  <2>2. UNCHANGED <<wpdu, wpart, closed, stream, readerVars>>
    BY <1>6 DEF WriteIntr
  <2>3. Unsigned(wleft + 1) \in 0..(SizeValues - 1)
    BY Wraps DEF WriterType
  <2> QED BY <1>1, <2>1, <2>2, <2>3 DEF WriterType
<1>7. CASE Written
  <2>1. wpdu \in Index /\ DataSize[wpdu] \in Nat /\ DataSize[wpdu] < SizeValues
        /\ DataSize[wpdu] \in 0..(SizeValues - 1)
    <3>1. wpdu \in Index
      BY <1>7, Sizes DEF Written, Sending, WriterType, Index
    <3> QED BY <3>1, Sizes
  <2>2. UNCHANGED <<closed, stream, readerVars, intrs>>
    BY <1>7 DEF Written
  <2>3. CASE DataSize[wpdu] > 0 /\ wpart' = "data" /\ wleft' = DataSize[wpdu] /\ wptr' = 0
             /\ wpdu' = wpdu
    BY <1>1, <2>1, <2>2, <2>3 DEF WriterType, Part
  <2>4. CASE wpart' = "head" /\ wleft' = HeadSize /\ wptr' = 0 /\ wpdu' = wpdu + 1
    BY <1>1, <2>1, <2>2, <2>4, Sizes DEF WriterType, Part, Index
  <2> QED BY <1>7, <2>3, <2>4 DEF Written
<1>8. CASE Close
  BY <1>1, <1>8 DEF Close, WriterType
<1>9. CASE ReadPdu
  <2>1. ReaderType'
    BY <1>9, Sizes DEF ReadPdu, ReaderType, Part
  <2> QED BY <1>2, <1>4, <1>9, <2>1 DEF ReadPdu
<1>10. ASSUME NEW k \in 1..Room, Read(k) PROVE DataType'
  <2>1. k \in 1..Len(stream) /\ stream' \in Seq(Byte)
    BY <1>10, ReadStream
  <2>2. /\ k \in Nat /\ k <= rleft /\ rleft' = rleft - k /\ rptr' = rptr + k
        /\ rpart \in Part /\ UNCHANGED <<writerVars, rpart, rsize, results, intrs>>
    BY <1>10, PduAssumption DEF Read
  <2>3. ASSUME NEW x \in DOMAIN buf' PROVE x \in Part \X Int /\ buf'[x] \in Byte
    <3>1. CASE x \in DOMAIN buf /\ buf'[x] = buf[x]
      BY <3>1 DEF ReaderType
    <3>2. ASSUME NEW j \in 1..k, x = <<rpart, rptr + j - 1>> PROVE x \in Part \X Int /\ buf'[x] \in Byte
      <4>1. x \in Part \X Int
        BY <2>2, <3>2 DEF ReaderType
      <4>2. buf'[x] = stream[j] /\ j \in 1..Len(stream)
        BY <1>10, <2>1, <3>2, ReadBuf
      <4> QED BY <4>1, <4>2, StreamByte
    <3> QED BY <1>10, <3>1, <3>2, ReadBuf
  <2>4. ReaderType'
    BY <2>2, <2>3 DEF ReaderType
  <2> QED BY <1>2, <1>4, <2>1, <2>2, <2>4
<1>11. CASE ReadIntr
  <2>1. rleft' = Unsigned(rleft + 1) /\ rptr' = rptr - 1 /\ intrs' = intrs + 1
    BY <1>11 DEF ReadIntr, Interrupted
  <2>2. UNCHANGED <<writerVars, stream, rpart, rsize, buf, results>>
    BY <1>11 DEF ReadIntr
  <2>3. ReaderType'
    BY <2>1, <2>2, UnsignedNat DEF ReaderType
  <2> QED BY <1>2, <1>4, <2>1, <2>2, <2>3
<1>12. CASE HeadRead
  <2>1. ReaderType'
    <3>1. HeadSize \in Int /\ Signed(HeadSize - rleft) \in Int
      BY Sizes, SignedInt DEF ReaderType
    <3>2. CASE Return(HeadSize) \/ Return(Signed(HeadSize - rleft))
      BY <1>3, <3>1, <3>2
    <3>3. ASSUME NEW size \in Nat, rpart' = "data", rleft' = size, rptr' = 0, rsize' = size,
                 buf' = buf, results' = results
          PROVE ReaderType'
      BY <3>3 DEF ReaderType, Part
    <3> QED BY <1>12, <3>2, <3>3, HeadCases
  <2> QED BY <1>2, <1>4, <1>12, <2>1, HeadCases
<1>13. CASE DataRead
  <2>1. ReaderType'
    <3>1. HeadSize + rsize \in Int /\ Signed(rsize - rleft) \in Int
      BY Sizes, SignedInt DEF ReaderType
    <3> QED BY <1>3, <1>13, <3>1, DataCases
  <2> QED BY <1>2, <1>4, <1>13, <2>1, DataCases
<1>14. CASE UNCHANGED vars
  BY <1>1, <1>2, <1>4, <1>14 DEF vars
<1> QED BY <1>5, <1>6, <1>7, <1>8, <1>9, <1>10, <1>11, <1>12, <1>13, <1>14
        DEF Next, WriterStep, ReaderStep

-----------------------------------------------------------------------------
(* The order of the PDUs, also with interrupted calls.                     *)

LEMMA BufByte ==
    ASSUME DataType, NEW x \in DOMAIN buf
    PROVE  buf[x] \in Byte /\ buf[x][1] \in Index
<1>1. buf[x] \in Byte
  BY DEF DataType, ReaderType
<1> QED BY <1>1 DEF Byte

\* A step of the writer that puts nothing into the socket, or of the reader that
\* takes nothing out of it.
LEMMA KeepOrder ==
    ASSUME DataType, Order, WriterAt', wpdu' \in Nat, wpdu <= wpdu',
           \A i \in Index : Past(i) => Past(i)',
           stream' = stream, buf' = buf, results' = results,
           rpart' \in Part => rpart \in Part
    PROVE  Order'
<1>1. wpdu \in Nat /\ Index \subseteq Nat
  BY Sizes DEF DataType, WriterType, Index
<1>2. ASSUME NEW b \in Byte, Sent(b) PROVE Sent(b)'
  <2>1. b[1] \in Index
    BY DEF Byte
  <2> QED BY <1>1, <1>2, <2>1 DEF Sent, LastHead
<1>3. StreamOrder'
  BY <1>2, StreamByte DEF Order, StreamOrder, Follows, LastHead
<1>4. BufOrder'
  BY <1>2, BufByte DEF Order, BufOrder, Follows, LastHead
<1>5. ResultOrder'
  BY DEF Order, ResultOrder, Handed, Follows, LastHead
<1> QED BY <1>3, <1>4, <1>5 DEF Order

LEMMA WriteOrder ==
    ASSUME DataType, Order, NEW k \in 1..Room, Write(k)
    PROVE  Order'
<1> DEFINE b(j) == <<wpdu, wpart, wptr + j - 1>>
<1>1. /\ k \in Nat /\ k >= 1 /\ k <= wleft /\ wleft \in Nat /\ wptr \in Int
      /\ wleft' = wleft - k /\ wptr' = wptr + k
      /\ wpdu' = wpdu /\ wpart' = wpart
      /\ rpart' = rpart /\ buf' = buf /\ results' = results
  BY PduAssumption, Sizes DEF DataType, WriterType, Write, readerVars
<1>2. /\ wpdu \in Index /\ Index \subseteq Nat
      /\ Len(stream) \in Nat /\ Len(stream') = Len(stream) + k
      /\ \A l \in 1..Len(stream) : stream'[l] = stream[l]
      /\ \A j \in 1..k : stream'[Len(stream) + j] = b(j)
  <2>1. Len(stream) \in Nat
    BY DEF DataType, WriterType
  <2>2. Index \subseteq Nat
    BY Sizes DEF Index
  <2>3. \A j \in 1..k : stream'[Len(stream) + j] = b(j)
    BY WriteStream
  <2> QED BY <2>1, <2>2, <2>3, WriteStream
<1>3. WriterAt'
  BY <1>1, Sizes DEF Order, WriterAt
<1>4. \A i \in Index : Past(i) => Past(i)'
  BY <1>1 DEF Past
<1>5. ASSUME NEW c \in Byte, Sent(c)
      PROVE  Sent(c)' /\ \A j \in 1..k : Follows(c, b(j))
  <2>1. c[1] \in Index
    BY DEF Byte
  <2>2. Sent(c)'
    BY <1>1, <1>4, <1>5, <2>1 DEF Sent, LastHead
  <2>3. ASSUME NEW j \in 1..k PROVE Follows(c, b(j))
    <3>1. c[1] <= b(j)[1]
      BY <1>5 DEF Sent
    <3>2. ASSUME c = LastHead(c[1]), b(j) = c PROVE FALSE
      <4>1. c[1] = wpdu /\ wpart = "head"
        BY <3>2 DEF LastHead
      <4>2. Past(wpdu)
        BY <1>5, <3>2, <4>1 DEF Sent
      <4> QED BY <1>1, <1>2, <4>1, <4>2 DEF Past
    <3> QED BY <3>1, <3>2 DEF Follows
  <2> QED BY <2>2, <2>3
<1>6. ASSUME NEW j \in 1..k, NEW c, c = b(j) PROVE Sent(c)'
  <2>1. c[1] = wpdu
    BY <1>6
  <2>2. ASSUME c = LastHead(wpdu) PROVE wpart = "head" /\ wleft' = 0
    <3>1. wpart = "head" /\ wptr + j - 1 = HeadSize - 1
      BY <1>6, <2>2 DEF LastHead
    <3>2. wleft + wptr = HeadSize
      BY <1>1, <3>1 DEF Order, WriterAt
    <3> QED BY <1>1, <3>1, <3>2, Sizes
  <2> QED BY <1>1, <1>2, <2>1, <2>2 DEF Sent, Past, LastHead
<1>7. ASSUME NEW j \in 1..k, NEW l \in 1..k, j < l PROVE Follows(b(j), b(l))
  <2>1. b(j) # b(l)
    BY <1>1, <1>7
  <2> QED BY <1>2, <2>1 DEF Follows
<1>8. ASSUME NEW l \in 1..Len(stream')
      PROVE  \/ l \in 1..Len(stream) /\ stream'[l] = stream[l]
             \/ \E j \in 1..k : l = Len(stream) + j /\ stream'[l] = b(j)
  <2>1. CASE l <= Len(stream)
    BY <1>2, <2>1
  <2>2. CASE l > Len(stream)
    <3>1. l - Len(stream) \in 1..k /\ l = Len(stream) + (l - Len(stream))
      BY <1>1, <1>2, <2>2
    <3> QED BY <1>2, <3>1
  <2> QED BY <1>2, <2>1, <2>2
<1> HIDE DEF b
<1>9. \A l \in 1..Len(stream) : stream[l] \in Byte /\ Sent(stream[l])
  BY StreamByte DEF Order, StreamOrder
<1>10. StreamOrder'
  <2>1. ASSUME NEW l \in 1..Len(stream'), NEW c, c = stream'[l] PROVE Sent(c)'
    BY <1>5, <1>6, <1>8, <1>9, <2>1
  <2>2. ASSUME NEW l \in 1..Len(stream'), NEW m \in 1..Len(stream'), l < m
        PROVE  Follows(stream'[l], stream'[m])
    <3>1. CASE l \in 1..Len(stream) /\ m \in 1..Len(stream)
      BY <1>2, <2>2, <3>1 DEF Order, StreamOrder
    <3>2. CASE l \in 1..Len(stream) /\ m \notin 1..Len(stream)
      BY <1>2, <1>5, <1>8, <1>9, <3>2
    <3>3. CASE l \notin 1..Len(stream)
      <4>1. PICK j \in 1..k : l = Len(stream) + j /\ stream'[l] = b(j)
        BY <1>8, <3>3
      <4>2. m \notin 1..Len(stream)
        BY <1>2, <2>2, <4>1
      <4>3. PICK i \in 1..k : m = Len(stream) + i /\ stream'[m] = b(i)
        BY <1>8, <4>2
      <4>4. j < i
        BY <1>2, <2>2, <4>1, <4>3
      <4> QED BY <1>7, <4>1, <4>3, <4>4
    <3> QED BY <3>1, <3>2, <3>3
  <2>3. \A l \in 1..Len(stream') : Sent(stream[l])'
    BY <2>1 DEF Sent, Past, LastHead
  <2> QED BY <2>2, <2>3 DEF StreamOrder, Follows, LastHead
<1>11. BufOrder'
  <2>1. ASSUME rpart \in Part, NEW x \in DOMAIN buf
        PROVE  Sent(buf[x])' /\ \A l \in 1..Len(stream') : Follows(buf[x], stream'[l])
    <3>1. Sent(buf[x]) /\ buf[x] \in Byte /\ \A l \in 1..Len(stream) : Follows(buf[x], stream[l])
      BY <2>1, BufByte DEF Order, BufOrder
    <3>2. Sent(buf[x])' /\ \A j \in 1..k : Follows(buf[x], b(j))
      BY <1>1, <1>5, <3>1
    <3> QED BY <1>2, <1>8, <3>1, <3>2
  <2> QED BY <1>1, <2>1 DEF BufOrder, Follows, LastHead, Sent, Past
<1>12. ResultOrder'
  <2>1. ASSUME NEW i \in Index, Handed(i)
        PROVE  Past(i)' /\ \A l \in 1..Len(stream') : Follows(LastHead(i), stream'[l])
    <3>1. Past(i) /\ \A l \in 1..Len(stream) : Follows(LastHead(i), stream[l])
      BY <2>1 DEF Order, ResultOrder
    <3>2. LastHead(i) \in Byte /\ LastHead(i)[1] = i
      BY Sizes DEF LastHead, Byte, Part
    <3>3. Sent(LastHead(i))
      BY <1>2, <3>1, <3>2 DEF Sent, Past
    <3>4. \A j \in 1..k : Follows(LastHead(i), b(j))
      BY <1>5, <3>2, <3>3
    <3> QED BY <1>2, <1>4, <1>8, <3>1, <3>4
  <2> QED BY <1>1, <2>1 DEF Order, ResultOrder, Handed, Follows, LastHead, Past
<1> QED BY <1>3, <1>10, <1>11, <1>12 DEF Order

LEMMA ReadOrder ==
    ASSUME DataType, Order, NEW k \in 1..Room, Read(k)
    PROVE  Order'
<1>1. /\ k \in 1..Len(stream) /\ Len(stream) \in Nat /\ Len(stream') = Len(stream) - k
      /\ \A l \in 1..Len(stream') : stream'[l] = stream[l + k] /\ l + k \in 1..Len(stream)
  BY ReadStream DEF DataType, WriterType
<1>2. /\ wpdu' = wpdu /\ wpart' = wpart /\ wleft' = wleft /\ wptr' = wptr
      /\ rpart' = rpart /\ rpart \in Part /\ results' = results
  BY DEF Read, writerVars
<1>3. ASSUME NEW x \in DOMAIN buf'
      PROVE  \/ \E j \in 1..k : buf'[x] = stream[j]
             \/ x \in DOMAIN buf /\ buf'[x] = buf[x]
  BY ReadBuf
<1>4. StreamOrder'
  <2>1. \A l \in 1..Len(stream') : Sent(stream'[l])
    BY <1>1 DEF Order, StreamOrder
  <2>2. \A l, m \in 1..Len(stream') : l < m => Follows(stream'[l], stream'[m])
    <3>1. \A l, m \in 1..Len(stream') : l < m => l + k < m + k
      BY <1>1
    <3> QED BY <1>1, <3>1 DEF Order, StreamOrder
  <2> QED BY <1>2, <2>1, <2>2 DEF StreamOrder, Sent, Past, Follows, LastHead
<1>5. BufOrder'
  <2>1. ASSUME NEW x \in DOMAIN buf'
        PROVE  Sent(buf'[x]) /\ \A l \in 1..Len(stream') : Follows(buf'[x], stream'[l])
    <3>1. CASE x \in DOMAIN buf /\ buf'[x] = buf[x]
      BY <1>1, <1>2, <3>1 DEF Order, BufOrder
    <3>2. CASE \E j \in 1..k : buf'[x] = stream[j]
      <4>1. PICK j \in 1..k : buf'[x] = stream[j]
        BY <3>2
      <4>2. j \in 1..Len(stream) /\ \A l \in 1..Len(stream') : j < l + k
        BY <1>1
      <4> QED BY <1>1, <4>1, <4>2 DEF Order, StreamOrder
    <3> QED BY <1>3, <3>1, <3>2
  <2> QED BY <1>2, <2>1 DEF BufOrder, Sent, Past, Follows, LastHead
<1>6. ResultOrder'
  <2>1. ASSUME NEW i \in Index, Handed(i)
        PROVE  /\ Past(i)
               /\ \A l \in 1..Len(stream') : Follows(LastHead(i), stream'[l])
               /\ \A x \in DOMAIN buf' : Follows(LastHead(i), buf'[x])
    <3>1. /\ Past(i)
          /\ \A l \in 1..Len(stream) : Follows(LastHead(i), stream[l])
          /\ \A x \in DOMAIN buf : Follows(LastHead(i), buf[x])
      BY <1>2, <2>1 DEF Order, ResultOrder
    <3>2. \A j \in 1..k : j \in 1..Len(stream)
      BY <1>1
    <3> QED BY <1>1, <1>3, <3>1, <3>2
  <2> QED BY <1>2, <2>1 DEF Order, ResultOrder, Handed, Past, Follows, LastHead
<1>7. WriterAt'
  BY <1>2 DEF Order, WriterAt
<1> QED BY <1>4, <1>5, <1>6, <1>7 DEF Order

\* A header that is handed over had its last byte in buf.
LEMMA ReturnOrder ==
    ASSUME DataType, Order, NEW n \in Int, Return(n), rpart \in Part,
           UNCHANGED <<writerVars, stream>>
    PROVE  Order'
<1>1. /\ wpdu' = wpdu /\ wpart' = wpart /\ wleft' = wleft /\ wptr' = wptr
      /\ stream' = stream
  BY DEF writerVars
<1>2. /\ rpart' \notin Part
      /\ Len(results) \in Nat /\ Len(results') = Len(results) + 1
      /\ \A m \in 1..Len(results) : results'[m] = results[m]
      /\ results'[Len(results) + 1].pdu = HeadOf
  <2>1. Len(results) \in Nat
    BY DEF DataType, ReaderType
  <2>2. rpart' \in {"out", "gone"}
    BY ReturnType
  <2>3. rpart' \notin Part
    BY <2>2 DEF Part
  <2>4. results'[Len(results) + 1].pdu = HeadOf
    BY ReturnType
  <2> QED BY <2>1, <2>3, <2>4, ReturnType
<1>3. ASSUME NEW i \in HeadOf
      PROVE  /\ i \in Index /\ Past(i)
             /\ \A k \in 1..Len(stream) : Follows(LastHead(i), stream[k])
             /\ \A h \in Index : Handed(h) => h < i
  <2>1. i \in Index
    BY HeadIndex
  <2> DEFINE x == <<"head", HeadSize - 1>>
  <2>2. HeadSize - 1 \in 0..(HeadSize - 1)
    BY Sizes
  <2>3. x \in DOMAIN buf /\ buf[x] = LastHead(i)
    BY <2>2 DEF HeadOf, InPlace, Stored, LastHead
  <2>4. LastHead(i)[1] = i
    BY DEF LastHead
  <2>5. Past(i) /\ \A k \in 1..Len(stream) : Follows(LastHead(i), stream[k])
    BY <2>3, <2>4 DEF Order, BufOrder, Sent
  <2>6. ASSUME NEW h \in Index, Handed(h) PROVE h < i
    <3>1. Follows(LastHead(h), LastHead(i))
      BY <2>3, <2>6 DEF Order, ResultOrder
    <3>2. LastHead(h)[1] = h
      BY DEF LastHead
    <3> QED BY <2>1, <2>4, <3>1, <3>2, Sizes DEF Follows, Index
  <2> QED BY <2>1, <2>5, <2>6
<1>4. ASSUME NEW m \in 1..Len(results')
      PROVE  \/ m \in 1..Len(results) /\ results'[m] = results[m]
             \/ m = Len(results) + 1
  BY <1>2
<1>5. ASSUME NEW i \in Index, Handed(i)'
      PROVE  Past(i) /\ \A k \in 1..Len(stream) : Follows(LastHead(i), stream[k])
  <2>1. PICK m \in 1..Len(results') : i \in results'[m].pdu
    BY <1>5 DEF Handed
  <2>2. CASE m \in 1..Len(results) /\ results'[m] = results[m]
    BY <2>1, <2>2 DEF Order, ResultOrder, Handed
  <2>3. CASE m = Len(results) + 1
    BY <1>2, <1>3, <2>1, <2>3
  <2> QED BY <1>4, <2>2, <2>3
<1>6. ASSUME NEW m \in 1..Len(results'), NEW l \in 1..Len(results'), m < l,
             NEW i \in results'[m].pdu, NEW j \in results'[l].pdu
      PROVE  i < j
  <2>1. m \in 1..Len(results) /\ results'[m] = results[m]
    BY <1>2, <1>4, <1>6
  <2>2. CASE l \in 1..Len(results)
    BY <1>2, <1>6, <2>1, <2>2 DEF Order, ResultOrder
  <2>3. CASE l = Len(results) + 1
    <3>1. i \in Index /\ Handed(i)
      <4>1. results[m] \in Result
        BY <2>1 DEF DataType, ReaderType
      <4> QED BY <2>1, <4>1 DEF Handed, Result
    <3> QED BY <1>2, <1>3, <2>3, <3>1
  <2> QED BY <1>4, <2>2, <2>3
<1>7. ResultOrder'
  BY <1>1, <1>2, <1>5, <1>6 DEF ResultOrder, Past, Follows, LastHead
<1>8. StreamOrder' /\ BufOrder' /\ WriterAt'
  BY <1>1, <1>2 DEF Order, StreamOrder, BufOrder, WriterAt, Sent, Past, Follows, LastHead
<1> QED BY <1>7, <1>8 DEF Order

LEMMA OrderStep == DataType /\ DataType' /\ Order /\ [Next]_vars => Order'
<1> SUFFICES ASSUME DataType, DataType', Order, [Next]_vars PROVE Order'
  OBVIOUS
<1>0. wpdu \in Nat /\ wpdu' \in Nat /\ Index \subseteq Nat /\ WriterAt
  BY Sizes DEF DataType, WriterType, Index, Order
<1>1. ASSUME NEW k \in 1..Room, Write(k) PROVE Order'
  BY <1>1, WriteOrder
<1>2. CASE WriteIntr
  <2>1. /\ wleft > 0 /\ wleft' = Unsigned(wleft + 1) /\ wptr' = wptr - 1
        /\ UNCHANGED <<wpdu, wpart, stream, rpart, buf, results>>
    BY <1>2 DEF WriteIntr, readerVars
  <2>2. wleft' = wleft + 1 \/ wleft' = 0
    BY <2>1, Wraps DEF DataType, WriterType
  <2>3. wleft \in Nat /\ wptr \in Int
    BY Sizes DEF DataType, WriterType
  <2>4. WriterAt'
    BY <1>0, <2>1, <2>2, <2>3, Sizes DEF WriterAt
  <2>5. \A i \in Index : Past(i) => Past(i)'
    BY <2>1, <2>3 DEF Past
  <2> QED BY <1>0, <2>1, <2>4, <2>5, KeepOrder
<1>3. CASE Written
  <2>1. /\ UNCHANGED <<stream, rpart, buf, results>>
        /\ \/ wpart' = "data" /\ wpdu' = wpdu
           \/ wpart' = "head" /\ wleft' = HeadSize /\ wptr' = 0 /\ wpdu' = wpdu + 1
    BY <1>3 DEF Written, readerVars
  <2>2. WriterAt'
    BY <2>1, Sizes DEF WriterAt
  <2>3. wpdu <= wpdu' /\ \A i \in Index : Past(i) => Past(i)'
    BY <1>0, <2>1 DEF Past
  <2> QED BY <1>0, <2>1, <2>2, <2>3, KeepOrder
<1>4. CASE Close \/ ReadIntr \/ UNCHANGED vars
  <2>1. UNCHANGED <<wpdu, wpart, wleft, wptr, stream, rpart, buf, results>>
    BY <1>4 DEF Close, ReadIntr, vars, readerVars, writerVars
  <2>2. WriterAt' /\ \A i \in Index : Past(i) => Past(i)'
    BY <1>0, <2>1 DEF WriterAt, Past
  <2> QED BY <1>0, <2>1, <2>2, KeepOrder
<1>5. CASE ReadPdu
  <2>1. /\ UNCHANGED <<wpdu, wpart, wleft, wptr, stream, results>>
        /\ buf' = <<>>
    BY <1>5 DEF ReadPdu, writerVars
  <2>2. DOMAIN buf' = {}
    BY <2>1
  <2> QED BY <2>1, <2>2 DEF Order, WriterAt, StreamOrder, BufOrder, ResultOrder, Sent,
                            Past, Follows, Handed, LastHead
<1>6. ASSUME NEW k \in 1..Room, Read(k) PROVE Order'
  BY <1>6, ReadOrder
<1>7. ASSUME HeadRead \/ DataRead, NEW n \in Int, Return(n) PROVE Order'
  BY <1>7, HeadCases, DataCases, ReturnOrder DEF Part
<1>8. CASE HeadRead
  <2>1. HeadSize \in Int /\ Signed(HeadSize - rleft) \in Int
    BY Sizes, SignedInt DEF DataType, ReaderType
  <2>2. CASE rpart' = "data" /\ buf' = buf /\ results' = results
    <3>1. UNCHANGED <<wpdu, wpart, wleft, wptr, stream>> /\ rpart \in Part
      BY <1>8, HeadCases DEF writerVars, Part
    <3>2. WriterAt' /\ \A i \in Index : Past(i) => Past(i)'
      BY <1>0, <3>1 DEF WriterAt, Past
    <3> QED BY <1>0, <2>2, <3>1, <3>2, KeepOrder
  <2> QED BY <1>7, <1>8, <2>1, <2>2, HeadCases
<1>9. CASE DataRead
  <2>1. HeadSize + rsize \in Int /\ Signed(rsize - rleft) \in Int
    BY Sizes, SignedInt DEF DataType, ReaderType
  <2> QED BY <1>7, <1>9, <2>1, DataCases
<1> QED BY <1>1, <1>2, <1>3, <1>4, <1>5, <1>6, <1>8, <1>9
        DEF Next, WriterStep, ReaderStep

LEMMA InitOrder == Init => Order
<1> SUFFICES ASSUME Init PROVE Order
  OBVIOUS
<1>1. stream = <<>> /\ results = <<>> /\ rpart = "out" /\ wleft + wptr = HeadSize
  BY Sizes DEF Init
<1>2. Len(stream) = 0 /\ Len(results) = 0 /\ rpart \notin Part
  BY <1>1 DEF Part
<1> QED BY <1>1, <1>2 DEF Order, WriterAt, StreamOrder, BufOrder, ResultOrder, Handed

-----------------------------------------------------------------------------
(* The run of bytes, as long as no call is interrupted.                    *)

WriterRun == wptr \in Nat /\ wleft + wptr = Size(wpdu, wpart)

\* The part of InStep that is about the reader only.
ReaderRun ==
    /\ rpart # "gone"
    /\ \A n \in 1..Len(results) : Good(n)
    /\ rpart = "head" => rptr \in Nat /\ rleft + rptr = HeadSize
    /\ rpart = "data" =>
          /\ Turn \in Index /\ rsize = DataSize[Turn] /\ rsize > 0
          /\ rptr \in Nat /\ rleft + rptr = rsize
          /\ Stores("head", HeadSize)
    /\ rpart \in Part => Stores(rpart, rptr)

LEMMA InStepParts == InStep <=> ReaderRun /\ Run
BY DEF InStep, ReaderRun

LEMMA Lengths ==
    ASSUME DataType
    PROVE  Len(stream) \in Nat /\ (stream = <<>> <=> Len(stream) = 0) /\ Turn \in Nat
BY DEF DataType, WriterType, ReaderType, Turn

LEMMA ReaderRests ==
    ASSUME ReaderRun, UNCHANGED <<rpart, rleft, rptr, rsize, buf, results>>
    PROVE  ReaderRun' /\ RPos' = RPos
BY DEF ReaderRun, Good, Turn, Stores, InPlace, Stored, RPos

LEMMA WriteRun ==
    ASSUME DataType, WriterRun, ReaderRun, Run, NEW k \in 1..Room, Write(k)
    PROVE  WriterRun' /\ InStep'
<1> DEFINE L == Len(stream)
<1>1. /\ k \in Nat /\ k >= 1 /\ k <= wleft /\ wleft \in Nat /\ wptr \in Nat
      /\ wleft' = wleft - k /\ wptr' = wptr + k /\ wpdu' = wpdu /\ wpart' = wpart
      /\ UNCHANGED <<rpart, rleft, rptr, rsize, buf, results>>
  BY PduAssumption, Sizes DEF DataType, WriterType, Write, readerVars, WriterRun
<1>2. /\ L \in Nat /\ Len(stream') = L + k
      /\ \A l \in 1..L : stream'[l] = stream[l]
      /\ \A j \in 1..k : stream'[L + j] = <<wpdu, wpart, wptr + j - 1>>
  BY WriteStream, Lengths
<1>3. /\ Size(wpdu, wpart) = wleft + wptr /\ WriterRun'
  BY <1>1 DEF WriterRun, Size
<1>4. ReaderRun' /\ RPos' = RPos
  BY <1>1, ReaderRests
<1>5. ASSUME NEW j \in 1..k
      PROVE  Succ(stream'[L + j]) = IF j < k THEN stream'[L + j + 1] ELSE WPos'
  <2>1. Succ(stream'[L + j]) = At(wpdu, wpart, wptr + j)
    BY <1>1, <1>2 DEF Succ
  <2>2. CASE j = k
    BY <1>1, <2>1, <2>2 DEF WPos, At, Size
  <2>3. CASE j < k
    <3>1. wptr + j < Size(wpdu, wpart) /\ j + 1 \in 1..k
      BY <1>1, <1>3, <2>3
    <3>2. stream'[L + (j + 1)] = <<wpdu, wpart, wptr + (j + 1) - 1>>
      BY <1>2, <3>1
    <3>3. L + (j + 1) = L + j + 1 /\ wptr + (j + 1) - 1 = wptr + j
      BY <1>1, <1>2
    <3> QED BY <2>1, <2>3, <3>1, <3>2, <3>3 DEF At
  <2> QED BY <1>1, <2>2, <2>3
<1>6. stream'[L + 1] = WPos
  <2>1. stream'[L + 1] = <<wpdu, wpart, wptr + 1 - 1>> /\ wptr + 1 - 1 = wptr
    BY <1>1, <1>2
  <2>2. wptr < Size(wpdu, wpart)
    BY <1>1, <1>3
  <2> QED BY <2>1, <2>2 DEF WPos, At
<1>7. ASSUME NEW m \in 1..(L + k - 1) PROVE stream'[m + 1] = Succ(stream'[m])
  <2>1. CASE m < L
    <3>1. m \in 1..(L - 1) /\ m \in 1..L /\ m + 1 \in 1..L
      BY <1>1, <1>2, <2>1
    <3> QED BY <1>2, <3>1 DEF Run
  <2>2. CASE m = L
    <3>1. L \in 1..L /\ stream # <<>>
      BY <2>2, Lengths
    <3> QED BY <1>2, <1>6, <2>2, <3>1 DEF Run
  <2>3. CASE m > L
    <3>1. m - L \in 1..k /\ m - L < k /\ L + (m - L) = m
      BY <1>1, <1>2, <2>3
    <3> QED BY <1>5, <3>1
  <2> QED BY <1>1, <1>2, <2>1, <2>2, <2>3
<1>8. stream'[1] = RPos
  <2>1. CASE L = 0
    BY <1>6, <2>1, Lengths DEF Run
  <2>2. CASE L # 0
    <3>1. 1 \in 1..L /\ stream # <<>>
      BY <1>2, <2>2, Lengths
    <3> QED BY <1>2, <3>1 DEF Run
  <2> QED BY <2>1, <2>2
<1>9. Succ(stream'[L + k]) = WPos'
  <2>1. k \in 1..k /\ ~(k < k)
    BY <1>1
  <2> QED BY <1>5, <2>1
<1>10. stream' # <<>>
  BY <1>1, <1>2
<1>11. Run'
  BY <1>2, <1>4, <1>7, <1>8, <1>9, <1>10 DEF Run, Succ, At, Size
<1> QED BY <1>3, <1>4, <1>11, InStepParts DEF InStep, ReaderRun

LEMMA ReadRun ==
    ASSUME DataType, WriterRun, ReaderRun, Run, NEW k \in 1..Room, Read(k)
    PROVE  WriterRun' /\ InStep'
<1> DEFINE L == Len(stream)
           n == Turn
<1>1. /\ k \in Nat /\ k >= 1 /\ k <= rleft /\ rleft \in Nat /\ rptr \in Nat
      /\ rpart \in Part /\ rpart' = rpart
      /\ rleft' = rleft - k /\ rptr' = rptr + k /\ rsize' = rsize
      /\ results' = results /\ WPos' = WPos /\ WriterRun' /\ Turn' = Turn
  BY PduAssumption DEF DataType, ReaderType, Read, ReaderRun, Part, writerVars, WPos,
                       WriterRun, Turn, At, Size
<1>2. /\ L \in Nat /\ k \in 1..L /\ Len(stream') = L - k
      /\ \A l \in 1..Len(stream') : stream'[l] = stream[l + k]
      /\ stream # <<>> /\ (stream' = <<>> <=> Len(stream') = 0)
  <2>1. stream' \in Seq(Byte)
    BY ReadStream
  <2> QED BY <2>1, ReadStream, Lengths
<1>3. rptr + rleft = Size(n, rpart)
  BY <1>1 DEF ReaderRun, Size, Part
<1>4. \A j \in 1..k : stream[j] = <<n, rpart, rptr + j - 1>>
  <2> DEFINE T == {j \in 1..k : stream[j] # <<n, rpart, rptr + j - 1>>}
  <2> SUFFICES ASSUME T # {} PROVE FALSE
    OBVIOUS
  <2>1. PICK j \in T : \A i \in T : j <= i
    <3>1. T \subseteq Nat
      BY <1>1
    <3> HIDE DEF T
    <3> QED BY <3>1, Least
  <2>2. j \in 1..k /\ j \in Nat
    BY <1>1
  <2>3. CASE j = 1
    <3>1. stream[1] = At(n, rpart, rptr)
      BY <1>1, <1>2 DEF Run, RPos
    <3>2. rptr < Size(n, rpart) /\ rptr + 1 - 1 = rptr
      BY <1>1, <1>3
    <3> QED BY <2>3, <3>1, <3>2 DEF At
  <2>4. CASE j # 1
    <3>1. j - 1 \in 1..k /\ j - 1 \in 1..(L - 1) /\ ~(j <= j - 1)
      BY <1>1, <1>2, <2>2, <2>4
    <3>2. stream[j - 1] = <<n, rpart, rptr + (j - 1) - 1>>
      BY <2>1, <3>1
    <3>3. stream[(j - 1) + 1] = Succ(stream[j - 1])
      BY <3>1 DEF Run
    <3>4. Succ(stream[j - 1]) = At(n, rpart, rptr + (j - 1) - 1 + 1)
      BY <3>2 DEF Succ
    <3>5. rptr + (j - 1) - 1 + 1 = rptr + j - 1 /\ (j - 1) + 1 = j
          /\ rptr + j - 1 < Size(n, rpart)
      BY <1>1, <1>3, <2>2
    <3>6. stream[j] = <<n, rpart, rptr + j - 1>>
      BY <3>3, <3>4, <3>5 DEF At
    <3> QED BY <3>6
  <2> QED BY <2>3, <2>4
<1>5. Succ(stream[k]) = At(n, rpart, rptr + k)
  <2>1. k \in 1..k /\ rptr + k - 1 + 1 = rptr + k
    BY <1>1
  <2>2. stream[k] = <<n, rpart, rptr + k - 1>>
    BY <1>4, <2>1
  <2> QED BY <2>1, <2>2 DEF Succ
<1>6. RPos' = Succ(stream[k])
  BY <1>1, <1>5 DEF RPos, At, Size
<1>7. Run'
  <2>1. ASSUME NEW m \in 1..(Len(stream') - 1) PROVE stream'[m + 1] = Succ(stream'[m])
    <3>1. /\ m \in 1..Len(stream') /\ m + 1 \in 1..Len(stream') /\ m + k \in 1..(L - 1)
          /\ m + 1 + k = m + k + 1
      BY <1>1, <1>2
    <3> QED BY <1>2, <3>1 DEF Run
  <2>2. CASE k = L
    <3>1. WPos' = RPos' /\ stream' = <<>>
      BY <1>1, <1>2, <1>6, <2>2 DEF Run
    <3> QED BY <2>1, <3>1 DEF Run, Succ, At, Size
  <2>3. CASE k # L
    <3>1. /\ 1 \in 1..Len(stream') /\ Len(stream') \in 1..Len(stream')
          /\ 1 + k = k + 1 /\ Len(stream') + k = L /\ k \in 1..(L - 1) /\ stream' # <<>>
      BY <1>1, <1>2, <2>3
    <3>2. stream'[1] = RPos'
      BY <1>2, <1>6, <3>1 DEF Run
    <3>3. Succ(stream'[Len(stream')]) = WPos'
      BY <1>1, <1>2, <3>1 DEF Run
    <3> QED BY <2>1, <3>1, <3>2, <3>3 DEF Run, Succ, At, Size
  <2> QED BY <2>2, <2>3
<1>8. ASSUME NEW part \in Part, NEW o \in Nat, InPlace(n, part, o)
      PROVE  part # rpart \/ o < rptr => InPlace(n, part, o)'
  <2>1. SUFFICES ASSUME part # rpart \/ o < rptr
                 PROVE  <<part, o>> \in DOMAIN buf' /\ buf'[<<part, o>>] = buf[<<part, o>>]
    BY <1>1, <1>8, <2>1 DEF InPlace, Stored
  <2>2. <<part, o>> \in DOMAIN buf /\ DOMAIN buf \subseteq DOMAIN buf'
    BY <1>8, ReadBuf DEF InPlace, Stored
  <2>3. \A j \in 1..k : <<part, o>> # <<rpart, rptr + j - 1>>
    BY <1>1, <2>1
  <2> QED BY <2>2, <2>3, ReadBuf
<1>9. ASSUME NEW o \in 0..(rptr + k - 1) PROVE InPlace(n, rpart, o)'
  <2>1. CASE o < rptr
    <3>1. InPlace(n, rpart, o) /\ o \in Nat
      BY <1>1, <2>1 DEF ReaderRun, Stores
    <3> QED BY <1>1, <1>8, <2>1, <3>1
  <2>2. CASE o >= rptr
    <3>1. o - rptr + 1 \in 1..k /\ rptr + (o - rptr + 1) - 1 = o
      BY <1>1, <2>2
    <3>2. <<rpart, o>> \in DOMAIN buf' /\ buf'[<<rpart, o>>] = stream[o - rptr + 1]
      BY <3>1, ReadBuf
    <3>3. stream[o - rptr + 1] = <<n, rpart, o>>
      BY <1>4, <3>1
    <3> QED BY <1>1, <3>2, <3>3 DEF InPlace, Stored
  <2> QED BY <1>1, <2>1, <2>2
<1>10. rpart = "data" => \A o \in 0..(HeadSize - 1) : InPlace(n, "head", o)'
  BY <1>8, Sizes DEF ReaderRun, Stores, Part
<1>11. (Turn' = Turn) /\ (rptr' - 1 = rptr + k - 1)
  BY <1>1
<1>12. Stores(rpart, rptr)'
  BY <1>1, <1>9, <1>11 DEF Stores, InPlace, Stored
<1>13. rpart = "data" => Stores("head", HeadSize)'
  BY <1>10, <1>11 DEF Stores, InPlace, Stored
<1>14. ReaderRun'
  BY <1>1, <1>12, <1>13 DEF ReaderRun, Good
<1> QED BY <1>1, <1>7, <1>14 DEF InStep, ReaderRun

\* The reader has stored the header of its turn.
LEMMA HeadStored ==
    ASSUME DataType, Turn \in Nat, Stores("head", HeadSize)
    PROVE  Turn \in Index /\ Magic # {} /\ HeadOf = {Turn} /\ SizeRead = {DataSize[Turn]}
<1>1. \A o \in 0..(HeadSize - 1) : InPlace(Turn, "head", o)
  BY DEF Stores
<1>2. InPlace(Turn, "head", 0)
  BY <1>1, Sizes
<1>3. Turn \in Index
  <2>1. <<Turn, "head", 0>> \in Byte
    BY <1>2 DEF DataType, ReaderType, InPlace, Stored
  <2> QED BY <2>1 DEF Byte
<1>4. Turn \in HeadOf /\ Turn \in Magic
  BY <1>1, <1>2, <1>3 DEF HeadOf, Magic, Index
<1>5. ASSUME NEW i \in HeadOf PROVE i = Turn
  <2>1. InPlace(i, "head", 0)
    BY DEF HeadOf, Magic
  <2> QED BY <1>2, <2>1 DEF InPlace
<1>6. HeadOf = {Turn}
  BY <1>4, <1>5
<1> QED BY <1>3, <1>4, <1>6 DEF SizeRead

\* A call returns the PDU of its turn.
LEMMA ReturnGood ==
    ASSUME DataType, ReaderRun, Run, HeadOf = {Turn}, Whole(Turn), Turn \in Index,
           RPos = <<Turn + 1, "head", 0>>,
           Return(HeadSize + DataSize[Turn]), UNCHANGED <<writerVars, stream>>
    PROVE  InStep'
<1> DEFINE L == Len(results)
           r == HeadSize + DataSize[Turn]
<1>1. r \in Int /\ r > 0 /\ L \in Nat
  BY Sizes DEF DataType, ReaderType
<1>2. /\ L \in Nat /\ Len(results') = L + 1
      /\ \A m \in 1..L : results'[m] = results[m]
      /\ results'[L + 1].ret = r
      /\ results'[L + 1].whole = (\E i \in HeadOf : Whole(i))
      /\ results'[L + 1].pdu = HeadOf
      /\ rpart' = "out"
  BY <1>1, ReturnType
<1>3. Turn' = Turn + 1 /\ Turn = L + 1
  BY <1>2 DEF Turn
<1>4. ASSUME NEW m \in 1..(L + 1) PROVE Good(m)'
  <2>1. CASE m \in 1..L
    BY <1>2, <2>1 DEF ReaderRun, Good
  <2>2. CASE m = L + 1
    BY <1>2, <1>3, <2>2 DEF Good
  <2> QED BY <1>1, <2>1, <2>2
<1>5. RPos' = RPos /\ WPos' = WPos /\ stream' = stream
  BY <1>2, <1>3 DEF RPos, Part, WPos, writerVars, At, Size
<1>6. Run'
  BY <1>5 DEF Run, Succ, At, Size
<1> QED BY <1>2, <1>4, <1>6 DEF InStep, Part

\* A call returns at the end of the file.
LEMMA ReturnOver ==
    ASSUME DataType, closed, stream = <<>>, NEW n \in Int, Return(n),
           UNCHANGED <<writerVars, stream>>,
           \A m \in 1..Len(results) :
              Good(m) \/ (n = 0 /\ \A l \in 1..Len(results) : l > m => results[l].ret = 0)
    PROVE  Over'
<1> DEFINE L == Len(results)
<1>1. /\ L \in Nat /\ Len(results') = L + 1
      /\ \A m \in 1..L : results'[m] = results[m]
      /\ results'[L + 1].ret = n
      /\ rpart' \in {"out", "gone"}
  <2>1. L \in Nat
    BY DEF DataType, ReaderType
  <2>2. rpart' = IF n > 0 THEN "out" ELSE "gone"
    BY ReturnType
  <2> QED BY <2>1, <2>2, ReturnType
<1>2. ASSUME NEW m \in 1..(L + 1)
      PROVE  Good(m)' \/ \A l \in 1..(L + 1) : l > m => results'[l].ret = 0
  <2>1. CASE m = L + 1
    BY <1>1, <2>1
  <2>2. CASE m \in 1..L /\ Good(m)
    BY <1>1, <2>2 DEF Good
  <2>3. CASE m \in 1..L /\ ~Good(m)
    <3>1. n = 0 /\ \A l \in 1..L : l > m => results[l].ret = 0
      BY <2>3
    <3>2. \A l \in 1..(L + 1) : l \in 1..L \/ l = L + 1
      BY <1>1
    <3> QED BY <1>1, <3>1, <3>2
  <2> QED BY <1>1, <2>1, <2>2, <2>3
<1>3. closed' /\ stream' = <<>>
  BY DEF writerVars
<1> QED BY <1>1, <1>2, <1>3 DEF Over

LEMMA HeadRun ==
    ASSUME DataType, ReaderRun, Run, HeadRead
    PROVE  InStep' \/ Over'
<1>1. /\ rpart = "head" /\ rptr \in Nat /\ rleft \in Nat /\ rleft + rptr = HeadSize
      /\ Stores("head", rptr) /\ Turn \in Nat /\ AtEnd
      /\ UNCHANGED <<writerVars, stream, intrs>>
  BY HeadCases, Lengths DEF ReaderRun, DataType, ReaderType, Part
<1>2. Signed(HeadSize - rleft) = rptr
  <2>1. HeadSize - rleft = rptr /\ rptr < SizeValues \div 2
    BY <1>1, Sizes
  <2> QED BY <1>1, <2>1, Fits
<1>3. CASE rleft = 0
  <2>1. rptr = HeadSize
    BY <1>1, <1>3, Sizes
  <2>2. Turn \in Index /\ Magic # {} /\ HeadOf = {Turn} /\ SizeRead = {DataSize[Turn]}
    BY <1>1, <2>1, HeadStored
  <2>3. DataSize[Turn] \in Nat
    BY <2>2, Sizes
  <2>4. RPos = IF DataSize[Turn] > 0 THEN <<Turn, "data", 0>> ELSE <<Turn + 1, "head", 0>>
    BY <1>1, <2>1, Sizes DEF RPos, At, Size, Part
  <2>5. CASE /\ rpart' = "data" /\ rleft' = DataSize[Turn] /\ rptr' = 0
             /\ rsize' = DataSize[Turn] /\ DataSize[Turn] > 0
             /\ buf' = buf /\ results' = results
    <3>1. Turn' = Turn
      BY <2>5 DEF Turn
    <3>2. RPos' = <<Turn, "data", 0>>
      BY <2>5, <3>1 DEF RPos, At, Size, Part
    <3>3. Run'
      BY <1>1, <2>4, <2>5, <3>2 DEF Run, WPos, Succ, At, Size, writerVars
    <3>4. (\A m \in 1..Len(results) : Good(m))'
      BY <2>5 DEF ReaderRun, Good
    <3>5. Stores("head", HeadSize)' /\ Stores("data", rptr)'
      BY <1>1, <2>1, <2>5, <3>1 DEF Stores, InPlace, Stored
    <3> QED BY <2>2, <2>3, <2>5, <3>1, <3>3, <3>4, <3>5 DEF InStep, Part
  <2>6. CASE 0 \in SizeRead /\ Return(HeadSize)
    <3>1. DataSize[Turn] = 0 /\ HeadSize = HeadSize + DataSize[Turn]
      BY <2>2, <2>6, Sizes
    <3>2. Whole(Turn)
      BY <3>1 DEF Whole
    <3> QED BY <1>1, <2>2, <2>4, <2>6, <3>1, <3>2, ReturnGood
  <2> QED BY <1>2, <2>1, <2>2, <2>5, <2>6, HeadCases
<1>4. CASE rleft # 0
  <2>1. rptr # HeadSize /\ closed /\ stream = <<>>
    BY <1>1, <1>4, Sizes DEF AtEnd
  <2>2. Return(rptr)
    BY <1>2, <2>1, HeadCases
  <2>3. rptr \in Int /\ \A m \in 1..Len(results) : Good(m)
    BY <1>1 DEF ReaderRun
  <2> QED BY <1>1, <2>1, <2>2, <2>3, ReturnOver
<1> QED BY <1>3, <1>4

LEMMA DataRun ==
    ASSUME DataType, ReaderRun, Run, DataRead
    PROVE  InStep' \/ Over'
<1>1. /\ rpart = "data" /\ rptr \in Nat /\ rleft \in Nat /\ rleft + rptr = rsize
      /\ Stores("head", HeadSize) /\ Stores("data", rptr) /\ Turn \in Index
      /\ rsize = DataSize[Turn] /\ rsize > 0 /\ AtEnd
      /\ UNCHANGED <<writerVars, stream>>
  BY DataCases DEF ReaderRun, DataType, ReaderType, Part
<1>2. rsize \in Nat /\ rsize < SizeValues \div 2
  BY <1>1, Sizes
<1>3. Signed(rsize - rleft) = rptr
  <2>1. rsize - rleft = rptr /\ rptr < SizeValues \div 2
    BY <1>1, <1>2, Sizes
  <2> QED BY <1>1, <2>1, Fits
<1>4. CASE rleft = 0
  <2>1. rptr = rsize
    BY <1>1, <1>2, <1>4
  <2>2. Return(HeadSize + DataSize[Turn])
    BY <1>1, <1>3, <2>1, DataCases
  <2>3. HeadOf = {Turn}
    BY <1>1, HeadStored, Lengths
  <2>4. Whole(Turn)
    BY <1>1, <2>1 DEF Whole, Stores
  <2>5. RPos = <<Turn + 1, "head", 0>>
    BY <1>1, <1>2, <2>1 DEF RPos, At, Size, Part
  <2> QED BY <1>1, <2>2, <2>3, <2>4, <2>5, ReturnGood
<1>5. CASE rleft # 0
  <2>1. rptr # rsize /\ closed /\ stream = <<>>
    BY <1>1, <1>2, <1>5 DEF AtEnd
  <2>2. Return(rptr)
    BY <1>3, <2>1, DataCases
  <2>3. rptr \in Int /\ \A m \in 1..Len(results) : Good(m)
    BY <1>1 DEF ReaderRun
  <2> QED BY <1>1, <2>1, <2>2, <2>3, ReturnOver
<1> QED BY <1>4, <1>5

LEMMA UndisturbedStep == DataType /\ Undisturbed /\ [Next]_vars => Undisturbed'
<1> SUFFICES ASSUME DataType, Undisturbed, [Next]_vars, intrs' = 0
             PROVE  WriterRun' /\ (InStep' \/ Over')
  BY DEF Undisturbed, WriterRun
<1>0. intrs \in Nat /\ 0 # intrs + 1
  BY DEF DataType, WriterType
<1>1. ~WriteIntr /\ ~ReadIntr
  BY <1>0 DEF WriteIntr, ReadIntr, Interrupted
<1>2. intrs = 0
  BY <1>1, HeadCases, DataCases
     DEF Next, WriterStep, ReaderStep, Write, Written, Close, ReadPdu, Read, HeadRead,
         DataRead, vars
<1>3. WriterRun /\ (InStep \/ Over)
  BY <1>2 DEF Undisturbed, WriterRun
<1>4. InStep => ReaderRun /\ Run
  BY InStepParts
<1>5. ASSUME UNCHANGED <<wpdu, wpart, wleft, wptr>> PROVE WriterRun' /\ WPos' = WPos
  BY <1>3, <1>5 DEF WriterRun, WPos, Size, At
<1>6. ASSUME NEW k \in 1..Room, Write(k) PROVE WriterRun' /\ (InStep' \/ Over')
  <2>1. InStep
    BY <1>3, <1>6 DEF Write, Sending, Over
  <2> QED BY <1>3, <1>4, <1>6, <2>1, WriteRun
<1>7. CASE Written
  <2>1. InStep /\ wleft = 0 /\ wptr = Size(wpdu, wpart) /\ wpdu \in Index
    BY <1>3, <1>7, Sizes
       DEF Written, Sending, Over, WriterRun, Size, DataType, WriterType, Index
  <2>2. UNCHANGED <<stream, rpart, rleft, rptr, rsize, buf, results>>
    BY <1>7 DEF Written, readerVars
  <2>3. WriterRun' /\ WPos' = WPos
    <3>1. DataSize[wpdu] \in Nat /\ wpart \in Part /\ wpdu \in Nat
      BY <2>1, Sizes DEF DataType, WriterType, Index
    <3>2. CASE /\ wpart = "head" /\ DataSize[wpdu] > 0
               /\ wpart' = "data" /\ wleft' = DataSize[wpdu] /\ wptr' = 0 /\ wpdu' = wpdu
      BY <2>1, <3>1, <3>2, Sizes DEF WriterRun, WPos, Size, At
    <3>3. CASE /\ wpart = "data" \/ DataSize[wpdu] = 0
               /\ wpart' = "head" /\ wleft' = HeadSize /\ wptr' = 0 /\ wpdu' = wpdu + 1
      <4>1. WriterRun'
        BY <3>3, Sizes DEF WriterRun, Size
      <4>2. WPos' = <<wpdu + 1, "head", 0>>
        BY <3>3, Sizes DEF WPos, Size, At
      <4>3. WPos = <<wpdu + 1, "head", 0>>
        BY <2>1, <3>1, <3>3, Sizes DEF WPos, Size, At, Part
      <4> QED BY <4>1, <4>2, <4>3
    <3> QED BY <1>7, <3>2, <3>3 DEF Written
  <2>4. ReaderRun' /\ RPos' = RPos
    BY <1>4, <2>1, <2>2, ReaderRests
  <2>5. Run'
    BY <1>4, <2>1, <2>2, <2>3, <2>4 DEF Run, Succ, At, Size
  <2> QED BY <2>3, <2>4, <2>5 DEF InStep, ReaderRun
<1>8. CASE Close \/ UNCHANGED vars
  <2>1. /\ UNCHANGED <<wpdu, wpart, wleft, wptr, stream, rpart, rleft, rptr, rsize, buf, results>>
        /\ closed => closed'
    BY <1>8 DEF Close, vars, readerVars, writerVars
  <2>2. WriterRun' /\ WPos' = WPos
    BY <1>5, <2>1
  <2>3. CASE InStep
    <3>1. ReaderRun' /\ RPos' = RPos
      BY <1>4, <2>1, <2>3, ReaderRests
    <3>2. Run'
      BY <1>4, <2>1, <2>2, <2>3, <3>1 DEF Run, Succ, At, Size
    <3> QED BY <2>2, <3>1, <3>2 DEF InStep, ReaderRun
  <2>4. CASE Over
    BY <2>1, <2>2, <2>4 DEF Over, Good
  <2> QED BY <1>3, <2>3, <2>4
<1>9. CASE ReadPdu
  <2>1. /\ UNCHANGED <<wpdu, wpart, wleft, wptr, closed, stream, results, rsize>>
        /\ rpart = "out" /\ rpart' = "head" /\ rleft' = HeadSize /\ rptr' = 0
    BY <1>9 DEF ReadPdu, writerVars
  <2>2. WriterRun' /\ WPos' = WPos
    BY <1>5, <2>1
  <2>3. CASE InStep
    <3>1. RPos' = RPos /\ Turn' = Turn
      BY <2>1, Sizes DEF RPos, Turn, At, Size, Part
    <3>2. Run'
      BY <1>4, <2>1, <2>2, <2>3, <3>1 DEF Run, Succ, At, Size
    <3>3. (\A n \in 1..Len(results) : Good(n))'
      BY <2>1, <2>3 DEF InStep, Good
    <3>4. Stores("head", rptr)'
      BY <2>1 DEF Stores
    <3> QED BY <2>1, <2>2, <3>2, <3>3, <3>4, Sizes DEF InStep
  <2>4. CASE Over
    BY <2>1, <2>2, <2>4 DEF Over, Good
  <2> QED BY <1>3, <2>3, <2>4
<1>10. ASSUME NEW k \in 1..Room, Read(k) PROVE WriterRun' /\ (InStep' \/ Over')
  <2>1. k \in 1..Len(stream)
    BY <1>10, ReadStream
  <2>2. InStep
    BY <1>3, <2>1 DEF Over
  <2> QED BY <1>3, <1>4, <1>10, <2>2, ReadRun
<1>11. CASE HeadRead
  <2>1. rpart = "head" /\ UNCHANGED <<writerVars, stream>>
    BY <1>11, HeadCases
  <2>2. WriterRun'
    BY <1>5, <2>1 DEF writerVars
  <2>3. CASE InStep
    BY <1>4, <1>11, <2>2, <2>3, HeadRun
  <2>4. CASE Over
    <3>1. HeadSize - rleft = 0 /\ Signed(0) = 0 /\ HeadSize # 0
      BY <2>1, <2>4, Sizes, Fits DEF Over
    <3>2. Return(0)
      BY <1>11, <3>1, HeadCases
    <3>3. closed /\ stream = <<>> /\ 0 \in Int
          /\ \A m \in 1..Len(results) :
                Good(m) \/ \A l \in 1..Len(results) : l > m => results[l].ret = 0
      BY <2>4 DEF Over
    <3>4. Over'
      BY <2>1, <3>2, <3>3, ReturnOver
    <3> QED BY <2>2, <3>4
  <2> QED BY <1>3, <2>3, <2>4
<1>12. CASE DataRead
  <2>1. rpart = "data" /\ UNCHANGED <<writerVars, stream>>
    BY <1>12, DataCases
  <2>2. WriterRun'
    BY <1>5, <2>1 DEF writerVars
  <2>3. InStep
    BY <1>3, <2>1 DEF Over
  <2> QED BY <1>4, <1>12, <2>2, <2>3, DataRun
<1> QED BY <1>1, <1>6, <1>7, <1>8, <1>9, <1>10, <1>11, <1>12
        DEF Next, WriterStep, ReaderStep

LEMMA InitUndisturbed == Init => Undisturbed
<1> SUFFICES ASSUME Init PROVE Undisturbed
  OBVIOUS
<1>1. /\ wpdu = 1 /\ wpart = "head" /\ wleft = HeadSize /\ wptr = 0 /\ stream = <<>>
      /\ rpart = "out" /\ results = <<>> /\ Len(results) = 0 /\ Len(stream) = 0
  BY DEF Init
<1>2. wptr \in Nat /\ wleft + wptr = Size(wpdu, wpart)
  BY <1>1, Sizes DEF Size
<1>3. Turn = 1 /\ WPos = <<1, "head", 0>> /\ RPos = <<1, "head", 0>>
  BY <1>1, Sizes DEF Turn, WPos, RPos, At, Size, Part
<1>4. InStep
  BY <1>1, <1>3 DEF InStep, Run, Part
<1> QED BY <1>2, <1>4 DEF Undisturbed

-----------------------------------------------------------------------------
(* Theorems.                                                               *)

\* In every state, the bytes from the reader's results through its buffer and the
\* socket to the writer's place are in the order send_pdu() sent them; as long as
\* no call of read() or write() is interrupted they are one run without a gap.
THEOREM Invariance == Spec => []IInv
<1>1. Init => IInv
  BY InitType, InitOrder, InitUndisturbed DEF IInv
<1>2. IInv /\ [Next]_vars => IInv'
  BY TypeStep, OrderStep, UndisturbedStep DEF IInv
<1> QED BY <1>1, <1>2, PTL DEF Spec

\* read_pdu() hands over whole PDUs each once and in the order they were sent,
\* however the socket cuts the bytes and whatever calls signals interrupt; without
\* interruptions it misses none before the end of the file.
THEOREM FramedSafety == Spec => []Framed
<1>1. IInv => Framed
  <2> SUFFICES ASSUME IInv PROVE Framed
    OBVIOUS
  <2>1. DOMAIN results = 1..Len(results) /\ Len(results) \in Nat
    BY DEF IInv, DataType, ReaderType
  <2>2. \A i, j \in DOMAIN results :
           i < j => \A p \in results[i].pdu, q \in results[j].pdu : p < q
    BY <2>1 DEF IInv, Order, ResultOrder
  <2>3. ASSUME intrs = 0, NEW i \in DOMAIN results
        PROVE  Good(i) \/ (closed /\ \A j \in DOMAIN results : j > i => results[j].ret = 0)
    <3>1. InStep \/ Over
      BY <2>3 DEF IInv, Undisturbed
    <3>2. CASE InStep
      BY <2>1, <3>2 DEF InStep
    <3>3. CASE Over
      BY <2>1, <3>3 DEF Over
    <3> QED BY <3>1, <3>2, <3>3
  <2> QED BY <2>2, <2>3 DEF Framed, Good
<1> QED BY <1>1, Invariance, PTL
=============================================================================
