--------------------------- MODULE AfXdpRxProofs ----------------------------
(***************************************************************************)
(* Proofs for AfXdpRx, for every number of RX chunks: the rings hold RX    *)
(* chunks only, the abort in tryReceive() is unreachable, no chunk is lost *)
(* or duplicated, and the receive half implements RxRing.                  *)
(***************************************************************************)
EXTENDS AfXdpRx, SequenceTheorems, TLAPS

\* The inductive invariant: the three places a chunk can be in share NumRxFrames
\* entries, and the chunk in hand is the oldest entry of the RX ring.
IInv ==
  /\ TypeOK
  /\ Len(fill) + Len(posted) + Len(rx) = NumRxFrames
  /\ inHand => rx # << >> /\ pendingRx = Head(rx)

\* Moving the head of one sequence to the end of another moves one entry.
LEMMA MoveHead ==
  ASSUME NEW S, NEW s \in Seq(S), NEW t \in Seq(S), s # << >>
  PROVE  /\ Head(s) \in S /\ Tail(s) \in Seq(S) /\ Append(t, Head(s)) \in Seq(S)
         /\ Len(s) \in Nat /\ Len(t) \in Nat /\ Len(s) > 0
         /\ Len(Tail(s)) = Len(s) - 1
         /\ Len(Append(t, Head(s))) = Len(t) + 1
  <1>1. Head(s) \in S /\ Tail(s) \in Seq(S) /\ Len(Tail(s)) = Len(s) - 1  BY HeadTailProperties
  <1>2. Append(t, Head(s)) \in Seq(S) /\ Len(Append(t, Head(s))) = Len(t) + 1
    BY <1>1, AppendProperties
  <1>3. Len(s) \in Nat /\ Len(t) \in Nat /\ Len(s) # 0  BY LenProperties, EmptySeq
  <1> QED  BY <1>1, <1>2, <1>3

\* One entry moved from one place to another leaves the total.
LEMMA OneMoved ==
  ASSUME NEW a \in Nat, NEW b \in Nat, NEW c \in Nat, NEW n \in Nat, a + b + c = n
  PROVE  (a - 1) + (b + 1) + c = n /\ a + (b - 1) + (c + 1) = n /\ (a + 1) + b + (c - 1) = n
  OBVIOUS

\* Initially every chunk is on the FILL ring.
LEMMA InitIInv == Init => IInv
  <1> SUFFICES ASSUME Init PROVE IInv  OBVIOUS
  <1>1. NumRxFrames \in Nat /\ NumTxFrames \in Nat  BY UmemAssumption
  <1>2. \A i \in 1 .. NumRxFrames : NumTxFrames + i - 1 \in RxChunks  BY <1>1 DEF RxChunks
  <1>3. fill \in Seq(RxChunks) /\ Len(fill) = NumRxFrames  BY <1>1, <1>2 DEF Init
  <1>4. posted \in Seq(RxChunks) /\ rx \in Seq(RxChunks) /\ Len(posted) = 0 /\ Len(rx) = 0
    BY DEF Init
  <1>5. TypeOK  BY <1>3, <1>4 DEF Init, TypeOK
  <1> QED  BY <1>1, <1>3, <1>4, <1>5 DEF IInv, Init

\* Every step moves whole chunks.
LEMMA StepIInv == IInv /\ [Next]_vars => IInv'
  <1> SUFFICES ASSUME IInv, [Next]_vars PROVE IInv'  OBVIOUS
  <1>0. /\ TypeOK /\ NumRxFrames \in Nat /\ fill \in Seq(RxChunks) /\ posted \in Seq(RxChunks)
        /\ rx \in Seq(RxChunks) /\ Len(fill) \in Nat /\ Len(posted) \in Nat /\ Len(rx) \in Nat
    BY UmemAssumption DEF IInv, TypeOK
  <1>00. Len(fill) + Len(posted) + Len(rx) = NumRxFrames  BY DEF IInv
  <1>1. CASE Post
    <2>1. /\ fill' \in Seq(RxChunks) /\ posted' \in Seq(RxChunks)
          /\ Len(fill') = Len(fill) - 1 /\ Len(posted') = Len(posted) + 1
      BY <1>0, <1>1, MoveHead DEF Post
    <2>2. TypeOK'  BY <1>0, <1>1, <2>1 DEF Post, TypeOK
    <2>3. Len(fill') + Len(posted') + Len(rx') = NumRxFrames
      <3>1. Len(rx') = Len(rx)  BY <1>1 DEF Post
      <3>2. Len(fill) \in Nat /\ Len(posted) \in Nat /\ Len(rx) \in Nat /\ NumRxFrames \in Nat
        BY <1>0
      <3>3. (Len(fill) - 1) + (Len(posted) + 1) + Len(rx) = NumRxFrames
        BY <1>00, <3>2, OneMoved
      <3> QED  BY <2>1, <3>1, <3>3, Zenon
    <2>4. inHand' => rx' # << >> /\ pendingRx' = Head(rx')  BY <1>1 DEF Post, IInv
    <2> QED  BY <2>2, <2>3, <2>4 DEF IInv
  <1>2. CASE Store
    <2>1. /\ posted' \in Seq(RxChunks) /\ rx' \in Seq(RxChunks) /\ Head(posted) \in RxChunks
          /\ Len(posted') = Len(posted) - 1 /\ Len(rx') = Len(rx) + 1
      BY <1>0, <1>2, MoveHead DEF Store
    <2>2. arrived' \in Nat /\ chunk' \in [RxChunks -> Nat]
      BY <1>0, <1>2, <2>1 DEF Store, TypeOK
    <2>3. TypeOK'  BY <1>0, <1>2, <2>1, <2>2 DEF Store, TypeOK
    <2>4. rx # << >> => rx' # << >> /\ Head(rx') = Head(rx)
      <3> SUFFICES ASSUME rx # << >> PROVE rx' # << >> /\ Head(rx') = Head(rx)  OBVIOUS
      <3>1. Len(rx) > 0  BY <1>0, EmptySeq
      <3>2. rx'[1] = rx[1]  BY <1>0, <1>2, <2>1, <3>1, AppendProperties DEF Store
      <3>3. rx' # << >>  BY <1>0, <2>1, EmptySeq
      <3> QED  BY <1>0, <2>1, <3>2, <3>3, HeadTailProperties
    <2>5. Len(fill') + Len(posted') + Len(rx') = NumRxFrames
      <3>1. Len(fill') = Len(fill)  BY <1>2 DEF Store
      <3>2. Len(fill) \in Nat /\ Len(posted) \in Nat /\ Len(rx) \in Nat /\ NumRxFrames \in Nat
        BY <1>0
      <3>3. Len(fill) + (Len(posted) - 1) + (Len(rx) + 1) = NumRxFrames
        BY <1>00, <3>2, OneMoved
      <3> QED  BY <2>1, <3>1, <3>3, Zenon
    <2>6. inHand' => rx' # << >> /\ pendingRx' = Head(rx')  BY <1>2, <2>4 DEF Store, IInv
    <2> QED  BY <2>3, <2>5, <2>6 DEF IInv
  <1>3. CASE Drop
    <2>1. arrived' \in Nat  BY <1>0, <1>3 DEF Drop, TypeOK
    <2>2. TypeOK'  BY <1>0, <1>3, <2>1 DEF Drop, TypeOK
    <2> QED  BY <1>0, <1>3, <2>2 DEF Drop, IInv
  <1>4. CASE TryReceive
    <2>1. Head(rx) \in RxChunks  BY <1>0, <1>4, HeadTailProperties DEF TryReceive
    <2>2. TypeOK'  BY <1>0, <1>4, <2>1 DEF TryReceive, TypeOK
    <2> QED  BY <1>0, <1>4, <2>2 DEF TryReceive, IInv
  <1>5. CASE Release
    <2>1. rx # << >> /\ pendingRx = Head(rx)  BY <1>5 DEF Release, IInv
    <2>2. /\ fill' \in Seq(RxChunks) /\ rx' \in Seq(RxChunks)
          /\ Len(fill') = Len(fill) + 1 /\ Len(rx') = Len(rx) - 1
      BY <1>0, <1>5, <2>1, MoveHead DEF Release
    <2>3. TypeOK'  BY <1>0, <1>5, <2>2 DEF Release, TypeOK
    <2>4. Len(fill') + Len(posted') + Len(rx') = NumRxFrames
      <3>1. Len(posted') = Len(posted)  BY <1>5 DEF Release
      <3>2. Len(fill) \in Nat /\ Len(posted) \in Nat /\ Len(rx) \in Nat /\ NumRxFrames \in Nat
        BY <1>0
      <3>3. (Len(fill) + 1) + Len(posted) + (Len(rx) - 1) = NumRxFrames
        BY <1>00, <3>2, OneMoved
      <3> QED  BY <2>2, <3>1, <3>3, Zenon
    <2>5. ~inHand'  BY <1>5 DEF Release
    <2> QED  BY <2>3, <2>4, <2>5 DEF IInv
  <1>6. CASE TryReceiveEmpty \/ UNCHANGED vars
    <2>1. TypeOK'  BY <1>0, <1>6 DEF TryReceiveEmpty, TypeOK, vars
    <2> QED  BY <1>6, <2>1 DEF TryReceiveEmpty, IInv, vars
  <1> QED  BY <1>1, <1>2, <1>3, <1>4, <1>5, <1>6 DEF Next

\* The rings never hold an address outside the RX chunks: RX and TX share no chunk.
THEOREM TypeCorrect == Spec => []TypeOK
  <1>1. IInv => TypeOK  BY DEF IInv
  <1> QED  BY <1>1, InitIInv, StepIInv, PTL DEF Spec

\* The FILL reservation in tryReceive() always succeeds: its abort is unreachable.
THEOREM FillReserveSucceeds == Spec => []FillNeverFull
  <1>1. IInv => FillNeverFull
    <2> SUFFICES ASSUME IInv PROVE Len(fill) < FillSize \/ rx = << >>  BY DEF FillNeverFull
    <2>1. /\ Len(fill) \in Nat /\ Len(posted) \in Nat /\ Len(rx) \in Nat /\ NumRxFrames \in Nat
          /\ Len(fill) + Len(posted) + Len(rx) = NumRxFrames
          /\ rx \in Seq(RxChunks)
      BY UmemAssumption DEF IInv, TypeOK
    <2>2. rx # << >> => Len(rx) # 0  BY <2>1, EmptySeq
    <2> QED  BY <2>1, <2>2 DEF FillSize
  <1> QED  BY <1>1, InitIInv, StepIInv, PTL DEF Spec

-----------------------------------------------------------------------------

Distinct(s) == \A i, j \in 1 .. Len(s) : i # j => s[i] # s[j]

Apart(s, t) == \A i \in 1 .. Len(s), j \in 1 .. Len(t) : s[i] # t[j]

Has(s, c) == \E i \in 1 .. Len(s) : s[i] = c

\* No chunk is at two places of the three rings.
RingsInv ==
  /\ Distinct(fill) /\ Distinct(posted) /\ Distinct(rx)
  /\ Apart(fill, posted) /\ Apart(posted, rx) /\ Apart(rx, fill)

\* Every chunk is somewhere.
CoverInv == \A c \in RxChunks : Has(fill, c) \/ Has(posted, c) \/ Has(rx, c)

\* A chunk on the RX ring holds a frame that arrived.
FrameInv == \A i \in 1 .. Len(rx) : chunk[rx[i]] \in 1 .. arrived

\* Inductive together with IInv: what the refinement needs of the chunks.
ChunkInv == RingsInv /\ CoverInv /\ FrameInv

\* What is where after the head of one sequence has moved to the end of another.
LEMMA MovedEntries ==
  ASSUME NEW S, NEW s \in Seq(S), NEW t \in Seq(S), s # << >>
  PROVE  /\ Len(s) \in Nat /\ Len(t) \in Nat /\ Len(s) > 0 /\ Head(s) = s[1]
         /\ Len(Tail(s)) = Len(s) - 1 /\ Len(Append(t, Head(s))) = Len(t) + 1
         /\ \A i \in 1 .. Len(s) - 1 : Tail(s)[i] = s[i + 1]
         /\ \A i \in 1 .. Len(t) : Append(t, Head(s))[i] = t[i]
         /\ Append(t, Head(s))[Len(t) + 1] = s[1]
  <1>1. Len(s) \in Nat /\ Len(t) \in Nat /\ Len(s) > 0
        /\ Len(Tail(s)) = Len(s) - 1 /\ Len(Append(t, Head(s))) = Len(t) + 1
    BY MoveHead
  <1>2. Head(s) = s[1]  BY HeadTailProperties
  <1>3. \A i \in 1 .. Len(s) - 1 : Tail(s)[i] = s[i + 1]  BY <1>1, HeadTailProperties
  <1>4. Head(s) \in S  BY HeadTailProperties
  <1>5. /\ \A i \in 1 .. Len(t) : Append(t, Head(s))[i] = t[i]
        /\ Append(t, Head(s))[Len(t) + 1] = s[1]
    BY <1>2, <1>4, AppendProperties
  <1> QED  BY <1>1, <1>2, <1>3, <1>5

\* The move keeps the entries of three rings apart.
LEMMA MoveApart ==
  ASSUME NEW S, NEW s \in Seq(S), NEW t \in Seq(S), NEW u \in Seq(S), s # << >>,
         Distinct(s), Distinct(t), Apart(s, t), Apart(t, u), Apart(u, s)
  PROVE  /\ Distinct(Tail(s)) /\ Distinct(Append(t, Head(s)))
         /\ Apart(Tail(s), Append(t, Head(s))) /\ Apart(Append(t, Head(s)), u)
         /\ Apart(u, Tail(s))
  <1> DEFINE a == Tail(s)  b == Append(t, Head(s))
  <1>1. /\ Len(s) \in Nat /\ Len(t) \in Nat /\ Len(s) > 0
        /\ Len(a) = Len(s) - 1 /\ Len(b) = Len(t) + 1
        /\ \A i \in 1 .. Len(s) - 1 : a[i] = s[i + 1]
        /\ \A i \in 1 .. Len(t) : b[i] = t[i]
        /\ b[Len(t) + 1] = s[1]
    BY MovedEntries
  <1>2. Len(u) \in Nat  OBVIOUS
  <1> HIDE DEF a, b
  <1>3. Distinct(a)
    <2> SUFFICES ASSUME NEW i \in 1 .. Len(a), NEW j \in 1 .. Len(a), i # j PROVE a[i] # a[j]
      BY DEF Distinct
    <2>1. /\ i \in 1 .. Len(s) - 1 /\ j \in 1 .. Len(s) - 1
          /\ i + 1 \in 1 .. Len(s) /\ j + 1 \in 1 .. Len(s) /\ i + 1 # j + 1
      BY <1>1
    <2>2. s[i + 1] # s[j + 1]  BY <2>1 DEF Distinct
    <2> QED  BY <1>1, <2>1, <2>2
  <1>4. Distinct(b)
    <2> SUFFICES ASSUME NEW i \in 1 .. Len(b), NEW j \in 1 .. Len(b), i # j PROVE b[i] # b[j]
      BY DEF Distinct
    <2>1. CASE i \in 1 .. Len(t) /\ j \in 1 .. Len(t)  BY <1>1, <2>1 DEF Distinct
    <2>2. CASE i = Len(t) + 1  BY <1>1, <2>2 DEF Apart
    <2>3. CASE j = Len(t) + 1  BY <1>1, <2>3 DEF Apart
    <2> QED  BY <1>1, <2>1, <2>2, <2>3
  <1>5. Apart(a, b)
    <2> SUFFICES ASSUME NEW i \in 1 .. Len(a), NEW j \in 1 .. Len(b) PROVE a[i] # b[j]
      BY DEF Apart
    <2>1. a[i] = s[i + 1] /\ i + 1 \in 1 .. Len(s) /\ i + 1 # 1  BY <1>1
    <2>2. CASE j \in 1 .. Len(t)  BY <1>1, <2>1, <2>2 DEF Apart
    <2>3. CASE j = Len(t) + 1  BY <1>1, <2>1, <2>3 DEF Distinct
    <2> QED  BY <1>1, <2>2, <2>3
  <1>6. Apart(b, u)
    <2> SUFFICES ASSUME NEW i \in 1 .. Len(b), NEW j \in 1 .. Len(u) PROVE b[i] # u[j]
      BY DEF Apart
    <2>1. CASE i \in 1 .. Len(t)  BY <1>1, <2>1 DEF Apart
    <2>2. CASE i = Len(t) + 1  BY <1>1, <2>2 DEF Apart
    <2> QED  BY <1>1, <2>1, <2>2
  <1>7. Apart(u, a)  BY <1>1, <1>2 DEF Apart
  <1> QED  BY <1>3, <1>4, <1>5, <1>6, <1>7 DEF a, b

\* The move loses no entry.
LEMMA MoveCovers ==
  ASSUME NEW S, NEW s \in Seq(S), NEW t \in Seq(S), s # << >>, NEW c,
         Has(s, c) \/ Has(t, c)
  PROVE  Has(Tail(s), c) \/ Has(Append(t, Head(s)), c)
  <1> DEFINE a == Tail(s)  b == Append(t, Head(s))
  <1>1. /\ Len(s) \in Nat /\ Len(t) \in Nat /\ Len(s) > 0
        /\ Len(a) = Len(s) - 1 /\ Len(b) = Len(t) + 1
        /\ \A i \in 1 .. Len(s) - 1 : a[i] = s[i + 1]
        /\ \A i \in 1 .. Len(t) : b[i] = t[i]
        /\ b[Len(t) + 1] = s[1]
    BY MovedEntries
  <1> HIDE DEF a, b
  <1>2. CASE Has(t, c)  BY <1>1, <1>2 DEF Has
  <1>3. CASE Has(s, c)
    <2>1. PICK i \in 1 .. Len(s) : s[i] = c  BY <1>3 DEF Has
    <2>2. CASE i = 1
      <3>1. Len(t) + 1 \in 1 .. Len(b) /\ b[Len(t) + 1] = c  BY <1>1, <2>1, <2>2
      <3> QED  BY <3>1 DEF Has, b
    <2>3. CASE i # 1
      <3>1. i - 1 \in 1 .. Len(a) /\ a[i - 1] = s[(i - 1) + 1] /\ (i - 1) + 1 = i
        BY <1>1, <2>1, <2>3
      <3> QED  BY <2>1, <3>1 DEF Has, a
    <2> QED  BY <2>2, <2>3
  <1> QED  BY <1>2, <1>3 DEF b

LEMMA InitChunkInv == Init => ChunkInv
  <1> SUFFICES ASSUME Init PROVE ChunkInv  OBVIOUS
  <1>1. NumRxFrames \in Nat /\ NumTxFrames \in Nat  BY UmemAssumption
  <1>2. /\ Len(fill) = NumRxFrames /\ Len(posted) = 0 /\ Len(rx) = 0
        /\ \A i \in 1 .. NumRxFrames : fill[i] = NumTxFrames + i - 1
    BY <1>1 DEF Init
  <1>3. RingsInv  BY <1>1, <1>2 DEF RingsInv, Distinct, Apart
  <1>4. CoverInv
    <2> SUFFICES ASSUME NEW c \in RxChunks PROVE Has(fill, c)  BY DEF CoverInv
    <2>1. c - NumTxFrames + 1 \in 1 .. NumRxFrames /\ fill[c - NumTxFrames + 1] = c
      BY <1>1, <1>2 DEF RxChunks
    <2> QED  BY <1>2, <2>1 DEF Has
  <1>5. FrameInv  BY <1>2 DEF FrameInv
  <1> QED  BY <1>3, <1>4, <1>5 DEF ChunkInv

\* Every step moves a chunk from the head of a ring to the tail of the next, and the
\* NIC writes only the chunk it moves to the RX ring.
LEMMA StepChunkInv == IInv /\ ChunkInv /\ [Next]_vars => ChunkInv'
  <1> SUFFICES ASSUME IInv, ChunkInv, [Next]_vars PROVE ChunkInv'  OBVIOUS
  <1>0. /\ fill \in Seq(RxChunks) /\ posted \in Seq(RxChunks) /\ rx \in Seq(RxChunks)
        /\ chunk \in [RxChunks -> Nat] /\ arrived \in Nat
        /\ RingsInv /\ CoverInv /\ FrameInv
    BY DEF IInv, TypeOK, ChunkInv
  <1>1. CASE Post
    <2>1. RingsInv'  BY <1>0, <1>1, MoveApart DEF Post, RingsInv
    <2>2. CoverInv'  BY <1>0, <1>1, MoveCovers DEF Post, CoverInv
    <2>3. FrameInv'  BY <1>0, <1>1 DEF Post, FrameInv
    <2> QED  BY <2>1, <2>2, <2>3 DEF ChunkInv
  <1>2. CASE Store
    <2>1. RingsInv'  BY <1>0, <1>2, MoveApart DEF Store, RingsInv
    <2>2. CoverInv'  BY <1>0, <1>2, MoveCovers DEF Store, CoverInv
    <2>3. /\ Len(posted) \in Nat /\ Len(rx) \in Nat /\ Len(posted) > 0
          /\ Head(posted) = posted[1]
          /\ Len(rx') = Len(rx) + 1
          /\ \A i \in 1 .. Len(rx) : rx'[i] = rx[i]
          /\ rx'[Len(rx) + 1] = posted[1]
      BY <1>0, <1>2, MovedEntries DEF Store
    <2>4. posted[1] \in RxChunks  BY <1>0, <2>3
    <2>5. /\ arrived' = arrived + 1
          /\ chunk'[posted[1]] = arrived + 1
          /\ \A c \in RxChunks : c # posted[1] => chunk'[c] = chunk[c]
      BY <1>0, <1>2, <2>3, <2>4 DEF Store
    <2>6. FrameInv'
      <3> SUFFICES ASSUME NEW i \in 1 .. Len(rx') PROVE chunk'[rx'[i]] \in 1 .. arrived'
        BY DEF FrameInv
      <3>1. CASE i \in 1 .. Len(rx)
        <4>1. rx[i] \in RxChunks /\ rx[i] # posted[1]
          BY <1>0, <2>3, <3>1 DEF RingsInv, Apart
        <4>2. chunk'[rx'[i]] = chunk[rx[i]]  BY <2>3, <2>5, <3>1, <4>1
        <4>3. chunk[rx[i]] \in 1 .. arrived  BY <1>0, <3>1 DEF FrameInv
        <4> QED  BY <1>0, <2>5, <4>2, <4>3
      <3>2. CASE i = Len(rx) + 1  BY <1>0, <2>3, <2>5, <3>2
      <3> QED  BY <2>3, <3>1, <3>2
    <2> QED  BY <2>1, <2>2, <2>6 DEF ChunkInv
  <1>3. CASE Drop
    <2>1. RingsInv'  BY <1>0, <1>3 DEF Drop, RingsInv
    <2>2. CoverInv'  BY <1>0, <1>3 DEF Drop, CoverInv
    <2>3. FrameInv'  BY <1>0, <1>3 DEF Drop, FrameInv
    <2> QED  BY <2>1, <2>2, <2>3 DEF ChunkInv
  <1>4. CASE TryReceive
    BY <1>0, <1>4 DEF TryReceive, ChunkInv, RingsInv, CoverInv, FrameInv
  <1>5. CASE Release
    <2>1. rx # << >> /\ pendingRx = Head(rx)  BY <1>5 DEF Release, IInv
    <2>2. RingsInv'  BY <1>0, <1>5, <2>1, MoveApart DEF Release, RingsInv
    <2>3. CoverInv'  BY <1>0, <1>5, <2>1, MoveCovers DEF Release, CoverInv
    <2>4. /\ Len(rx) \in Nat /\ Len(rx') = Len(rx) - 1
          /\ \A i \in 1 .. Len(rx) - 1 : rx'[i] = rx[i + 1]
      BY <1>0, <1>5, <2>1, MovedEntries DEF Release
    <2>5. FrameInv'  BY <1>0, <1>5, <2>4 DEF Release, FrameInv
    <2> QED  BY <2>2, <2>3, <2>5 DEF ChunkInv
  <1>6. CASE TryReceiveEmpty \/ UNCHANGED vars
    BY <1>0, <1>6 DEF TryReceiveEmpty, vars, ChunkInv, RingsInv, CoverInv, FrameInv
  <1> QED  BY <1>1, <1>2, <1>3, <1>4, <1>5, <1>6 DEF Next

LEMMA Invariant == Spec => [](IInv /\ ChunkInv)
  <1>1. IInv /\ ChunkInv /\ [Next]_vars => (IInv /\ ChunkInv)'  BY StepIInv, StepChunkInv
  <1> QED  BY <1>1, InitIInv, InitChunkInv, PTL DEF Spec

\* No RX chunk is lost or duplicated by xskPopulateFillRing(), tryReceive() and
\* release(), for every number of chunks and every pace of the driver.
THEOREM ChunksKept == Spec => []ChunksConserved
  <1>1. IInv /\ ChunkInv => ChunksConserved
    <2> SUFFICES ASSUME IInv, ChunkInv PROVE ChunksConserved  OBVIOUS
    <2>1. /\ fill \in Seq(RxChunks) /\ posted \in Seq(RxChunks) /\ rx \in Seq(RxChunks)
          /\ Len(fill) + Len(posted) + Len(rx) = NumRxFrames
      BY DEF IInv, TypeOK
    <2> DEFINE fp == fill \o posted  all == fp \o rx
    <2>2. /\ fp \in Seq(RxChunks) /\ Len(fp) = Len(fill) + Len(posted)
          /\ \A i \in 1 .. Len(fp) :
               fp[i] = IF i <= Len(fill) THEN fill[i] ELSE posted[i - Len(fill)]
      BY <2>1, ConcatProperties
    <2> HIDE DEF fp
    <2>3. /\ Len(all) = Len(fp) + Len(rx)
          /\ \A i \in 1 .. Len(all) :
               all[i] = IF i <= Len(fp) THEN fp[i] ELSE rx[i - Len(fp)]
      <3>1. fp \in Seq(RxChunks) /\ rx \in Seq(RxChunks)  BY <2>1, <2>2
      <3> QED  BY <3>1, ConcatProperties
    <2> HIDE DEF all
    <2>4. Len(fill) \in Nat /\ Len(posted) \in Nat /\ Len(rx) \in Nat  BY <2>1
    <2>5. Len(all) = NumRxFrames  BY <2>1, <2>2, <2>3, <2>4
    <2>6. ASSUME NEW c \in RxChunks PROVE \E i \in 1 .. Len(all) : all[i] = c
      <3>1. CASE Has(fill, c)
        <4>1. PICK i \in 1 .. Len(fill) : fill[i] = c  BY <3>1 DEF Has
        <4>2. i \in 1 .. Len(all) /\ all[i] = c  BY <2>2, <2>3, <2>4, <4>1
        <4> QED  BY <4>2
      <3>2. CASE Has(posted, c)
        <4>1. PICK i \in 1 .. Len(posted) : posted[i] = c  BY <3>2 DEF Has
        <4>2. /\ Len(fill) + i \in 1 .. Len(fp) /\ ~(Len(fill) + i <= Len(fill))
              /\ (Len(fill) + i) - Len(fill) = i
          BY <2>2, <2>4, <4>1
        <4>3. fp[Len(fill) + i] = c  BY <2>2, <4>1, <4>2
        <4>4. Len(fill) + i \in 1 .. Len(all) /\ Len(fill) + i <= Len(fp)
          BY <2>2, <2>3, <2>4, <4>2
        <4>5. all[Len(fill) + i] = c  BY <2>3, <4>3, <4>4
        <4> QED  BY <4>4, <4>5
      <3>3. CASE Has(rx, c)
        <4>1. PICK i \in 1 .. Len(rx) : rx[i] = c  BY <3>3 DEF Has
        <4>2. Len(fp) \in Nat  BY <2>2, <2>4
        <4>3. /\ Len(fp) + i \in 1 .. Len(all) /\ ~(Len(fp) + i <= Len(fp))
              /\ (Len(fp) + i) - Len(fp) = i
          BY <2>3, <2>4, <4>1, <4>2
        <4>4. all[Len(fp) + i] = c  BY <2>3, <4>1, <4>3
        <4> QED  BY <4>3, <4>4
      <3> QED  BY <3>1, <3>2, <3>3 DEF ChunkInv, CoverInv
    <2> QED  BY <2>5, <2>6 DEF ChunksConserved, all, fp
  <1> QED  BY <1>1, Invariant, PTL

\* The tail of an extended sequence is its extended tail.
LEMMA TailOfAppend ==
  ASSUME NEW S, NEW s \in Seq(S), NEW e \in S, s # << >>
  PROVE  Tail(Append(s, e)) = Append(Tail(s), e)
  <1> DEFINE b == Append(s, e)
  <1>1. Len(s) \in Nat /\ Len(s) > 0  BY EmptySeq, LenProperties
  <1>2. /\ b \in Seq(S) /\ Len(b) = Len(s) + 1 /\ b[Len(s) + 1] = e
        /\ \A i \in 1 .. Len(s) : b[i] = s[i]
    BY AppendProperties
  <1>3. b # << >>  BY <1>1, <1>2
  <1>4. /\ Tail(s) \in Seq(S) /\ Len(Tail(s)) = Len(s) - 1
        /\ \A i \in 1 .. Len(s) - 1 : Tail(s)[i] = s[i + 1]
    BY <1>1, HeadTailProperties
  <1>5. /\ Tail(b) \in Seq(S) /\ Len(Tail(b)) = Len(s)
        /\ \A i \in 1 .. Len(s) : Tail(b)[i] = b[i + 1]
    <2> HIDE DEF b
    <2>1. Len(b) - 1 = Len(s)  BY <1>1, <1>2
    <2> QED  BY <1>2, <1>3, <2>1, HeadTailProperties
  <1> DEFINE c == Append(Tail(s), e)
  <1>6. /\ c \in Seq(S) /\ Len(c) = Len(s) /\ c[Len(s)] = e
        /\ \A i \in 1 .. Len(s) - 1 : c[i] = Tail(s)[i]
    <2>1. /\ c \in Seq(S) /\ Len(c) = Len(Tail(s)) + 1 /\ c[Len(Tail(s)) + 1] = e
          /\ \A i \in 1 .. Len(Tail(s)) : c[i] = Tail(s)[i]
      BY <1>4, AppendProperties
    <2>2. Len(Tail(s)) + 1 = Len(s)  BY <1>1, <1>4
    <2> HIDE DEF c
    <2> QED  BY <1>4, <2>1, <2>2
  <1> HIDE DEF b, c
  <1>7. \A i \in 1 .. Len(s) : Tail(b)[i] = c[i]
    <2> SUFFICES ASSUME NEW i \in 1 .. Len(s) PROVE Tail(b)[i] = c[i]  OBVIOUS
    <2>1. CASE i = Len(s)  BY <1>1, <1>2, <1>5, <1>6, <2>1
    <2>2. CASE i \in 1 .. Len(s) - 1
      <3>1. i + 1 \in 1 .. Len(s)  BY <1>1, <2>2
      <3> QED  BY <1>2, <1>4, <1>5, <1>6, <2>2, <3>1
    <2>3. i = Len(s) \/ i \in 1 .. Len(s) - 1  BY <1>1
    <2> QED  BY <2>1, <2>2, <2>3, Zenon
  <1>8. Tail(b) = c  BY <1>5, <1>6, <1>7, SeqEqual
  <1> QED  BY <1>8 DEF b, c

\* The frames on a ring form a sequence of its length.
LEMMA FramesType ==
  ASSUME TypeOK, NEW ring \in Seq(RxChunks)
  PROVE  /\ FramesOf(ring) \in Seq(Nat) /\ Len(FramesOf(ring)) = Len(ring)
         /\ \A i \in 1 .. Len(ring) : FramesOf(ring)[i] = chunk[ring[i]]
  <1>1. Len(ring) \in Nat /\ \A i \in 1 .. Len(ring) : chunk[ring[i]] \in Nat  BY DEF TypeOK
  <1> QED  BY <1>1 DEF FramesOf

\* The chunks whose frames wait.
Waiting == IF inHand THEN Tail(rx) ELSE rx

\* A frame that arrives joins the end of the waiting ones and overwrites none.
LEMMA StoreAppends ==
  ASSUME IInv, ChunkInv, Store, TypeOK'
  PROVE  /\ FramesOf(Waiting)' = Append(FramesOf(Waiting), arrived + 1)
         /\ inHand => chunk'[pendingRx] = chunk[pendingRx]
  <1>0. /\ TypeOK /\ posted \in Seq(RxChunks) /\ rx \in Seq(RxChunks) /\ posted # << >>
        /\ chunk \in [RxChunks -> Nat] /\ arrived \in Nat /\ inHand' = inHand
        /\ inHand => rx # << >> /\ pendingRx = Head(rx)
    BY DEF IInv, TypeOK, Store
  <1> DEFINE h == Head(posted)
  <1>1. h \in RxChunks /\ h = posted[1] /\ Len(posted) \in Nat /\ Len(posted) > 0
    BY <1>0, MovedEntries, HeadTailProperties
  <1>2. /\ rx' = Append(rx, h)
        /\ chunk'[h] = arrived + 1
        /\ \A c \in RxChunks : c # h => chunk'[c] = chunk[c]
    BY <1>0, <1>1 DEF Store
  <1> HIDE DEF h
  <1>3. \A i \in 1 .. Len(rx) : rx[i] \in RxChunks /\ rx[i] # h
    BY <1>0, <1>1 DEF ChunkInv, RingsInv, Apart
  <1>4. inHand => chunk'[pendingRx] = chunk[pendingRx]
    <2> SUFFICES ASSUME inHand PROVE chunk'[pendingRx] = chunk[pendingRx]  OBVIOUS
    <2>1. rx # << >> /\ pendingRx = rx[1] /\ Len(rx) \in Nat /\ Len(rx) > 0
      BY <1>0, MovedEntries
    <2> QED  BY <1>2, <1>3, <2>1
  <1>5. Waiting' = Append(Waiting, h) /\ Waiting \in Seq(RxChunks)
    <2>1. CASE inHand
      <3>1. Tail(rx) \in Seq(RxChunks)  BY <1>0, <2>1, HeadTailProperties
      <3> QED  BY <1>0, <1>1, <1>2, <2>1, <3>1, TailOfAppend DEF Waiting
    <2>2. CASE ~inHand  BY <1>0, <1>2, <2>2 DEF Waiting
    <2> QED  BY <2>1, <2>2
  <1>6. \A i \in 1 .. Len(Waiting) : Waiting[i] \in RxChunks /\ Waiting[i] # h
    <2>1. CASE inHand
      <3>1. Len(rx) \in Nat /\ Len(Tail(rx)) = Len(rx) - 1
            /\ \A i \in 1 .. Len(rx) - 1 : Tail(rx)[i] = rx[i + 1]
        BY <1>0, <2>1, MovedEntries
      <3> QED  BY <1>3, <2>1, <3>1 DEF Waiting
    <2>2. CASE ~inHand  BY <1>3, <2>2 DEF Waiting
    <2> QED  BY <2>1, <2>2
  <1> DEFINE w == Waiting  n == Len(w)  f == FramesOf(w)
  <1>7. /\ n \in Nat /\ f \in Seq(Nat) /\ Len(f) = n
        /\ \A i \in 1 .. n : f[i] = chunk[w[i]]
    BY <1>0, <1>5, FramesType
  <1>8. /\ w' \in Seq(RxChunks) /\ Len(w') = n + 1 /\ w'[n + 1] = h
        /\ \A i \in 1 .. n : w'[i] = w[i]
    BY <1>1, <1>5, AppendProperties
  <1> DEFINE g == FramesOf(w)'
  <1>9. g = [i \in 1 .. Len(w') |-> chunk'[w'[i]]]  BY DEF FramesOf
  <1> DEFINE a == Append(f, arrived + 1)
  <1>10. /\ a \in Seq(Nat) /\ Len(a) = n + 1 /\ a[n + 1] = arrived + 1
         /\ \A i \in 1 .. n : a[i] = f[i]
    BY <1>0, <1>7, AppendProperties
  <1>11. \A i \in 1 .. n + 1 : chunk'[w'[i]] = a[i]
    <2> SUFFICES ASSUME NEW i \in 1 .. n + 1 PROVE chunk'[w'[i]] = a[i]  OBVIOUS
    <2> HIDE DEF a, f, g, n
    <2>1. CASE i = n + 1  BY <1>2, <1>8, <1>10, <2>1
    <2>2. CASE i \in 1 .. n
      <3>1. w[i] \in RxChunks /\ w[i] # h  BY <1>6, <2>2 DEF n
      <3> QED  BY <1>2, <1>7, <1>8, <1>10, <2>2, <3>1
    <2> QED  BY <1>7, <2>1, <2>2
  <1>12. a = [i \in 1 .. n + 1 |-> a[i]]
    <2> HIDE DEF a, f, g, n
    <2> QED  BY <1>10, LenProperties
  <1>13. g = a
    <2> HIDE DEF a, f, g, n
    <2> QED  BY <1>8, <1>9, <1>11, <1>12
  <1> QED  BY <1>4, <1>13

\* The receive half of AF_XDP implements the RxRing concept for every number of chunks:
\* frames come out in the order of their arrival, each at most once, and the bytes
\* tryReceive() returned stay until release().
THEOREM XdpReceivesFaithfully == Spec => ReceivesFaithfully
  <1> DEFINE waiting == FramesOf(Waiting)
             held == IF inHand THEN chunk[pendingRx] ELSE 0
             Step == Abstract!Store \/ Abstract!Drop \/ Abstract!Deliver \/ Abstract!Release
  <1>1. Init => Abstract!RxInit
    <2> SUFFICES ASSUME Init PROVE Abstract!RxInit  OBVIOUS
    <2>1. FramesOf(IF inHand THEN Tail(rx) ELSE rx) = << >>
      <3>1. ~inHand /\ rx = << >> /\ Len(rx) = 0  BY DEF Init
      <3>2. FramesOf(rx) = [i \in 1 .. 0 |-> chunk[rx[i]]]  BY <3>1 DEF FramesOf
      <3> QED  BY <3>1, <3>2
    <2> QED  BY <2>1 DEF Init, Abstract!RxInit
  <1>2. ASSUME IInv, ChunkInv, IInv', [Next]_vars
        PROVE  Step \/ UNCHANGED <<arrived, waiting, held>>
    <2>0. /\ TypeOK /\ TypeOK' /\ rx \in Seq(RxChunks) /\ arrived \in Nat
          /\ inHand => rx # << >> /\ pendingRx = Head(rx)
      BY <1>2 DEF IInv, TypeOK
    <2>00. \A i \in 1 .. Len(rx) : chunk[rx[i]] # 0
      BY <1>2, <2>0 DEF ChunkInv, FrameInv
    <2>1. CASE UNCHANGED <<chunk, rx, inHand, pendingRx, arrived>>
      BY <2>1 DEF FramesOf, Waiting
    <2>2. CASE Store
      <3>1. waiting' = Append(waiting, arrived + 1) /\ (inHand => chunk'[pendingRx] = chunk[pendingRx])
        BY <1>2, <2>0, <2>2, StoreAppends
      <3>2. arrived' = arrived + 1 /\ held' = held  BY <2>2, <3>1 DEF Store
      <3>3. Abstract!Store  BY <3>1, <3>2 DEF Abstract!Store, Waiting
      <3> QED  BY <3>3
    <2>3. CASE Drop
      <3>1. arrived' = arrived + 1 /\ waiting' = waiting /\ held' = held
        BY <2>3 DEF Drop, FramesOf, Waiting
      <3>2. Waiting \in Seq(RxChunks)  BY <2>0, HeadTailProperties DEF Waiting
      <3>3. Len(waiting) \in Nat  BY <2>0, <3>2, FramesType
      <3>4. Abstract!Drop  BY <3>1, <3>3 DEF Abstract!Drop, Waiting
      <3> QED  BY <3>4
    <2>4. CASE TryReceive
      <3>1. /\ rx # << >> /\ ~inHand /\ inHand' /\ pendingRx' = Head(rx)
            /\ UNCHANGED <<chunk, rx, arrived>>
        BY <2>4 DEF TryReceive
      <3>2. /\ Len(rx) \in Nat /\ Len(rx) > 0 /\ Head(rx) = rx[1]
            /\ Tail(rx) \in Seq(RxChunks) /\ Len(Tail(rx)) = Len(rx) - 1
            /\ \A i \in 1 .. Len(rx) - 1 : Tail(rx)[i] = rx[i + 1]
        BY <2>0, <3>1, MovedEntries, HeadTailProperties
      <3> DEFINE f == FramesOf(rx)  g == FramesOf(Tail(rx))
      <3>3. /\ f \in Seq(Nat) /\ Len(f) = Len(rx)
            /\ \A i \in 1 .. Len(rx) : f[i] = chunk[rx[i]]
        BY <2>0, FramesType
      <3>4. /\ g \in Seq(Nat) /\ Len(g) = Len(rx) - 1
            /\ \A i \in 1 .. Len(rx) - 1 : g[i] = chunk[Tail(rx)[i]]
        BY <2>0, <3>2, FramesType
      <3>5. waiting = f /\ waiting' = g /\ held = 0 /\ held' = chunk[rx[1]]
        BY <3>1, <3>2 DEF Waiting, FramesOf
      <3> HIDE DEF f, g
      <3>6. f # << >> /\ Head(f) = chunk[rx[1]]
        BY <3>2, <3>3, HeadTailProperties
      <3>7. g = Tail(f)
        <4>1. /\ Tail(f) \in Seq(Nat) /\ Len(Tail(f)) = Len(rx) - 1
              /\ \A i \in 1 .. Len(rx) - 1 : Tail(f)[i] = f[i + 1]
          BY <3>3, <3>6, HeadTailProperties
        <4>2. ASSUME NEW i \in 1 .. Len(rx) - 1 PROVE Tail(f)[i] = g[i]
          <5>1. i + 1 \in 1 .. Len(rx)  BY <3>2
          <5>2. Tail(f)[i] = chunk[rx[i + 1]]  BY <3>3, <4>1, <5>1
          <5>3. g[i] = chunk[rx[i + 1]]  BY <3>2, <3>4
          <5> QED  BY <5>2, <5>3
        <4> QED  BY <3>4, <4>1, <4>2, SeqEqual
      <3>8. Abstract!Deliver  BY <3>1, <3>5, <3>6, <3>7 DEF Abstract!Deliver, Waiting
      <3> QED  BY <3>8
    <2>5. CASE Release
      <3>1. /\ inHand /\ ~inHand' /\ rx' = Tail(rx) /\ UNCHANGED <<chunk, arrived>>
            /\ rx # << >> /\ pendingRx = Head(rx)
        BY <2>0, <2>5 DEF Release
      <3>2. waiting' = waiting  BY <3>1 DEF Waiting, FramesOf
      <3>3. held # 0 /\ held' = 0
        <4>1. Len(rx) \in Nat /\ Len(rx) > 0 /\ Head(rx) = rx[1]  BY <2>0, <3>1, MovedEntries
        <4> QED  BY <2>00, <3>1, <4>1
      <3>4. Abstract!Release  BY <3>1, <3>2, <3>3 DEF Abstract!Release, Waiting
      <3> QED  BY <3>4
    <2> QED
      BY <1>2, <2>1, <2>2, <2>3, <2>4, <2>5 DEF Next, Post, TryReceiveEmpty, vars
  <1>3. IInv /\ ChunkInv /\ IInv' /\ [Next]_vars
          => [Step]_(<<arrived, FramesOf(IF inHand THEN Tail(rx) ELSE rx), held>>)
    BY <1>2 DEF Waiting
  <1> QED  BY <1>1, <1>3, Invariant, PTL DEF Spec, ReceivesFaithfully, Abstract!RxSpec

=============================================================================
