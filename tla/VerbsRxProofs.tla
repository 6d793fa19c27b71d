--------------------------- MODULE VerbsRxProofs ----------------------------
(***************************************************************************)
(* The owner bit tells old completions from new ones and the NIC never     *)
(* meets a full completion ring, for every depth of the queues and width   *)
(* of the doorbell records, as long as the completion ring is the larger.  *)
(***************************************************************************)
EXTENDS VerbsRx, RingArithmetic, TLAPS

\* The two positions move in lockstep RqDepth apart, except between the two doorbells;
\* the NIC is between them, and the doorbell records are their low bits.
Lockstep ==
    /\ rqHead = cqCi + RqDepth + (IF pc = "cq" THEN 1 ELSE 0)
    /\ cqCi <= produced /\ produced <= rqHead
    /\ pc # "idle" => cqCi < produced
    /\ rqDbrec = rqHead % HeadWidth /\ cqDbrec = cqCi % CiWidth

\* A cell the NIC has yet to write in this lap still has the owner bit of the last one.
StaleCells ==
    \A n \in produced .. produced + CqeCnt - 1 :
        \/ cqe[n % CqeCnt].op = "invalid"
        \/ cqe[n % CqeCnt].owner # OwnerOf(n)

IInv == TypeOK /\ Lockstep /\ StaleCells

\* One lap later a position has the same cell and the other owner bit.
LEMMA NextLap ==
  ASSUME NEW n \in Nat
  PROVE  (n + CqeCnt) % CqeCnt = n % CqeCnt /\ OwnerOf(n + CqeCnt) # OwnerOf(n)
  <1>0. CqeCnt \in Nat /\ CqeCnt > 0  BY VerbsRxAssumption
  <1> DEFINE a == n % CqeCnt  p == n \div CqeCnt
             b == (n + CqeCnt) % CqeCnt  q == (n + CqeCnt) \div CqeCnt
  <1>1. p \in Int /\ a \in 0 .. CqeCnt - 1 /\ n = CqeCnt * p + a  BY <1>0, DivMod
  <1>2. q \in Int /\ b \in 0 .. CqeCnt - 1 /\ n + CqeCnt = CqeCnt * q + b
    <2>1. n + CqeCnt \in Int  BY <1>0
    <2> QED  BY <1>0, <2>1, DivMod
  <1>5. q = p + 1 /\ b = a
    <2> HIDE DEF a, b, p, q
    <2>1. q - p \in Int /\ CqeCnt * (q - p) = CqeCnt * q - CqeCnt * p
          /\ CqeCnt * p \in Int /\ CqeCnt * q \in Int
      BY <1>0, <1>1, <1>2
    <2>2. CqeCnt * (q - p) = CqeCnt + a - b  BY <1>0, <1>1, <1>2, <2>1
    <2>3. CASE q - p >= 2
      <3>1. CqeCnt * (q - p) >= CqeCnt * 2  BY <1>0, <2>1, <2>3
      <3> QED  BY <1>0, <1>1, <1>2, <2>2, <3>1
    <2>4. CASE q - p <= 0
      <3>1. CqeCnt * (q - p) <= 0  BY <1>0, <2>1, <2>4
      <3> QED  BY <1>0, <1>1, <1>2, <2>2, <3>1
    <2>5. CASE q - p = 1  BY <1>0, <1>1, <1>2, <2>2, <2>5
    <2> QED  BY <1>1, <1>2, <2>3, <2>4, <2>5
  <1>6. (p + 1) % 2 # p % 2  BY <1>1
  <1> QED  BY <1>5, <1>6 DEF OwnerOf

\* The distance of two positions, from the low bits of the larger.
LEMMA LowBitsDistance ==
  ASSUME NEW M \in Nat, M > 0, NEW i \in Nat, NEW j \in Nat, j <= i, i - j < M
  PROVE  ((i % M) - j) % M = i - j /\ (i - (j % M)) % M = i - j
  <1> DEFINE a == i % M  p == i \div M  b == j % M  q == j \div M
  <1>1. p \in Int /\ a \in 0 .. M - 1 /\ i = M * p + a  BY DivMod
  <1>2. q \in Int /\ b \in 0 .. M - 1 /\ j = M * q + b  BY DivMod
  <1>3. ASSUME NEW x \in Int, NEW k \in Int, x = M * k + (i - j)
        PROVE  x % M = i - j
    <2> DEFINE c == x % M  r == x \div M
    <2>1. r \in Int /\ c \in 0 .. M - 1 /\ x = M * r + c  BY <1>3, DivMod
    <2> HIDE DEF c, r
    <2>2. r - k \in Int /\ M * (r - k) = M * r - M * k /\ M * r \in Int /\ M * k \in Int
      BY <1>3, <2>1
    <2>3. M * (r - k) = (i - j) - c  BY <1>3, <2>1, <2>2
    <2>4. M * (r - k) \in {-M, 0, M}
      <3>1. -(2 * M) < M * (r - k) /\ M * (r - k) < 2 * M  BY <2>1, <2>3
      <3> QED  BY <2>2, <3>1, SmallMultiple
    <2>5. c = i - j  BY <2>1, <2>3, <2>4
    <2> QED  BY <2>5 DEF c
  <1>4. (a - j) % M = i - j
    <2>1. a - j = M * (-p) + (i - j) /\ a - j \in Int /\ -p \in Int
      <3> HIDE DEF a, p
      <3> QED  BY <1>1
    <2> QED  BY <1>3, <2>1
  <1>5. (i - b) % M = i - j
    <2>1. i - b = M * q + (i - j) /\ i - b \in Int
      <3> HIDE DEF b, q
      <3> QED  BY <1>2
    <2> QED  BY <1>2, <1>3, <2>1
  <1> QED  BY <1>4, <1>5

\* What the NIC reads from the doorbell records is the real distance.
LEMMA Distances ==
  ASSUME TypeOK, Lockstep
  PROVE  /\ Posted <=> produced < rqHead
         /\ CqFull <=> produced - cqCi >= CqeCnt
  <1>0. /\ HeadWidth \in Nat /\ HeadWidth > RqDepth + 1 /\ CiWidth \in Nat
        /\ CiWidth > CqeCnt /\ CqeCnt > RqDepth /\ RqDepth \in Nat /\ RqDepth > 0
        /\ CqeCnt \in Nat
    BY VerbsRxAssumption
  <1>1. produced \in Nat /\ rqHead \in Nat /\ cqCi \in Nat  BY DEF TypeOK
  <1>7. cqCi <= produced /\ produced <= rqHead
        /\ (rqHead = cqCi + RqDepth \/ rqHead = cqCi + RqDepth + 1)
    BY <1>0, <1>1 DEF Lockstep
  <1>2. rqHead - produced < HeadWidth /\ produced - cqCi < CiWidth
    BY <1>0, <1>1, <1>7
  <1>3. ((rqHead % HeadWidth) - produced) % HeadWidth = rqHead - produced
    BY <1>0, <1>1, <1>2, <1>7, LowBitsDistance
  <1>4. (produced - (cqCi % CiWidth)) % CiWidth = produced - cqCi
    BY <1>0, <1>1, <1>2, <1>7, LowBitsDistance
  <1>5. Posted <=> produced < rqHead
    BY <1>1, <1>3, <1>7 DEF Posted, Lockstep
  <1>6. CqFull <=> produced - cqCi >= CqeCnt
    BY <1>0, <1>1, <1>4 DEF CqFull, Lockstep
  <1> QED  BY <1>5, <1>6

\* A completion the owner-bit test accepts has been written by the NIC in this lap.
LEMMA ValidIsNew ==
  ASSUME IInv, Valid
  PROVE  cqCi < produced
  <1>0. CqeCnt \in Nat /\ CqeCnt > 0  BY VerbsRxAssumption
  <1>1. produced \in Nat /\ cqCi \in Nat /\ cqCi <= produced /\ CqeCnt \in Nat /\ CqeCnt > 0
    BY <1>0 DEF IInv, TypeOK, Lockstep
  <1>2. CASE cqCi = produced
    <2>1. produced \in produced .. produced + CqeCnt - 1  BY <1>1
    <2> QED  BY <1>2, <2>1 DEF IInv, StaleCells, Valid, Current
  <1> QED  BY <1>1, <1>2

\* Writing a completion keeps the types, the lockstep and the stale cells.
LEMMA CompleteKeeps ==
  ASSUME IInv, NEW op \in {"send", "error"}, Posted, Complete(op)
  PROVE  /\ Lockstep' /\ StaleCells'
         /\ cqe' \in [0 .. CqeCnt - 1 -> [op : {"invalid", "send", "error"},
                                          owner : {0, 1}, ctr : 0 .. HeadWidth - 1]]
  <1>0. /\ CqeCnt \in Nat /\ CqeCnt > 0 /\ HeadWidth \in Nat /\ HeadWidth > 0
        /\ produced \in Nat /\ rqHead \in Nat /\ cqCi \in Nat
    <2>1. {CqeCnt, HeadWidth} \subseteq Nat \ {0}  BY VerbsRxAssumption
    <2>2. {produced, rqHead, cqCi} \subseteq Nat  BY DEF IInv, TypeOK
    <2> QED  BY <2>1, <2>2
  <1>1. produced < rqHead  BY Distances DEF IInv
  <1>2. Lockstep'  BY <1>0, <1>1 DEF IInv, Lockstep, Complete
  <1>3. produced % CqeCnt \in 0 .. CqeCnt - 1 /\ produced % HeadWidth \in 0 .. HeadWidth - 1
    BY <1>0, DivMod
  <1>4. OwnerOf(produced) \in {0, 1}
    <2>1. produced \div CqeCnt \in Int  BY <1>0, DivMod
    <2> QED  BY <2>1 DEF OwnerOf
  <1>5. cqe' \in [0 .. CqeCnt - 1 -> [op : {"invalid", "send", "error"},
                                      owner : {0, 1}, ctr : 0 .. HeadWidth - 1]]
    BY <1>3, <1>4 DEF IInv, TypeOK, Complete
  <1>6. StaleCells'
    <2> SUFFICES ASSUME NEW n \in produced + 1 .. produced + CqeCnt
                 PROVE  \/ cqe'[n % CqeCnt].op = "invalid"
                        \/ cqe'[n % CqeCnt].owner # OwnerOf(n)
      <3>1. (produced + 1) + CqeCnt - 1 = produced + CqeCnt /\ produced' = produced + 1
        BY <1>0 DEF Complete
      <3> QED  BY <3>1 DEF StaleCells, OwnerOf
    <2>1. n \in Nat /\ n % CqeCnt \in 0 .. CqeCnt - 1  BY <1>0, DivMod
    <2>2. CASE n = produced + CqeCnt
      <3>1. n % CqeCnt = produced % CqeCnt /\ OwnerOf(n) # OwnerOf(produced)
        BY <1>0, <2>2, NextLap
      <3>2. cqe'[n % CqeCnt].owner = OwnerOf(produced)
        BY <1>3, <3>1 DEF Complete, IInv, TypeOK
      <3> QED  BY <3>1, <3>2
    <2>3. CASE n < produced + CqeCnt
      <3>1. produced % CqeCnt # n % CqeCnt
        <4>1. produced < n /\ n - produced < CqeCnt /\ produced \in Int /\ n \in Int
          BY <1>0, <2>1, <2>3
        <4> QED  BY <1>0, <4>1, DistinctCells
      <3>2. cqe'[n % CqeCnt] = cqe[n % CqeCnt]
        BY <2>1, <3>1 DEF Complete, IInv, TypeOK
      <3>3. n \in produced .. produced + CqeCnt - 1  BY <1>0, <2>1, <2>3
      <3> QED  BY <3>2, <3>3 DEF IInv, StaleCells
    <2> QED  BY <1>0, <2>1, <2>2, <2>3
  <1> QED  BY <1>2, <1>5, <1>6

LEMMA GiveBackKeeps ==
  ASSUME IInv, pc # "cq", GiveBack, cqCi < produced
  PROVE  IInv'
  <1>a. {RqDepth, HeadWidth} \subseteq Nat \ {0}  BY VerbsRxAssumption
  <1>b. {produced, rqHead, cqCi} \subseteq Nat  BY DEF IInv, TypeOK
  <1>0. /\ HeadWidth \in Nat /\ HeadWidth > 0 /\ rqHead + 1 \in Int /\ rqHead \in Nat
        /\ produced \in Nat /\ cqCi \in Nat /\ RqDepth \in Nat
    BY <1>a, <1>b
  <1>1. (rqHead + 1) % HeadWidth \in 0 .. HeadWidth - 1  BY <1>0, DivMod
  <1>2. TypeOK'  BY <1>0, <1>1 DEF IInv, TypeOK, GiveBack
  <1>3. Lockstep'  BY <1>0 DEF IInv, Lockstep, GiveBack
  <1>4. StaleCells'  BY DEF IInv, StaleCells, GiveBack, OwnerOf
  <1> QED  BY <1>2, <1>3, <1>4 DEF IInv

LEMMA Inductive == IInv /\ [Next]_vars => IInv'
  <1> SUFFICES ASSUME IInv, [Next]_vars PROVE IInv'  OBVIOUS
  <1>0. /\ {RqDepth, WqeCnt, CqeCnt, HeadWidth, CiWidth} \subseteq Nat \ {0}
        /\ {produced, rqHead, cqCi, arrived, errors} \subseteq Nat
    BY VerbsRxAssumption DEF IInv, TypeOK
  <1>1. CASE Store
    <2>1. /\ Lockstep' /\ StaleCells'
          /\ cqe' \in [0 .. CqeCnt - 1 -> [op : {"invalid", "send", "error"},
                                           owner : {0, 1}, ctr : 0 .. HeadWidth - 1]]
      BY <1>1, CompleteKeeps DEF Store
    <2>2. slot' \in [Slots -> Nat]
      <3>1. arrived + 1 \in Nat  BY <1>0
      <3>2. slot \in [Slots -> Nat]  BY DEF IInv, TypeOK
      <3> QED  BY <1>1, <3>1, <3>2 DEF Store
    <2>3. {produced', rqHead', cqCi', arrived', errors'} \subseteq Nat
      BY <1>0, <1>1 DEF Store, Complete
    <2>4. UNCHANGED <<wqe, rqDbrec, cqDbrec, lastSlot, pc>>
      BY <1>1 DEF Store, Complete
    <2>5. TypeOK'  BY <2>1, <2>2, <2>3, <2>4 DEF IInv, TypeOK
    <2> QED  BY <2>1, <2>5 DEF IInv
  <1>2. CASE StoreError
    <2>1. /\ Lockstep' /\ StaleCells'
          /\ cqe' \in [0 .. CqeCnt - 1 -> [op : {"invalid", "send", "error"},
                                           owner : {0, 1}, ctr : 0 .. HeadWidth - 1]]
      BY <1>2, CompleteKeeps DEF StoreError
    <2>2. {produced', rqHead', cqCi', arrived', errors'} \subseteq Nat
      BY <1>0, <1>2 DEF StoreError, Complete
    <2>3. UNCHANGED <<slot, wqe, rqDbrec, cqDbrec, lastSlot, pc>>
      BY <1>2 DEF StoreError, Complete
    <2>4. TypeOK'  BY <2>1, <2>2, <2>3 DEF IInv, TypeOK
    <2> QED  BY <2>1, <2>4 DEF IInv
  <1>3. CASE Drop
    <2>1. arrived' \in Nat  BY <1>0, <1>3 DEF Drop
    <2>2. UNCHANGED <<slot, wqe, cqe, rqDbrec, cqDbrec, produced, rqHead, cqCi, lastSlot,
                      pc, errors>>
      BY <1>3 DEF Drop
    <2>3. TypeOK'  BY <1>0, <2>1, <2>2 DEF IInv, TypeOK
    <2>4. Lockstep'  BY <2>2 DEF IInv, Lockstep
    <2>5. StaleCells'  BY <2>2 DEF IInv, StaleCells, OwnerOf
    <2> QED  BY <2>3, <2>4, <2>5 DEF IInv
  <1>4. CASE TryReceive
    <2>1. cqCi < produced  BY <1>4, ValidIsNew DEF TryReceive
    <2>2. lastSlot' \in Slots
      <3>1. cqCi % CqeCnt \in 0 .. CqeCnt - 1  BY <1>0, DivMod
      <3>2. Current.ctr \in Nat  BY <1>0, <3>1 DEF Current, IInv, TypeOK
      <3>3. Current.ctr % RqDepth \in 0 .. RqDepth - 1  BY <1>0, <3>2, DivMod
      <3> QED  BY <1>4, <3>3 DEF TryReceive, Slots
    <2>3. TypeOK'  BY <1>4, <2>2 DEF TryReceive, IInv, TypeOK
    <2>4. Lockstep'  BY <1>4, <2>1 DEF TryReceive, IInv, Lockstep
    <2>5. StaleCells'  BY <1>4 DEF TryReceive, IInv, StaleCells, OwnerOf
    <2> QED  BY <2>3, <2>4, <2>5 DEF IInv
  <1>5. CASE TryReceiveError
    <2>1. cqCi < produced  BY <1>5, ValidIsNew DEF TryReceiveError
    <2> QED  BY <1>5, <2>1, GiveBackKeeps DEF TryReceiveError
  <1>6. CASE Release
    <2>1. cqCi < produced  BY <1>6 DEF Release, IInv, Lockstep
    <2> QED  BY <1>6, <2>1, GiveBackKeeps DEF Release
  <1>7. CASE Consume
    <2>0. cqCi + 1 \in Int  BY <1>0
    <2>1. (cqCi + 1) % CiWidth \in 0 .. CiWidth - 1  BY <1>0, <2>0, DivMod
    <2>5. {produced', rqHead', cqCi', arrived', errors'} \subseteq Nat
      BY <1>0, <1>7 DEF Consume
    <2>2. TypeOK'  BY <1>7, <2>1, <2>5 DEF Consume, IInv, TypeOK
    <2>3. Lockstep'  BY <1>0, <1>7 DEF Consume, IInv, Lockstep
    <2>4. StaleCells'  BY <1>7 DEF Consume, IInv, StaleCells, OwnerOf
    <2> QED  BY <2>2, <2>3, <2>4 DEF IInv
  <1>8. CASE PollEmpty \/ UNCHANGED vars
    BY <1>8 DEF PollEmpty, vars, IInv, TypeOK, Lockstep, StaleCells, OwnerOf
  <1> QED
    BY <1>1, <1>2, <1>3, <1>4, <1>5, <1>6, <1>7, <1>8 DEF Next

LEMMA Initial == Init => IInv
  <1> SUFFICES ASSUME Init PROVE IInv  OBVIOUS
  <1>0. {RqDepth, WqeCnt, CqeCnt, HeadWidth, CiWidth} \subseteq Nat \ {0}
    BY VerbsRxAssumption
  <1>1. /\ RqDepth % HeadWidth \in 0 .. HeadWidth - 1
        /\ \A p \in 0 .. WqeCnt - 1 : p % RqDepth \in 0 .. RqDepth - 1
    BY <1>0, DivMod
  <1>2. 0 % CiWidth = 0  BY <1>0, SmallMod
  <1>3. TypeOK  BY <1>0, <1>1 DEF Init, TypeOK, Slots, Prewritten
  <1>4. Lockstep  BY <1>0, <1>2 DEF Init, Lockstep
  <1>5. StaleCells
    <2> SUFFICES ASSUME NEW n \in 0 .. CqeCnt - 1 PROVE cqe[n % CqeCnt].op = "invalid"
      BY <1>0 DEF StaleCells, Init
    <2>1. n % CqeCnt \in 0 .. CqeCnt - 1  BY <1>0, DivMod
    <2> QED  BY <2>1 DEF Init
  <1> QED  BY <1>3, <1>4, <1>5 DEF IInv

LEMMA Invariant == Spec => []IInv
  BY Initial, Inductive, PTL DEF Spec

\* The doorbell records hold what fits in them and every slot number is one.
THEOREM TypeCorrect == Spec => []TypeOK
  <1>1. IInv => TypeOK  BY DEF IInv
  <1> QED  BY <1>1, Invariant, PTL

\* The NIC never completes into a full completion ring, so release() may give the
\* request back first.
THEOREM CqHasRoom == Spec => []CqNeverFull
  <1>1. IInv => CqNeverFull
    <2> SUFFICES ASSUME IInv, Posted PROVE ~CqFull  BY DEF CqNeverFull
    <2>1. /\ produced \in Nat /\ rqHead \in Nat /\ cqCi \in Nat
          /\ RqDepth \in Nat /\ CqeCnt \in Nat /\ CqeCnt > RqDepth
      BY VerbsRxAssumption DEF IInv, TypeOK
    <2>2. produced < rqHead  BY Distances DEF IInv
    <2>3. produced - cqCi < CqeCnt  BY <2>1, <2>2 DEF IInv, Lockstep
    <2> QED  BY <2>1, <2>3, Distances DEF IInv
  <1> QED  BY <1>1, Invariant, PTL

=============================================================================
