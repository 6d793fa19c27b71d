--------------------------- MODULE VerbsTxProofs ----------------------------
(***************************************************************************)
(* The send queue of the verbs transport never overflows and the transmit  *)
(* half implements TxRing, for every depth, signalling period and NIC      *)
(* speed, and whichever posts fail.                                        *)
(***************************************************************************)
EXTENDS VerbsTx, RingArithmetic, FiniteSetTheorems, TLAPS

\* The commits after the last polled completion fit the completions still due plus
\* the current partial period, and outside commit() the backstop has kept the due
\* ones below its limit.
AccountInv ==
    /\ retired % SignalEvery = 0
    /\ txCount - retired <= SignalEvery * unreaped + (txCount % SignalEvery)
    /\ pc \in {"idle", "post"} => unreaped <= Due - 1
    /\ pc = "poll" => unreaped >= 2

IInv == TypeOK /\ AccountInv

\* The backstop's limit leaves one period of the queue free.
LEMMA DueFits ==
  /\ Due \in Int /\ Due >= 3
  /\ SignalEvery * Due + SignalEvery <= SqDepth
  <1> DEFINE q == SqDepth \div SignalEvery
  <1>1. q \in Int /\ SqDepth % SignalEvery \in 0 .. SignalEvery - 1
        /\ SqDepth = SignalEvery * q + (SqDepth % SignalEvery)
    BY DivMod, VerbsTxAssumption
  <1> HIDE DEF q
  <1>2. q >= 4
    <2> SUFFICES ASSUME q <= 3 PROVE FALSE  BY <1>1
    <2>1. SignalEvery * q <= SignalEvery * 3  BY <1>1, VerbsTxAssumption
    <2> QED  BY <1>1, <2>1, VerbsTxAssumption
  <1>3. Due = q - 1  BY DEF Due, q
  <1>4. SignalEvery * (q - 1) + SignalEvery = SignalEvery * q  BY <1>1, VerbsTxAssumption
  <1> QED  BY <1>1, <1>2, <1>3, <1>4, VerbsTxAssumption

\* The next number starts a new period or is one further into the current one.
LEMMA NextInPeriod ==
  ASSUME NEW n \in Nat
  PROVE  \/ (n + 1) % SignalEvery = 0 /\ n % SignalEvery = SignalEvery - 1
         \/ (n + 1) % SignalEvery = (n % SignalEvery) + 1 /\ (n + 1) % SignalEvery # 0
  <1> DEFINE a == n % SignalEvery
  <1>1. a \in 0 .. SignalEvery - 1  BY DivMod, VerbsTxAssumption
  <1>0. SignalEvery \in Nat /\ SignalEvery > 0  BY VerbsTxAssumption
  <1>2. (a + 1) % SignalEvery = (n + 1) % SignalEvery  BY <1>0, NextCell
  <1> HIDE DEF a
  <1>3. CASE a + 1 < SignalEvery
    <2>1. (a + 1) % SignalEvery = a + 1  BY <1>1, <1>3, SmallMod, VerbsTxAssumption
    <2> QED  BY <1>1, <1>2, <2>1 DEF a
  <1>4. CASE a + 1 = SignalEvery
    <2>1. SignalEvery % SignalEvery = 0  BY VerbsTxAssumption
    <2> QED  BY <1>1, <1>2, <1>4, <2>1 DEF a
  <1> QED  BY <1>1, <1>3, <1>4, VerbsTxAssumption

\* Two different multiples of the period are at least one period apart.
LEMMA PeriodApart ==
  ASSUME NEW m \in Nat, NEW n \in Nat, m < n,
         m % SignalEvery = 0, n % SignalEvery = 0
  PROVE  m + SignalEvery <= n
  <1>0. SignalEvery \in Nat /\ SignalEvery > 0 /\ m \in Int /\ n \in Int
    BY VerbsTxAssumption
  <1>1. CASE n - m < SignalEvery
    <2>1. m % SignalEvery # n % SignalEvery  BY <1>0, <1>1, DistinctCells
    <2> QED  BY <2>1
  <1> QED  BY <1>1, VerbsTxAssumption

\* Counting a commit keeps the account.
LEMMA CountKeeps ==
  ASSUME IInv, pc = "post", Count, retired' = retired
  PROVE  AccountInv' /\ txCount' \in Nat /\ unreaped' \in Nat
         /\ pc' \in {"idle", "poll"} /\ txCount' = txCount + 1
  <1>1. /\ txCount \in Nat /\ unreaped \in Nat /\ retired \in Nat
        /\ SignalEvery \in Nat /\ SignalEvery > 0
    BY VerbsTxAssumption DEF IInv, TypeOK
  <1>2. txCount' = txCount + 1 /\ unreaped' \in {unreaped, unreaped + 1}
        /\ pc' = IF unreaped' >= 2 THEN "poll" ELSE "idle"
    BY <1>1 DEF Count
  <1>3. txCount' - retired <= SignalEvery * unreaped' + (txCount' % SignalEvery)
    <2>1. txCount - retired <= SignalEvery * unreaped + (txCount % SignalEvery)
      BY DEF IInv, AccountInv
    <2>2. SignalEvery * (unreaped + 1) = SignalEvery * unreaped + SignalEvery
          /\ SignalEvery * unreaped \in Int
      BY <1>1
    <2>3. CASE (txCount + 1) % SignalEvery = 0 /\ txCount % SignalEvery = SignalEvery - 1
      <3>1. unreaped' = unreaped + 1  BY <1>1, <2>3 DEF Count, Signaled
      <3> QED  BY <1>1, <1>2, <2>1, <2>2, <2>3, <3>1
    <2>4. CASE /\ (txCount + 1) % SignalEvery = (txCount % SignalEvery) + 1
               /\ (txCount + 1) % SignalEvery # 0
      <3>1. unreaped' = unreaped  BY <1>1, <2>4 DEF Count, Signaled
      <3>2. txCount % SignalEvery \in Int  BY <1>1
      <3> QED  BY <1>1, <1>2, <2>1, <2>2, <2>4, <3>1, <3>2
    <2> QED  BY <1>1, <2>3, <2>4, NextInPeriod
  <1>4. pc' \in {"idle", "post"} => unreaped' <= Due - 1  BY <1>1, <1>2, DueFits
  <1>5. pc' = "poll" => unreaped' >= 2  BY <1>2
  <1>6. retired' % SignalEvery = 0  BY DEF IInv, AccountInv
  <1>7. AccountInv'
    <2>1. txCount' - retired' <= SignalEvery * unreaped' + (txCount' % SignalEvery)
      BY <1>3
    <2>2. Due' = Due  BY DEF Due
    <2> QED  BY <1>4, <1>5, <1>6, <2>1, <2>2 DEF AccountInv
  <1> QED  BY <1>1, <1>2, <1>7

\* Polling a completion retires at least one whole period.
LEMMA ReapKeeps ==
  ASSUME IInv, Reap, unreaped >= 1, UNCHANGED <<txCount, executed>>
  PROVE  /\ unreaped' \in Nat /\ unreaped' = unreaped - 1
         /\ retired' \in 0 .. executed
         /\ retired' % SignalEvery = 0
         /\ txCount' - retired' <= SignalEvery * unreaped' + (txCount' % SignalEvery)
  <1>1. /\ txCount \in Nat /\ unreaped \in Nat /\ retired \in Nat /\ executed \in Nat
        /\ posted \subseteq 1 .. txCount
        /\ SignalEvery \in Nat /\ SignalEvery > 0
    BY VerbsTxAssumption DEF IInv, TypeOK
  <1>2. PICK n \in Ready : retired' = n  BY DEF Reap
  <1>3. n \in Nat /\ n % SignalEvery = 0 /\ retired < n /\ n <= executed
    BY <1>1, <1>2 DEF Ready, Signaled
  <1>4. retired + SignalEvery <= n
    BY <1>1, <1>3, PeriodApart DEF IInv, AccountInv
  <1>5. txCount - retired <= SignalEvery * unreaped + (txCount % SignalEvery)
    BY DEF IInv, AccountInv
  <1>6. unreaped' = unreaped - 1  BY DEF Reap
  <1>7. SignalEvery * (unreaped - 1) = SignalEvery * unreaped - SignalEvery
        /\ SignalEvery * unreaped \in Int /\ txCount % SignalEvery \in Int
    BY <1>1
  <1>8. txCount - n <= SignalEvery * (unreaped - 1) + (txCount % SignalEvery)
    BY <1>1, <1>3, <1>4, <1>5, <1>7
  <1> QED  BY <1>1, <1>2, <1>3, <1>6, <1>8

LEMMA Inductive == IInv /\ [Next]_vars => IInv'
  <1> SUFFICES ASSUME IInv, [Next]_vars PROVE IInv'  OBVIOUS
  <1> USE VerbsTxAssumption
  <1>1. CASE Acquire
    BY <1>1 DEF Acquire, IInv, TypeOK, AccountInv, Due
  <1>2. CASE Post
    <2>1. AccountInv' /\ txCount' \in Nat /\ unreaped' \in Nat
          /\ pc' \in {"idle", "poll"} /\ txCount' = txCount + 1
      BY <1>2, CountKeeps DEF Post
    <2> QED  BY <1>2, <2>1 DEF Post, IInv, TypeOK
  <1>3. CASE PostFails
    <2>1. AccountInv' /\ txCount' \in Nat /\ unreaped' \in Nat
          /\ pc' \in {"idle", "poll"} /\ txCount' = txCount + 1
      BY <1>3, CountKeeps DEF PostFails
    <2> QED  BY <1>3, <2>1 DEF PostFails, IInv, TypeOK
  <1>4. CASE Poll
    <2>1. unreaped >= 1  BY <1>4 DEF Poll, IInv, AccountInv, TypeOK
    <2>2. CASE Reap
      BY <1>4, <2>1, <2>2, ReapKeeps DEF Poll, IInv, TypeOK, AccountInv
    <2>3. CASE UNCHANGED <<unreaped, retired>>
      BY <1>4, <2>3 DEF Poll, IInv, TypeOK, AccountInv
    <2> QED  BY <1>4, <2>2, <2>3 DEF Poll
  <1>5. CASE BackstopPoll
    <2>1. unreaped >= 1  BY <1>5, DueFits DEF BackstopPoll, IInv, TypeOK
    <2>2. CASE Reap
      BY <1>5, <2>1, <2>2, ReapKeeps DEF BackstopPoll, IInv, TypeOK, AccountInv
    <2>3. CASE UNCHANGED <<unreaped, retired>>
      BY <1>5, <2>3 DEF BackstopPoll, IInv, TypeOK, AccountInv, Due
    <2> QED  BY <1>5, <2>2, <2>3 DEF BackstopPoll
  <1>6. CASE BackstopDone
    <2>1. unreaped <= Due - 1  BY <1>6, DueFits DEF BackstopDone, IInv, TypeOK
    <2> QED  BY <1>6, <2>1 DEF BackstopDone, IInv, TypeOK, AccountInv, Due
  <1>7. CASE Execute
    <2>1. PICK n \in posted : /\ executed < n /\ executed' = n
                              /\ wire' = Append(wire, wqe[n])
      BY <1>7 DEF Execute
    <2>2. wqe[n] \in Nat /\ n \in 0 .. txCount /\ retired \in 0 .. n
      BY <2>1 DEF IInv, TypeOK
    <2>3. TypeOK'  BY <1>7, <2>1, <2>2 DEF Execute, IInv, TypeOK
    <2> QED  BY <1>7, <2>3 DEF Execute, IInv, AccountInv, Due
  <1>8. CASE Done \/ UNCHANGED vars
    BY <1>8 DEF Done, vars, IInv, TypeOK, AccountInv, Due
  <1> QED
    BY <1>1, <1>2, <1>3, <1>4, <1>5, <1>6, <1>7, <1>8 DEF Next, Caller

LEMMA Initial == Init => IInv
  <1> SUFFICES ASSUME Init PROVE IInv  OBVIOUS
  <1>1. TypeOK  BY DEF Init, TypeOK
  <1>2. 0 % SignalEvery = 0  BY SmallMod, VerbsTxAssumption
  <1>3. AccountInv  BY <1>2, DueFits, VerbsTxAssumption DEF Init, AccountInv
  <1> QED  BY <1>1, <1>3 DEF IInv

LEMMA Invariant == Spec => []IInv
  BY Initial, Inductive, PTL DEF Spec

\* The counters of commit() stay within the commits made, whichever posts fail.
THEOREM TypeCorrect == Spec => []TypeOK
  <1>1. IInv => TypeOK  BY DEF IInv
  <1> QED  BY <1>1, Invariant, PTL

\* ibv_post_send() is never called on a full send queue: the backstop loop of
\* commit() leaves room for the posts up to the next signalled one.
THEOREM NoSqOverflow == Spec => []SqNeverOverflows
  <1>1. IInv => SqNeverOverflows
    <2> SUFFICES ASSUME IInv, pc = "post" PROVE Cardinality(InFlight) < SqDepth
      BY DEF SqNeverOverflows
    <2>1. /\ txCount \in Nat /\ unreaped \in Nat /\ retired \in Nat /\ retired <= txCount
          /\ SignalEvery \in Nat /\ SignalEvery > 0 /\ SqDepth \in Nat
          /\ posted \subseteq 1 .. txCount
      BY VerbsTxAssumption DEF IInv, TypeOK
    <2>2. InFlight \subseteq (retired + 1) .. txCount
      <3> SUFFICES ASSUME NEW n \in InFlight PROVE n \in (retired + 1) .. txCount
        OBVIOUS
      <3>1. n \in 1 .. txCount /\ retired < n  BY <2>1 DEF InFlight
      <3> QED  BY <2>1, <3>1
    <2>3. /\ IsFiniteSet(retired + 1 .. txCount)
          /\ Cardinality(retired + 1 .. txCount) <= txCount - retired
      BY <2>1, FS_Interval
    <2>4. /\ Cardinality(InFlight) <= Cardinality(retired + 1 .. txCount)
          /\ Cardinality(InFlight) \in Nat
          /\ Cardinality(retired + 1 .. txCount) \in Nat
      BY <2>2, <2>3, FS_Subset, FS_CardinalityType
    <2>5. txCount - retired < SqDepth
      <3>1. txCount - retired <= SignalEvery * unreaped + (txCount % SignalEvery)
            /\ unreaped <= Due - 1
        BY DEF IInv, AccountInv
      <3>2. txCount % SignalEvery \in 0 .. SignalEvery - 1  BY <2>1, DivMod
      <3>3. SignalEvery * unreaped <= SignalEvery * (Due - 1)  BY <2>1, <3>1, DueFits
      <3>4. SignalEvery * (Due - 1) = SignalEvery * Due - SignalEvery
            /\ SignalEvery * Due \in Int /\ SignalEvery * unreaped \in Int
        BY <2>1, DueFits
      <3> QED  BY <2>1, <3>1, <3>2, <3>3, <3>4, DueFits
    <2> QED  BY <2>1, <2>3, <2>4, <2>5
  <1> QED  BY <1>1, Invariant, PTL

-----------------------------------------------------------------------------

\* The requests posted no later than commit n.
UpTo(n) == {m \in posted : m <= n}

\* Each request holds the bytes of its commit, and the frames on the wire are the
\* executed requests, the i-th of them the i-th that was posted.
WireInv ==
    /\ pc = "post" => buf = txCount + 1
    /\ \A n \in posted : wqe[n] = n
    /\ Len(wire) = Cardinality(UpTo(executed))
    /\ \A i \in 1 .. Len(wire) :
         wire[i] \in UpTo(executed) /\ Cardinality(UpTo(wire[i])) = i

\* The ranks of the requests are numbers.
LEMMA RankType ==
  ASSUME TypeOK
  PROVE  /\ IsFiniteSet(posted) /\ Cardinality(posted) \in Nat
         /\ \A n : IsFiniteSet(UpTo(n)) /\ Cardinality(UpTo(n)) \in Nat
  <1>1. txCount \in Nat /\ posted \subseteq 1 .. txCount  BY DEF TypeOK
  <1>2. IsFiniteSet(1 .. txCount)  BY <1>1, FS_Interval
  <1>3. IsFiniteSet(posted) /\ Cardinality(posted) \in Nat
    BY <1>1, <1>2, FS_Subset, FS_CardinalityType
  <1>4. ASSUME NEW n PROVE IsFiniteSet(UpTo(n)) /\ Cardinality(UpTo(n)) \in Nat
    <2>1. UpTo(n) \subseteq posted  BY DEF UpTo
    <2> QED  BY <1>3, <2>1, FS_Subset, FS_CardinalityType
  <1> QED  BY <1>3, <1>4

\* A new request changes no rank of an earlier one, and adds one to the total.
LEMMA PostedLast ==
  ASSUME TypeOK, posted' = posted \cup {txCount + 1}
  PROVE  /\ \A n \in 0 .. txCount : {m \in posted' : m <= n} = UpTo(n)
         /\ Cardinality(posted') = Cardinality(posted) + 1
  <1>1. txCount \in Nat /\ posted \subseteq 1 .. txCount  BY DEF TypeOK
  <1>2. \A n \in 0 .. txCount : {m \in posted' : m <= n} = UpTo(n)  BY <1>1 DEF UpTo
  <1>3. txCount + 1 \notin posted  BY <1>1
  <1> QED  BY <1>2, <1>3, RankType, FS_AddElement

\* Executing the oldest waiting request gives the wire the next rank.
LEMMA NextRank ==
  ASSUME TypeOK, NEW n \in posted, executed < n, \A m \in posted : executed < m => n <= m
  PROVE  /\ UpTo(n) = UpTo(executed) \cup {n}
         /\ Cardinality(UpTo(n)) = Cardinality(UpTo(executed)) + 1
         /\ Cardinality(UpTo(n)) <= Cardinality(posted)
  <1>1. /\ txCount \in Nat /\ posted \subseteq 1 .. txCount /\ executed \in Nat
        /\ n \in Nat /\ \A m \in posted : m \in Nat
    BY DEF TypeOK
  <1>2. UpTo(n) = UpTo(executed) \cup {n}
    <2>1. ASSUME NEW m \in posted PROVE m <= n <=> m <= executed \/ m = n  BY <1>1
    <2> QED  BY <2>1 DEF UpTo
  <1>3. n \notin UpTo(executed)  BY <1>1 DEF UpTo
  <1>4. Cardinality(UpTo(n)) = Cardinality(UpTo(executed)) + 1
    BY <1>2, <1>3, RankType, FS_AddElement
  <1>5. UpTo(n) \subseteq posted  BY DEF UpTo
  <1>6. Cardinality(UpTo(n)) <= Cardinality(posted)  BY <1>5, RankType, FS_Subset
  <1> QED  BY <1>2, <1>4, <1>6

\* Only Post and Execute disturb the wire's account.
LEMMA WireStep == IInv /\ WireInv /\ [Next]_vars => WireInv'
  <1> SUFFICES ASSUME IInv, WireInv, [Next]_vars PROVE WireInv'  OBVIOUS
  <1>0. /\ TypeOK /\ txCount \in Nat /\ posted \subseteq 1 .. txCount
        /\ wqe \in Seq(Nat) /\ Len(wqe) = txCount /\ buf \in Nat
        /\ executed \in 0 .. txCount /\ wire \in Seq(Nat) /\ Len(wire) \in Nat
    BY DEF IInv, TypeOK
  <1>1. CASE Acquire
    BY <1>0, <1>1 DEF Acquire, WireInv, UpTo
  <1>2. CASE Post
    <2>1. /\ posted' = posted \cup {txCount + 1} /\ wqe' = Append(wqe, buf)
          /\ pc' # "post" /\ buf = txCount + 1 /\ UNCHANGED <<executed, wire>>
      BY <1>2 DEF Post, Count, WireInv
    <2>2. \A n \in 0 .. txCount : {m \in posted' : m <= n} = UpTo(n)
      BY <1>0, <2>1, PostedLast
    <2>3. \A n \in posted' : wqe'[n] = n
      <3> SUFFICES ASSUME NEW n \in posted' PROVE wqe'[n] = n  OBVIOUS
      <3>1. CASE n = txCount + 1  BY <1>0, <2>1, <3>1
      <3>2. CASE n \in posted
        <4>1. n \in 1 .. Len(wqe) /\ wqe[n] = n  BY <1>0, <3>2 DEF WireInv
        <4> QED  BY <1>0, <2>1, <4>1
      <3> QED  BY <2>1, <3>1, <3>2
    <2>4. Len(wire') = Cardinality({m \in posted' : m <= executed'})
      BY <1>0, <2>1, <2>2 DEF WireInv
    <2>5. ASSUME NEW i \in 1 .. Len(wire')
          PROVE  /\ wire'[i] \in {m \in posted' : m <= executed'}
                 /\ Cardinality({m \in posted' : m <= wire'[i]}) = i
      <3>1. i \in 1 .. Len(wire) /\ wire'[i] = wire[i]  BY <2>1
      <3>2. wire[i] \in posted /\ wire[i] <= executed /\ Cardinality(UpTo(wire[i])) = i
        BY <3>1 DEF WireInv, UpTo
      <3>3. posted \subseteq 1 .. txCount /\ txCount \in Nat  BY <1>0
      <3>4. wire[i] \in 0 .. txCount
        <4> DEFINE v == wire[i]
        <4>1. v \in posted  BY <3>2
        <4> HIDE DEF v
        <4>2. v \in 0 .. txCount  BY <3>3, <4>1
        <4> QED  BY <4>2 DEF v
      <3> QED  BY <2>1, <2>2, <3>1, <3>2, <3>4
    <2> QED  BY <2>1, <2>3, <2>4, <2>5 DEF WireInv, UpTo
  <1>3. CASE PostFails
    <2>1. /\ wqe' = Append(wqe, buf) /\ pc' # "post" /\ UNCHANGED <<posted, executed, wire>>
      BY <1>3 DEF PostFails, Count
    <2>2. \A n \in posted : wqe'[n] = n
      <3> SUFFICES ASSUME NEW n \in posted PROVE wqe'[n] = n  OBVIOUS
      <3>1. n \in 1 .. Len(wqe) /\ wqe[n] = n  BY <1>0 DEF WireInv
      <3> QED  BY <1>0, <2>1, <3>1
    <2> QED  BY <2>1, <2>2 DEF WireInv, UpTo
  <1>4. CASE Poll \/ BackstopPoll \/ BackstopDone
    <2>1. pc' # "post" /\ UNCHANGED <<posted, wqe, executed, wire>>
      BY <1>4 DEF Poll, BackstopPoll, BackstopDone
    <2> QED  BY <2>1 DEF WireInv, UpTo
  <1>5. CASE Execute
    <2>1. PICK n \in posted : /\ executed < n /\ \A m \in posted : executed < m => n <= m
                              /\ executed' = n /\ wire' = Append(wire, wqe[n])
      BY <1>5 DEF Execute
    <2>2. UNCHANGED <<buf, txCount, posted, wqe, pc>>  BY <1>5 DEF Execute
    <2>3. /\ UpTo(n) = UpTo(executed) \cup {n}
          /\ Cardinality(UpTo(n)) = Cardinality(UpTo(executed)) + 1
      BY <1>0, <2>1, NextRank
    <2>4. /\ wqe[n] = n /\ n \in Nat /\ Len(wire') = Len(wire) + 1 /\ wire'[Len(wire) + 1] = n
          /\ \A i \in 1 .. Len(wire) : wire'[i] = wire[i]
      <3>1. wqe[n] = n /\ n \in Nat  BY <1>0 DEF WireInv
      <3> QED  BY <1>0, <2>1, <3>1
    <2>5. Len(wire') = Cardinality(UpTo(n))  BY <2>3, <2>4 DEF WireInv
    <2>6. ASSUME NEW i \in 1 .. Len(wire')
          PROVE  wire'[i] \in UpTo(n) /\ Cardinality(UpTo(wire'[i])) = i
      <3>1. CASE i = Len(wire) + 1  BY <2>3, <2>4, <2>5, <3>1
      <3>2. CASE i \in 1 .. Len(wire)  BY <2>3, <2>4, <3>2 DEF WireInv
      <3> QED  BY <1>0, <2>4, <3>1, <3>2
    <2>7. UpTo(executed)' = UpTo(n) /\ \A k : UpTo(k) = {m \in posted' : m <= k}
      BY <2>1, <2>2 DEF UpTo
    <2> QED  BY <2>2, <2>5, <2>6, <2>7 DEF WireInv, UpTo
  <1>6. CASE Done \/ UNCHANGED vars
    BY <1>6 DEF Done, vars, WireInv, UpTo
  <1> QED  BY <1>1, <1>2, <1>3, <1>4, <1>5, <1>6 DEF Next, Caller

LEMMA WireInitial == Init => WireInv
  <1> SUFFICES ASSUME Init PROVE WireInv  OBVIOUS
  <1>1. UpTo(executed) = {}  BY DEF Init, UpTo
  <1> QED  BY <1>1, FS_EmptySet DEF Init, WireInv

\* The transmit half of verbs implements the TxRing concept for every depth, signalling
\* period and NIC pace: each frame whose post succeeded leaves once, in order and with
\* the bytes it was committed with, although one buffer serves them all.
THEOREM VerbsTransmitsFaithfully == Spec => TransmitsFaithfully
  <1> DEFINE ranks == [i \in 1 .. Len(wire) |->
                         IF wire[i] \in posted
                         THEN Cardinality({n \in posted : n <= wire[i]}) ELSE 0]
             total == Cardinality(posted)
  <1>1. Init => Abstract!TxInit
    <2> SUFFICES ASSUME Init PROVE Abstract!TxInit  OBVIOUS
    <2>1. total = 0  BY FS_EmptySet DEF Init
    <2>2. ranks = << >>  BY DEF Init
    <2> QED  BY <2>1, <2>2 DEF Abstract!TxInit
  <1>2. ASSUME TypeOK, WireInv PROVE Len(wire) \in Nat /\ ranks = [i \in 1 .. Len(wire) |-> i]
    <2>1. \A i \in 1 .. Len(wire) :
            wire[i] \in posted /\ Cardinality({n \in posted : n <= wire[i]}) = i
      BY <1>2 DEF WireInv, UpTo
    <2>2. ranks = [i \in 1 .. Len(wire) |-> i]  BY <2>1, Zenon
    <2>3. Len(wire) \in Nat  BY <1>2 DEF TypeOK
    <2> QED  BY <2>2, <2>3
  <1>3. ASSUME TypeOK', WireInv'
        PROVE  Len(wire)' \in Nat /\ ranks' = [i \in 1 .. Len(wire') |-> i]
    <2>1. \A i \in 1 .. Len(wire') :
            wire'[i] \in posted' /\ Cardinality({n \in posted' : n <= wire'[i]}) = i
      BY <1>3 DEF WireInv, UpTo
    <2>2. ranks' = [i \in 1 .. Len(wire') |-> i]  BY <2>1, Zenon
    <2>3. Len(wire)' \in Nat  BY <1>3 DEF TypeOK
    <2> QED  BY <2>2, <2>3
  <1>4. ASSUME TypeOK, WireInv, TypeOK', WireInv', [Next]_vars
        PROVE  Abstract!Commit \/ Abstract!Transmit \/ UNCHANGED <<total, ranks>>
    <2> DEFINE k == Len(wire)
    <2>0. k \in Nat /\ ranks = [i \in 1 .. k |-> i] /\ ranks' = [i \in 1 .. Len(wire') |-> i]
      BY <1>2, <1>3, <1>4
    <2>1. CASE Post
      <3>1. total' = total + 1  BY <1>4, <2>1, PostedLast DEF Post
      <3>2. ranks' = ranks  BY <2>0, <2>1 DEF Post
      <3> QED  BY <3>1, <3>2 DEF Abstract!Commit
    <2>2. CASE Execute
      <3>1. PICK n \in posted : /\ executed < n /\ \A m \in posted : executed < m => n <= m
                                /\ wire' = Append(wire, wqe[n])
        BY <2>2 DEF Execute
      <3>2. total' = total  BY <2>2 DEF Execute
      <3>3. k < total
        <4>1. Cardinality(UpTo(executed)) + 1 <= total  BY <1>4, <3>1, NextRank
        <4>2. k = Cardinality(UpTo(executed)) /\ total \in Nat  BY <1>4, RankType DEF WireInv
        <4> QED  BY <2>0, <4>1, <4>2
      <3>4. Len(wire') = k + 1  BY <1>4, <3>1 DEF TypeOK
      <3> HIDE DEF ranks, total, k
      <3>5. ranks \in Seq(Nat) /\ Len(ranks) = k  BY <2>0
      <3>6. ranks' = Append(ranks, Len(ranks) + 1)
        <4>1. ranks' = [i \in 1 .. k + 1 |-> i]  BY <2>0, <3>4
        <4>2. Append(ranks, k + 1) = [i \in 1 .. k + 1 |-> i]  BY <2>0, <3>5
        <4> QED  BY <3>5, <4>1, <4>2
      <3>7. Len(ranks) < total  BY <3>3, <3>5
      <3>8. Abstract!Transmit
        BY <3>2, <3>6, <3>7 DEF Abstract!Transmit, ranks, total
      <3> QED  BY <3>8
    <2>3. CASE UNCHANGED <<posted, wire>>  BY <2>3
    <2> QED
      BY <1>4, <2>1, <2>2, <2>3
      DEF Next, Caller, Acquire, PostFails, Poll, BackstopPoll, BackstopDone, Done, vars
  <1>5. IInv /\ WireInv /\ IInv' /\ WireInv' /\ [Next]_vars
          => [Abstract!Commit \/ Abstract!Transmit]_(<<total, ranks>>)
    BY <1>4 DEF IInv
  <1>6. IInv /\ WireInv /\ [Next]_vars => IInv' /\ WireInv'  BY Inductive, WireStep
  <1> QED
    BY <1>1, <1>5, <1>6, Initial, WireInitial, PTL DEF Spec, TransmitsFaithfully, Abstract!TxSpec

=============================================================================
