------------------------------ MODULE RttServer ------------------------------
(***************************************************************************)
(* The reflector (Server.hpp): receive a frame, copy its payload into a TX *)
(* slot, release the RX buffer, send.  The stop token is read once per     *)
(* PollBudget polls.  With hardware timestamps an idle poll also fetches   *)
(* one TX stamp and pairs it with the RX stamp of the last frame, for the  *)
(* recorder of HistThread.                                                 *)
(*                                                                         *)
(* A payload is the number of the frame's arrival.                         *)
(***************************************************************************)
EXTENDS HistThread, TxStamps

CONSTANTS
  PollBudget,      \* polls between two looks at the stop token (65536)
  kWarmupDiscard,  \* turnarounds discarded at the start
  RxSlots,         \* receive ring slots
  MaxArrivals      \* bound: frames that arrive

ASSUME ServerAssumption ==
  /\ kWarmupDiscard \in Nat /\ MaxArrivals \in Nat
  /\ PollBudget \in Nat \ {0} /\ RxSlots \in Nat \ {0}

VARIABLES
  ringChecked,                 \* acquire() of the transport returns nullptr when its ring is full
  pc, polls,                   \* the reflector's loop, and its counter i
  rxRing, arrived,             \* received frames not yet polled; arrivals so far
  rxf, dst,                    \* the RX buffer in hand, the TX slot in hand
  inHand,                      \* the frame in hand (its arrival number)
  echoed,                      \* the payloads committed, in order
  rxInFlight, txSeqInFlight,   \* as in run_server
  hwWarmup, pushFailures

rxVars == <<rxRing, arrived>>
pairVars == <<rxInFlight, txSeqInFlight>>
countVars == <<hwWarmup, pushFailures>>
vars == <<hvars, stampVars, ringChecked, pc, polls, rxVars, rxf, dst, inHand, echoed, pairVars,
          countVars>>

None == -1

\* packet_mmap, the I210 and DPDK look for a free slot; AF_XDP and Verbs do not, nor does
\* ef_vi in the X2522Plus tuning, the only one with hardware timestamps.
Init ==
  /\ HInit /\ StampInit
  /\ ringChecked \in BOOLEAN /\ (hwTs => ~ringChecked)
  /\ pc = "poll" /\ polls = 0
  /\ rxRing = << >> /\ arrived = 0
  /\ rxf = None /\ dst = None /\ inHand = None
  /\ echoed = << >>
  /\ rxInFlight = None /\ txSeqInFlight = 0
  /\ hwWarmup = 0 /\ pushFailures = 0

-----------------------------------------------------------------------------
(* run_server *)

\* The poll after the last of a batch reads the stop token first.
CheckStop ==
  /\ pc = "poll"
  /\ polls = PollBudget
  /\ pc' = IF stop THEN "sentinel" ELSE "poll"
  /\ polls' = 0
  /\ UNCHANGED <<hvars, stampVars, ringChecked, rxVars, rxf, dst, inHand, echoed, pairVars,
                 countVars>>

\* Mutant of Paired: the sequence number of the stamp is not compared.
PairedAlways(t) == TRUE

\* The TX stamp belongs to the last answer.
Paired(t) == t.seq = txSeqInFlight

\* An idle poll: one TX stamp is fetched and, if it is the last answer's, recorded.
PollEmpty ==
  /\ pc = "poll"
  /\ polls < PollBudget
  /\ rxRing = << >>
  /\ polls' = polls + 1
  /\ IF ~hwTs THEN UNCHANGED <<stampVars, queue, pushed, countVars>>
     ELSE /\ txTsCursor' = CursorAfterPoll
          /\ UNCHANGED <<hwTs, txStamp, txTail>>
          /\ \/ /\ \A t \in Polled : ~Paired(t)
                /\ UNCHANGED <<queue, pushed, countVars>>
             \/ \E t \in Polled :
                  /\ Paired(t)
                  /\ \/ /\ hwWarmup < kWarmupDiscard
                        /\ hwWarmup' = hwWarmup + 1
                        /\ UNCHANGED <<queue, pushed, pushFailures>>
                     \/ /\ hwWarmup >= kWarmupDiscard
                        /\ Push(<<rxInFlight, t.minor>>)
                        /\ UNCHANGED countVars
                     \/ /\ hwWarmup >= kWarmupDiscard
                        /\ QueueFull
                        /\ pushFailures' = pushFailures + 1
                        /\ UNCHANGED <<queue, pushed, hwWarmup>>
  /\ UNCHANGED <<stop, histVars, ringChecked, pc, rxVars, rxf, dst, inHand, echoed, pairVars>>

Receive ==
  /\ pc = "poll"
  /\ polls < PollBudget
  /\ rxRing # << >>
  /\ rxf' = Head(rxRing) /\ inHand' = Head(rxRing)
  /\ rxRing' = Tail(rxRing)
  /\ pc' = "acquire"
  /\ UNCHANGED <<hvars, stampVars, ringChecked, polls, arrived, dst, echoed, pairVars, countVars>>

\* acquire() returns a slot; without the check, one whose answer may still be outstanding.
TxRoom == ~ringChecked \/ Len(echoed) - txTail < NbTxBufs

\* Mutant of Acquire: what acquire() returned is not looked at.
AcquireAnyway ==
  /\ pc = "acquire"
  /\ pc' = "copy"
  /\ UNCHANGED <<hvars, stampVars, ringChecked, polls, rxVars, rxf, dst, inHand, echoed, pairVars,
                 countVars>>

\* Mutant of Acquire: the retry loop does not look at the stop token.
AcquireSpins ==
  /\ pc = "acquire"
  /\ TxRoom
  /\ pc' = "copy"
  /\ UNCHANGED <<hvars, stampVars, ringChecked, polls, rxVars, rxf, dst, inHand, echoed, pairVars,
                 countVars>>

\* A TX slot: retry until there is one, and leave on a stop request.
Acquire ==
  /\ pc = "acquire"
  /\ \/ TxRoom /\ pc' = "copy" /\ UNCHANGED inHand
     \/ ~TxRoom /\ stop /\ pc' = "sentinel" /\ inHand' = None
  /\ UNCHANGED <<hvars, stampVars, ringChecked, polls, rxVars, rxf, dst, echoed, pairVars,
                 countVars>>

\* Mutant of Copy: the slot keeps the payload of the answer before.
CopyMissing ==
  /\ pc = "copy"
  /\ pc' = "release"
  /\ UNCHANGED <<hvars, stampVars, ringChecked, polls, rxVars, rxf, dst, inHand, echoed,
                 pairVars, countVars>>

Copy ==
  /\ pc = "copy"
  /\ dst' = rxf
  /\ pc' = "release"
  /\ UNCHANGED <<hvars, stampVars, ringChecked, polls, rxVars, rxf, inHand, echoed, pairVars,
                 countVars>>

\* release(), and the number of the send to come.  From here on the NIC owns the buffer.
Release ==
  /\ pc = "release"
  /\ txSeqInFlight' = Len(echoed)
  /\ pc' = "commit"
  /\ UNCHANGED <<hvars, stampVars, ringChecked, polls, rxVars, rxf, dst, inHand, echoed, rxInFlight,
                 countVars>>

\* commit(), then the RX stamp of the frame just answered.
Commit ==
  /\ pc = "commit"
  /\ echoed' = Append(echoed, dst)
  /\ rxInFlight' = inHand
  /\ inHand' = None
  /\ polls' = polls + 1
  /\ pc' = "poll"
  /\ UNCHANGED <<hvars, stampVars, ringChecked, rxVars, rxf, dst, txSeqInFlight, countVars>>

\* Without hardware timestamps there is no recorder to end.
Sentinel ==
  /\ pc = "sentinel"
  /\ IF hwTs THEN Push(kEndSentinel) /\ pc' = "join"
     ELSE pc' = "returned" /\ UNCHANGED <<queue, pushed>>
  /\ UNCHANGED <<stop, histVars, stampVars, ringChecked, polls, rxVars, rxf, dst, inHand, echoed,
                 pairVars, countVars>>

Join ==
  /\ pc = "join"
  /\ HistReturned
  /\ pc' = "returned"
  /\ UNCHANGED <<hvars, stampVars, ringChecked, polls, rxVars, rxf, dst, inHand, echoed, pairVars,
                 countVars>>

\* The process has ended, or spins for a place in the queue that will not come.
Done == (pc = "returned" \/ (pc = "sentinel" /\ Stranded)) /\ UNCHANGED vars

-----------------------------------------------------------------------------
(* The NIC *)

Arrive ==
  /\ arrived < MaxArrivals
  /\ Len(rxRing) < RxSlots
  /\ rxRing' = Append(rxRing, arrived)
  /\ arrived' = arrived + 1
  /\ UNCHANGED <<hvars, stampVars, ringChecked, pc, polls, rxf, dst, inHand, echoed, pairVars,
                 countVars>>

\* A released buffer is free to be written again.
Overwrite ==
  /\ pc \in {"commit", "poll"}
  /\ rxf # None
  /\ rxf' = None
  /\ UNCHANGED <<hvars, stampVars, ringChecked, pc, polls, rxVars, dst, inHand, echoed,
                 pairVars, countVars>>

CompleteSend ==
  /\ txTail < Len(echoed)
  /\ Complete(txTail)
  /\ UNCHANGED <<hvars, ringChecked, pc, polls, rxVars, rxf, dst, inHand, echoed, pairVars,
                 countVars>>

-----------------------------------------------------------------------------
Rest == <<stampVars, ringChecked, pc, polls, rxVars, rxf, dst, inHand, echoed, pairVars, countVars>>

Server == CheckStop \/ PollEmpty \/ Receive \/ Acquire \/ Copy \/ Release \/ Commit
          \/ Sentinel \/ Join
Hist == hwTs /\ HistNext /\ UNCHANGED Rest
Signal == RequestStop /\ UNCHANGED Rest
Nic == Arrive \/ Overwrite \/ CompleteSend

Next == Server \/ Hist \/ Signal \/ Nic \/ Done

\* The reflector and the recorder keep running; nothing is assumed of the NIC.
Spec == Init /\ [][Next]_vars
FairSpec == Spec /\ WF_vars(Server) /\ WF_vars(Hist)

-----------------------------------------------------------------------------
(* Properties *)

Sample == ((0..MaxArrivals - 1) \X (0..MaxArrivals - 1)) \cup {kEndSentinel}
Payload == None..MaxArrivals - 1

\* Every variable of the reflector and its recorder has its type; over a transport whose
\* acquire() checks for a full ring no more than NbTxBufs answers are outstanding.
TypeOK ==
  /\ {stop, hwTs, ringChecked} \subseteq BOOLEAN
  /\ queue \in Seq(Sample) /\ pushed \in Seq(Sample) /\ popped \in Seq(Sample)
  /\ histPc \in {"init", "poll", "check", "ended", "stopped", "failed"}
  /\ histRecorded \in Nat /\ histDropped \in Nat
  /\ pc \in {"poll", "acquire", "copy", "release", "commit", "sentinel", "join", "returned"}
  /\ polls \in 0..PollBudget
  /\ arrived \in 0..MaxArrivals /\ rxRing \in Seq(Payload)
  /\ rxf \in Payload /\ dst \in Payload /\ inHand \in Payload
  /\ echoed \in Seq(Payload)
  /\ txTail \in 0..Len(echoed) /\ (ringChecked => Len(echoed) - txTail <= NbTxBufs)
  /\ txTsCursor \in 0..txTail /\ txSeqInFlight \in Nat /\ rxInFlight \in Payload
  /\ hwWarmup \in 0..kWarmupDiscard /\ pushFailures \in Nat

\* The reflector answers frames in order, at most once each, with the payload they
\* arrived with, although it gives the RX buffer back before it sends.
Pending == (IF inHand = None THEN << >> ELSE <<inHand>>) \o rxRing
Abstract == INSTANCE Reflector WITH Payloads <- 0..MaxArrivals - 1, pending <- Pending
ReflectsFaithfully == Abstract!Spec

\* Every recorded turnaround subtracts the RX stamp of a frame from the TX stamp of that
\* frame's own answer, and no answer is recorded twice.
TurnaroundPaired ==
  /\ \A i \in 1..Len(pushed) :
       pushed[i] # kEndSentinel => echoed[pushed[i][2] + 1] = pushed[i][1]
  /\ \A i, j \in 1..Len(pushed) :
       i < j /\ pushed[j] # kEndSentinel => pushed[i][2] < pushed[j][2]

\* A stop request ends the reflector, whether it is idle, flooded, or waiting for a TX
\* slot that the NIC never frees, except when the recorder has left a full queue behind, so
\* that the end marker never fits.
StopsOnRequest == stop ~> (pc = "returned" \/ Stranded)

=============================================================================
