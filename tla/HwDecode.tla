------------------------------ MODULE HwDecode ------------------------------
(***************************************************************************)
(* How the recorder turns a pair of ef_vi hardware stamps into a latency   *)
(* (hwRoundTrip, hwTurnaround).  A stamp counts quarter nanoseconds within *)
(* the second.  The TX stamp comes corrected from the ef_vi library; the   *)
(* RX stamp is the raw word of the packet prefix, to which the decoder     *)
(* adds the adapter's correction in 32-bit arithmetic and folds the result *)
(* back into the second.                                                   *)
(*                                                                         *)
(* An std::optional is a set of at most one element.                       *)
(***************************************************************************)
EXTENDS Integers

CONSTANTS
  Word,          \* 2^32: stamps and the correction are std::uint32_t
  kOneSecQns,    \* quarter nanoseconds in a second
  kQnsOverrun,   \* how far the adapter counts past the end of a second
  MaxBack        \* the largest correction that moves a stamp back

\* The second, its overrun and the corrections fit in a word with room to tell them apart.
HwDecodeAssumption ==
  /\ {Word, kOneSecQns, kQnsOverrun, MaxBack} \subseteq Nat
  /\ kQnsOverrun + 2 <= kOneSecQns /\ MaxBack < kOneSecQns
  /\ kOneSecQns + kQnsOverrun + 2 + MaxBack <= Word

\* The corrections rx_ts_correction may hold, and the word the code keeps one in.
Corrections == -MaxBack .. 2
AsWord(c) == c % Word

\* The words that mean "no stamp".
kTxStampNone == Word - 1
kRxStampNone == Word - 1

\* The quarter nanoseconds of a TX event.
TxMinorOf(ev) == (ev.nsec * 4 + ev.frac16 \div 16384) % Word

\* Mutant of hwFoldRx: a stamp that the correction took below zero is not recognised.
FoldWithoutBorrow(raw, correction) ==
  LET minor == (raw + correction) % Word
  IN  IF raw = kRxStampNone THEN {}
      ELSE {IF minor >= kOneSecQns THEN minor - kOneSecQns ELSE minor}

\* Mutant of hwFoldRx: the correction is taken to leave the second as it is.
FoldWithoutOverrun(raw, correction) ==
  LET minor == (raw + correction) % Word
  IN  IF raw = kRxStampNone THEN {}
      ELSE {IF minor >= kOneSecQns THEN (minor + kOneSecQns) % Word ELSE minor}

\* A word at or past the second has either overrun it, or wrapped below zero.
hwFoldRx(raw, correction) ==
  LET minor == (raw + correction) % Word
  IN  IF raw = kRxStampNone THEN {}
      ELSE {IF minor < kOneSecQns THEN minor
            ELSE IF minor < kOneSecQns + kQnsOverrun + 2 THEN minor - kOneSecQns
            ELSE (minor + kOneSecQns) % Word}

\* Mutant of hwDelta: the end of a second between the two stamps is not noticed.
DeltaWithinSecond(end, begin) == IF end < begin THEN 0 ELSE end - begin

hwDelta(end, begin) == IF end < begin THEN end - begin + kOneSecQns ELSE end - begin

\* Both decoders refuse a sample that lacks a stamp; a TX stamp of 0 counts as none.
Decodable(rx, tx, correction) ==
  IF tx \in {0, kTxStampNone} THEN {} ELSE hwFoldRx(rx, correction)

hwRoundTrip(rx, tx, correction) == {hwDelta(m, tx) : m \in Decodable(rx, tx, correction)}

hwTurnaround(rx, tx, correction) == {hwDelta(tx, m) : m \in Decodable(rx, tx, correction)}

-----------------------------------------------------------------------------
(* The adapter.  At time u its counter shows the quarter nanosecond within *)
(* the second, or runs on a little past the second that has just ended.    *)

RawAt(u) ==
  {m \in {u % kOneSecQns, (u % kOneSecQns) + kOneSecQns} : m < kOneSecQns + kQnsOverrun}

\* The event with a TX stamp: nanoseconds, and a 16-bit fraction of one.
TxEventAt(t) == [nsec |-> (t % kOneSecQns) \div 4, frac16 |-> ((t % kOneSecQns) % 4) * 16384]

=============================================================================
