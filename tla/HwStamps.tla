------------------------------ MODULE HwStamps ------------------------------
(***************************************************************************)
(* One measurement after another with ef_vi's hardware stamps: the client  *)
(* sends and receives, the reflector receives and sends, the adapter       *)
(* stamps both, and the recorder decodes the pair.                         *)
(***************************************************************************)
EXTENDS HwDecode

CONSTANTS MaxTime  \* bound: quarter nanoseconds of a behaviour

VARIABLES
  reflects,        \* the reflector's turnaround, not the client's round trip
  correction,      \* rx_ts_correction of the library, a signed number
  now,             \* time, in quarter nanoseconds
  sentAt, gotAt,   \* when the frame was sent and received; -1: not yet
  txMinor, rxRaw,  \* its stamps
  recorded,        \* the recorder has taken the pair
  decoded          \* what it made of the pair

vars == <<reflects, correction, now, sentAt, gotAt, txMinor, rxRaw, recorded, decoded>>

Init ==
  /\ reflects \in BOOLEAN
  /\ correction \in Corrections
  /\ now = kOneSecQns
  /\ sentAt = -1 /\ gotAt = -1
  /\ txMinor = 0 /\ rxRaw = 0
  /\ recorded = FALSE /\ decoded = {}

\* The next event comes within a second.
Soon == {t \in now .. MaxTime : t - now < kOneSecQns}

\* The adapter reports the TX stamp, or that it has none.
Transmit ==
  /\ sentAt = -1 /\ (reflects => gotAt # -1)
  /\ now' \in Soon /\ sentAt' = now'
  /\ txMinor' \in {TxMinorOf(TxEventAt(now')), 0, kTxStampNone}
  /\ UNCHANGED <<reflects, correction, gotAt, rxRaw, recorded, decoded>>

\* The prefix of the packet holds the time before correction, or none.
Receive ==
  /\ gotAt = -1 /\ (~reflects => sentAt # -1)
  /\ now' \in Soon /\ gotAt' = now'
  /\ rxRaw' \in RawAt(now' - correction) \cup {kRxStampNone}
  /\ UNCHANGED <<reflects, correction, sentAt, txMinor, recorded, decoded>>

\* HistThread decodes the pair with the function and the correction its producer set.
Record ==
  /\ sentAt # -1 /\ gotAt # -1 /\ ~recorded
  /\ decoded' = IF reflects THEN hwTurnaround(rxRaw, txMinor, AsWord(correction))
                ELSE hwRoundTrip(rxRaw, txMinor, AsWord(correction))
  /\ recorded' = TRUE
  /\ UNCHANGED <<reflects, correction, now, sentAt, gotAt, txMinor, rxRaw>>

NextFrame ==
  /\ recorded
  /\ sentAt' = -1 /\ gotAt' = -1 /\ txMinor' = 0 /\ rxRaw' = 0
  /\ recorded' = FALSE /\ decoded' = {}
  /\ UNCHANGED <<reflects, correction, now>>

Next == Transmit \/ Receive \/ Record \/ NextFrame

Spec == Init /\ [][Next]_vars

-----------------------------------------------------------------------------
(* Properties *)

\* Every variable of a measurement has its type; the stamps are words.
TypeOK ==
  /\ reflects \in BOOLEAN /\ recorded \in BOOLEAN
  /\ correction \in Corrections
  /\ now \in 0 .. MaxTime /\ sentAt \in -1 .. MaxTime /\ gotAt \in -1 .. MaxTime
  /\ {txMinor, rxRaw} \subseteq 0 .. Word - 1
  /\ \A d \in decoded : d \in 0 .. kOneSecQns - 1

\* The latency recorded for a frame is the time between its two events, wherever the second
\* ends between them or the correction moves a stamp across its end, and a frame with both
\* stamps is refused only when it was sent exactly at the start of a second.
DecodesExactly ==
  recorded =>
    LET elapsed == IF reflects THEN sentAt - gotAt ELSE gotAt - sentAt
        stamped == rxRaw # kRxStampNone /\ txMinor \notin {0, kTxStampNone}
    IN  decoded = IF stamped THEN {elapsed} ELSE {}

=============================================================================
