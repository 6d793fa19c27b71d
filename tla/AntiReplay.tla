----------------------------- MODULE AntiReplay -----------------------------
(***************************************************************************)
(* The sequence gate of the one-way recorder (SingleRecorder.hpp).  A      *)
(* frame carries the low bits of its send index; the gate keeps only the   *)
(* last accepted sequence number and decides from the signed wrap-around   *)
(* distance whether a frame is new, how many frames were lost before it,   *)
(* or whether it is at or behind the last accepted one.                    *)
(*                                                                         *)
(* The code's sequence number is a uint32_t; here it has SeqMod values.    *)
(***************************************************************************)
EXTENDS Integers

CONSTANT SeqMod  \* 2^32 in the code

ASSUME SeqModAssumption == SeqMod \in Nat /\ SeqMod >= 2 /\ SeqMod % 2 = 0

Half == SeqMod \div 2

\* Mutant of SeqOf: the sequence number does not wrap.
SeqOfNoWrap(i) == i

\* The sequence number that the frame with (unbounded) send index i carries.
SeqOf(i) == i % SeqMod

\* seq - last in uint32_t: wraps modulo SeqMod.
Sub(seq, last) == (seq - last) % SeqMod

\* Mutant of AsSigned: the difference is compared unsigned, the int32_t cast is missing.
AsUnsigned(x) == x

\* static_cast<int32_t>: the two's complement reading of the wrapped difference.
AsSigned(x) == IF x < Half THEN x ELSE x - SeqMod

Diff(seq, last) == AsSigned(Sub(seq, last))

\* AntiReplay::accept: the verdict on a frame and what it adds to the caller's
\* counters.  The first frame sets the baseline.
Accepts(have, last, seq) == ~have \/ Diff(seq, last) > 0

\* Mutant of LostBefore: the accepted frame itself is counted as lost.
LostIncludingThis(have, last, seq) ==
  IF have /\ Diff(seq, last) > 0 THEN Diff(seq, last) ELSE 0

LostBefore(have, last, seq) ==
  IF have /\ Diff(seq, last) > 0 THEN Diff(seq, last) - 1 ELSE 0

=============================================================================
