------------------------------ MODULE Reflector ------------------------------
(***************************************************************************)
(* What the round-trip client relies on in its peer: frames are answered   *)
(* in the order of their arrival, each at most once, with the payload they *)
(* arrived with; a frame may also go unanswered.                           *)
(***************************************************************************)
EXTENDS Sequences

CONSTANT Payloads

VARIABLES pending,  \* frames that have arrived and are not yet answered
          echoed    \* the payloads of the answers, in the order sent

rvars == <<pending, echoed>>

Init == pending = << >> /\ echoed = << >>

Arrive == \E p \in Payloads : pending' = Append(pending, p) /\ UNCHANGED echoed

Answer ==
  /\ pending # << >>
  /\ echoed' = Append(echoed, Head(pending))
  /\ pending' = Tail(pending)

Ignore ==
  /\ pending # << >>
  /\ pending' = Tail(pending)
  /\ UNCHANGED echoed

Next == Arrive \/ Answer \/ Ignore

Spec == Init /\ [][Next]_rvars

=============================================================================
