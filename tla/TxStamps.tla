------------------------------ MODULE TxStamps ------------------------------
(***************************************************************************)
(* The ring of hardware TX timestamps of the ef_vi transport, as the RTT   *)
(* client and the reflector read it (pollTxTimestamp, txSequence).  The    *)
(* completion of send number k writes its stamp into slot k mod NbTxBufs,  *)
(* tagged with k; the reader's cursor follows, and finds an overwritten    *)
(* slot by its tag.                                                        *)
(***************************************************************************)
EXTENDS Integers

CONSTANTS NbTxBufs,  \* slots of the stamp ring
          NoStamp    \* kTxStampNone / an RX prefix without a timestamp

ASSUME NbTxBufsAssumption == NbTxBufs \in Nat \ {0}

VARIABLES hwTs,        \* kHwTs of the transport: there are stamps at all
          txStamp,     \* m_txStamp: slot -> [seq, minor]
          txTail,      \* m_txTail: sends completed
          txTsCursor   \* m_txTsCursor

stampVars == <<hwTs, txStamp, txTail, txTsCursor>>

StampInit ==
  /\ hwTs \in BOOLEAN
  /\ txStamp = [s \in 0..NbTxBufs - 1 |-> [seq |-> 0, minor |-> NoStamp]]
  /\ txTail = 0
  /\ txTsCursor = 0

\* The completion of the oldest outstanding send, with its stamp or without one.
Complete(minor) ==
  /\ txStamp' = [txStamp EXCEPT ![txTail % NbTxBufs] = [seq |-> txTail, minor |-> minor]]
  /\ txTail' = txTail + 1
  /\ UNCHANGED <<hwTs, txTsCursor>>

EntryAt(k) == txStamp[k % NbTxBufs]

\* The slot under the cursor has been overwritten by a later completion.
Overwritten == txTsCursor < txTail /\ EntryAt(txTsCursor).seq # txTsCursor

\* One pollTxTimestamp(): the stamp it returns, and the cursor after it.
Polled == IF txTsCursor = txTail \/ Overwritten THEN {} ELSE {EntryAt(txTsCursor)}

CursorAfterPoll == IF Overwritten THEN txTail
                   ELSE IF txTsCursor = txTail THEN txTsCursor ELSE txTsCursor + 1

\* Mutant of PolledFor: the first stamp found is taken, whatever send it belongs to.
PolledFirst(k) == Polled

\* The client's loop of polls until the stamp of send k or none is left.
PolledFor(k) == IF Overwritten \/ k >= txTail THEN {} ELSE {EntryAt(k)}

CursorAfterPollFor(k) == IF Overwritten \/ k >= txTail THEN txTail ELSE k + 1

=============================================================================
