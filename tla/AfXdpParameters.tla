-------------------------- MODULE AfXdpParameters ---------------------------
(***************************************************************************)
(* The UMEM of the AF_XDP transport: NumTxFrames TX chunks, then           *)
(* NumRxFrames RX chunks.                                                  *)
(***************************************************************************)
EXTENDS Integers

CONSTANTS NumTxFrames,  \* TX chunks; also TX_SIZE and COMP_SIZE
          NumRxFrames   \* RX chunks; also RX_SIZE

ASSUME UmemAssumption == {NumTxFrames, NumRxFrames} \subseteq Nat \ {0}
=============================================================================
