--------------------------- MODULE DpdkParameters ---------------------------
(***************************************************************************)
(* The sizes of the DPDK transport's transmit half, and how the constants  *)
(* of the reused mbuf relate to them (the comment beside REFCNT_LOW).      *)
(***************************************************************************)
EXTENDS Integers, FiniteSets

CONSTANTS Mbufs,         \* the pool, a set of positive numbers
          NbTxDesc,
          REFCNT_LOW, REFCNT_TOPUP,
          RefcntWidth    \* 2^16: what the reference count can hold

ASSUME DpdkTxAssumption ==
    /\ Mbufs \subseteq Nat \ {0} /\ IsFiniteSet(Mbufs)
    /\ {NbTxDesc, REFCNT_LOW, REFCNT_TOPUP, RefcntWidth} \subseteq Nat \ {0}
    /\ NbTxDesc + 1 < REFCNT_LOW /\ NbTxDesc + 1 < REFCNT_TOPUP
    /\ REFCNT_LOW + REFCNT_TOPUP <= RefcntWidth
=============================================================================
