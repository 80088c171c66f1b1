------------------------------ MODULE MCMvccTxn ------------------------------
(***************************************************************************)
(* Instances of MvccTxn for TLC.                                           *)
(***************************************************************************)
EXTENDS MvccTxn, TLC

CONSTANTS k1, k2

RD(k) == [key |-> k, rtype |-> "RD"]
WR(k) == [key |-> k, rtype |-> "WR"]

\* One row: every transaction reads it or writes it.
OneRow == {<<RD(k1)>>, <<WR(k1)>>}

\* Two rows: transactions that prewrite them in opposite orders, and readers.
TwoRows == {<<WR(k1), WR(k2)>>, <<WR(k2), RD(k1)>>, <<RD(k1), RD(k2)>>}

Symmetry == Permutations(Thread)
=============================================================================
