----------------------------- MODULE MCCluster -----------------------------
(***************************************************************************)
(* Instances of Cluster for TLC.                                           *)
(***************************************************************************)
EXTENDS Cluster, TLC

RD(k) == [key |-> k, rtype |-> "RD"]
WR(k) == [key |-> k, rtype |-> "WR"]

\* Transactions that write both pages, and transactions that read one row: a
\* read makes an older writer abort after it was granted its first row.
WriteBoth == {<<WR(0), WR(1)>>, <<RD(1)>>}

\* One row, written by every transaction.
OneRow == {<<WR(0)>>}

\* The workers of A are interchangeable.
WorkersA == Permutations(ThreadA)
=============================================================================
