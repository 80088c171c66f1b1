----------------------------- MODULE MCStorage -----------------------------
(* Two pages of two rows and one of a single row; five rows in three pieces of the index. *)
EXTENDS Storage, TLC

CONSTANTS t1, t2

Order == <<3, 0, 4, 1, 2>>

\* Both threads have a row in page 0; each has another page of its own.
Rows == t1 :> {0, 2} @@ t2 :> {1}

\* A buffer that must write pages back is called by one thread at a time; in
\* parallel, all pages fit.
SmallOrParallel ==
  {[page_num |-> 2, calls |-> "locked"], [page_num |-> 2, calls |-> "serial"],
   [page_num |-> 3, calls |-> "parallel"]}

\* A buffer too small for the table, called in parallel.
SmallAndParallel == {[page_num |-> 2, calls |-> "parallel"]}
=============================================================================
