------------------------------ MODULE KeyValue ------------------------------
(***************************************************************************)
(* What the storage of one process promises to its transactions: a map     *)
(* from keys to row versions that can be opened and closed, in which a     *)
(* write changes one row and a read returns what the row holds.            *)
(***************************************************************************)
EXTENDS Naturals

CONSTANTS
  Key, Version, Thread,
  Nothing   \* what a thread that has not read yet has for a result

VARIABLES
  kv,       \* the version each row holds
  open,     \* whether the rows can be read and written
  result    \* what each thread read last

vars == <<kv, open, result>>

Init ==
  /\ kv = [k \in Key |-> 0]
  /\ open = FALSE
  /\ result = [t \in Thread |-> Nothing]

Write(k, v) ==
  /\ open
  /\ kv' = [kv EXCEPT ![k] = v]
  /\ UNCHANGED <<open, result>>

Read(t, k) ==
  /\ open
  /\ result' = [result EXCEPT ![t] = [key |-> k, version |-> kv[k]]]
  /\ UNCHANGED <<kv, open>>

\* Opening and closing lose no write.
Open == ~open /\ open' = TRUE /\ UNCHANGED <<kv, result>>

Close ==
  /\ open /\ open' = FALSE
  /\ result' = [t \in Thread |-> Nothing]
  /\ UNCHANGED kv

Next ==
  \/ \E k \in Key, v \in Version : Write(k, v)
  \/ \E t \in Thread, k \in Key : Read(t, k)
  \/ Open \/ Close

Spec == Init /\ [][Next]_vars
=============================================================================
