------------------------------ MODULE MCPageLock ------------------------------
(***************************************************************************)
(* Instances of PageLock for TLC.                                          *)
(***************************************************************************)
EXTENDS PageLock, TLC

CONSTANTS A, B, a1, a2, b1

\* One worker per instance; two workers in A and one in B.
OneEach == (a1 :> A) @@ (b1 :> B)
TwoOne == (a1 :> A) @@ (a2 :> A) @@ (b1 :> B)

\* Page 0 is the one the Invalid handler checks once more.
OnePage == {{0}}

\* The two workers of A are interchangeable.
Workers == Permutations({a1, a2})
=============================================================================
