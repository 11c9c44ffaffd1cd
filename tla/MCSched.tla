------------------------------ MODULE MCSched ------------------------------
(***************************************************************************)
(* Instances of Sched for TLC.  One M more than there are goroutines is    *)
(* enough: an M that holds no goroutine is in the pool, except the one     *)
(* that holds the lock, so matchmg never finds all of them busy (if it     *)
(* did, TLC would report a deadlock).                                      *)
(***************************************************************************)
EXTENDS Sched, TLC

CONSTANTS g1, g2, g3, m1, m2, m3, m4

MCG == {g1, g2, g3}
MCM == {m1, m2, m3, m4}

\* Two goroutines and three Ms for liveness and for the counterexamples.
MCG2 == {g1, g2}
MCM3 == {m1, m2, m3}
MCmain == g1
MCm0 == m1

\* The goroutines other than main, and the Ms other than m0, are alike.
Perms == Permutations({g2, g3}) \cup Permutations({m2, m3, m4})

\* The goroutines that may wire themselves and be called back: both of two.
MCWirable == {g1, g2}
=============================================================================
