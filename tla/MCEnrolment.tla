---------------------------- MODULE MCEnrolment ----------------------------
(* A small instance of Enrolment for TLC: machines are interchangeable,    *)
(* and so are codes and workers.                                           *)
EXTENDS Enrolment, TLC

CONSTANTS m1, m2, c1, c2, w1, w2
Interchangeable == Permutations({m1, m2}) \cup Permutations({c1, c2}) \cup Permutations({w1, w2})
=============================================================================
