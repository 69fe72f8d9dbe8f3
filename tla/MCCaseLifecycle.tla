-------------------------- MODULE MCCaseLifecycle --------------------------
(* Instances of CaseLifecycle for TLC. *)
EXTENDS CaseLifecycle, TLC

\* endsAt claims: none, or none and one that is past from instant 1 on.
NoEnds    == {NoTime}
EndsEarly == {NoTime, 0}

SourceSymmetry == Permutations(Sources)
=============================================================================
