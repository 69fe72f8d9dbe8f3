-------------------------- MODULE MCThreadDispatch --------------------------
(* Instances of ThreadDispatch for TLC. *)
EXTENDS ThreadDispatch, TLC

\* Workers are alike, and what a card renders to is only compared.
DispatchSymmetry == Permutations(Workers) \cup Permutations(Contents)
=============================================================================
