-------------------------- MODULE MCInvestigations --------------------------
EXTENDS Investigations, TLC

\* The workers are interchangeable.
Symmetry == Permutations(Workers)
=============================================================================
