------------------------------ MODULE MCRemedy ------------------------------
EXTENDS Remedy, TLC
=============================================================================
