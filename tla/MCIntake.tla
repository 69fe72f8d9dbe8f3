------------------------------ MODULE MCIntake ------------------------------
EXTENDS Intake, TLC
=============================================================================
