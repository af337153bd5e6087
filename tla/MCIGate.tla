------------------------------ MODULE MCIGate ------------------------------
EXTENDS IGate
=============================================================================
