-------------------------- MODULE MCPassProcesses --------------------------
EXTENDS PassProcesses
=============================================================================
