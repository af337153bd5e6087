--------------------------- MODULE MCScheduleFile ---------------------------
(* Instances of ScheduleFile: the .cfg files give every constant its value.    *)
EXTENDS ScheduleFile, TLC
=============================================================================
