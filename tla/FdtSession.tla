----------------------------- MODULE FdtSession -----------------------------
(***************************************************************************)
(* What the FDT console promises about the tuning it publishes for the     *)
(* tracking process.  A session is off, or on with one pair of frequencies *)
(* at the satellite.  Every change is one atomic step: a wheel click moves *)
(* both halves of the pair that is published, never a stale one, and stays *)
(* inside the passband.  Once sealed by the end of a pass the session      *)
(* stays off until the next pass opens it.                                 *)
(***************************************************************************)
EXTENDS Integers

CONSTANTS DownBand, UpBand, Inverting, Cadence, Source, Off

VARIABLES session, sealed

Pair == [d : Int, u : Int, every : Cadence, by : Source]

Init == session = Off /\ sealed = FALSE

Anchor ==
  /\ ~sealed /\ ~sealed'
  /\ session' \in Pair /\ session'.by = "radio"

Click(dir) ==
  /\ session # Off /\ ~sealed'
  /\ session' # Off
  /\ session'.d = session.d + dir /\ session'.d \in DownBand
  /\ session'.u = session.u + (IF Inverting THEN -dir ELSE dir)
  /\ session'.u \in UpBand
  /\ session'.every \in Cadence /\ session'.by = "wheel"

Recadence ==
  /\ session # Off /\ ~sealed'
  /\ \E e \in Cadence : session' = [session EXCEPT !.every = e]

Clear ==
  /\ session' = Off
  /\ sealed => sealed'

Open == sealed /\ ~sealed' /\ UNCHANGED session

Next == Anchor \/ (\E dir \in {-1, 1} : Click(dir)) \/ Recadence \/ Clear \/ Open

Spec == Init /\ [][Next]_<<session, sealed>>
=============================================================================
