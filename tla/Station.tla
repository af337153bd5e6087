------------------------------ MODULE Station ------------------------------
(***************************************************************************)
(* What the scheduler promises about the station's two shared devices: the *)
(* radio is used by an idle preset or by a pass, the sound input by a menu *)
(* recording or by a pass, never by two of them, and a device changes      *)
(* hands only after its user has let go of it.                             *)
(***************************************************************************)
VARIABLES
  radio,   \* "free", "idle" or "pass"
  sound    \* "free", "menu" or "pass"

Init == radio = "free" /\ sound = "free"

UseRadio == radio = "free" /\ radio' = "idle" /\ UNCHANGED sound
LeaveRadio == radio = "idle" /\ radio' = "free" /\ UNCHANGED sound
UseSound == sound = "free" /\ sound' = "menu" /\ UNCHANGED radio
LeaveSound == sound = "menu" /\ sound' = "free" /\ UNCHANGED radio

BeginPass ==
  /\ radio = "free" /\ sound = "free"
  /\ radio' = "pass" /\ sound' = "pass"

EndPass ==
  /\ radio = "pass" /\ sound = "pass"
  /\ radio' = "free" /\ sound' = "free"

Next ==
  UseRadio \/ LeaveRadio \/ UseSound \/ LeaveSound \/ BeginPass \/ EndPass

Spec == Init /\ [][Next]_<<radio, sound>>
=============================================================================
