---------------------------- MODULE MCFdtControl ----------------------------
(***************************************************************************)
(* FdtControl for TLC: passbands of three steps around the midpoint.       *)
(* LiveView hides a thread's local variables where they are dead: each is  *)
(* assigned again before it is next read.                                  *)
(***************************************************************************)
EXTENDS FdtControl, TLC

CONSTANTS w1, w2

MCBand == -1..1
MCDials == {[d |-> 1, u |-> 0]}

Symmetry == Permutations(Web)

Enabling == {"enReadDown", "enReadUp", "enSetDown", "enSetUp"}
RollingBack == {"enWrite", "enReplace", "enBackDown", "enBackUp"}
Pacing == {"ivRead", "ivState", "ivLock", "ivReplace"}
Clicking == {"tnLock", "tnSetDown", "tnSetUp", "tnBack"}

Live(w) ==
  LET at == pc[w]
      inside == at \in Pacing /\ then[w] = "enReadDown"
  IN <<at,
       IF at \in {"enCheck", "psCheck"} \cup Enabling \cup Clicking \/ inside
         THEN seen[w] ELSE NoStatus,
       IF at \in {"enCheck"} \cup Pacing THEN want[w] ELSE YamlPace,
       inside,
       IF at \in {"enSetDown", "enSetUp", "enWrite", "tnSetDown", "tnSetUp",
                  "tnWrite", "enReplace", "ivReplace", "tnReplace"}
         THEN pay[w] ELSE [Blank EXCEPT !.for =
           IF at \in Enabling \/ inside THEN pay[w].for ELSE 0],
       IF at \in Enabling \cup RollingBack THEN old[w] ELSE Midpoint>>

LiveView ==
  <<bossVars, every, lock, file, stamps, radio, status, trk, acts,
    [w \in Web |-> Live(w)]>>
=============================================================================
