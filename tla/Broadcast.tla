----------------------------- MODULE Broadcast -----------------------------
(***************************************************************************)
(* What an audio service promises its consumers, whatever its queues and   *)
(* threads do: blocks are numbered, a consumer that joins is given those   *)
(* published from then on, each once and in order, none left out as long   *)
(* as it is kept, and none that has not been published.                    *)
(***************************************************************************)
EXTENDS Integers

CONSTANT Consumer

VARIABLES published, \* blocks published so far
          place,     \* the block each consumer has to be given next, 0 outside
          kept       \* the consumers that are still served

Init ==
    /\ published = 0
    /\ place = [c \in Consumer |-> 0]
    /\ kept = {}

Publish ==
    /\ published' = published + 1
    /\ UNCHANGED <<place, kept>>

Join(c) ==
    /\ place[c] = 0
    /\ place' = [place EXCEPT ![c] = published + 1]
    /\ kept' = kept \cup {c}
    /\ UNCHANGED published

\* A consumer that is kept is given the very next block, another one a later one.
Hear(c) ==
    /\ place[c] > 0
    /\ \E b \in place[c] .. published :
         /\ c \in kept => b = place[c]
         /\ place' = [place EXCEPT ![c] = b + 1]
    /\ UNCHANGED <<published, kept>>

Drop ==
    /\ kept' \subseteq kept
    /\ UNCHANGED <<published, place>>

Leave(c) ==
    /\ place[c] > 0
    /\ place' = [place EXCEPT ![c] = 0]
    /\ kept' = kept \ {c}
    /\ UNCHANGED published

Next == Publish \/ Drop \/ \E c \in Consumer : Join(c) \/ Hear(c) \/ Leave(c)

Spec == Init /\ [][Next]_<<published, place, kept>>
=============================================================================
