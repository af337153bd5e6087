---------------------------- MODULE PassAnnouncer ----------------------------
(***************************************************************************)
(* Spoken announcements: the scheduler queues one at the beginning and at  *)
(* the end of a pass, a worker thread speaks them one by one, and web      *)
(* threads disable and enable speech for the session.                      *)
(* src/plugins/pass_announcements.py (PassAnnouncer).                      *)
(* Announcements are numbered in the order they are asked for.             *)
(***************************************************************************)
EXTENDS Naturals, Sequences

CONSTANTS Limit,      \* maxsize of the queue (8 in the code)
          MaxSay,     \* bound: announcements asked for
          MaxDisable  \* bound: times speech is disabled

ASSUME AnnouncerAssumption ==
    /\ Limit \in Nat \ {0}
    /\ MaxSay \in Nat
    /\ MaxDisable \in Nat

VARIABLES
    override,    \* enabled_override
    generation,
    pending,     \* the queue
    speaker,     \* where the worker is, "none" before there is one
    held,        \* what it took from the queue
    asker,       \* where the scheduler is in announce
    said,        \* announcements asked for
    silenced,    \* history: announcements that waited when speech was disabled
    spoken       \* history: announcements the worker began to speak

announceVars ==
    <<override, generation, pending, speaker, held, asker, said, silenced, spoken>>

Message == [number : Nat, generation : Nat]
NoMessage == [number |-> 0, generation |-> 0]

AnnouncerTypeOK ==
    /\ override \in {"unset", "on", "off"}
    /\ generation \in 0 .. MaxDisable
    /\ pending \in Seq(Message)
    /\ Len(pending) <= Limit
    /\ speaker \in {"none", "get", "judge", "speak"}
    /\ held \in Message
    /\ asker \in {"idle", "queue"}
    /\ said \in 0 .. MaxSay
    /\ silenced \subseteq 1 .. MaxSay
    /\ spoken \subseteq 1 .. MaxSay

AnnouncerInit ==
    /\ override = "unset"
    /\ generation = 0
    /\ pending = <<>>
    /\ speaker = "none"
    /\ held = NoMessage
    /\ asker = "idle"
    /\ said = 0
    /\ silenced = {}
    /\ spoken = {}

\* What waits to be judged by the worker.
Waiting ==
    {pending[i].number : i \in DOMAIN pending}
      \cup (IF speaker = "judge" THEN {held.number} ELSE {})

\* Mutant: the generation stays.
DisableOnly ==
    /\ generation < MaxDisable
    /\ override' = "off"
    /\ silenced' = silenced \cup Waiting
    /\ UNCHANGED <<generation, pending, speaker, held, asker, said, spoken>>

Disable ==
    /\ generation < MaxDisable
    /\ override' = "off"
    /\ generation' = generation + 1
    /\ silenced' = silenced \cup Waiting
    /\ UNCHANGED <<pending, speaker, held, asker, said, spoken>>

Enable ==
    /\ override' = "on"
    /\ UNCHANGED <<generation, pending, speaker, held, asker, said, silenced, spoken>>

\* announce, up to its lock; the configuration may say either.
Announce ==
    /\ asker = "idle"
    /\ said < MaxSay
    /\ said' = said + 1
    /\ \E configured \in BOOLEAN :
         asker' = IF override = "on" \/ (override = "unset" /\ configured)
                  THEN "queue" ELSE "idle"
    /\ UNCHANGED <<override, generation, pending, speaker, held, silenced, spoken>>

\* Under the lock: a full queue skips the announcement.
Enqueue ==
    /\ asker = "queue"
    /\ asker' = "idle"
    /\ IF override = "off"
       THEN UNCHANGED <<speaker, pending>>
       ELSE /\ speaker' = IF speaker = "none" THEN "get" ELSE speaker
            /\ pending' = IF Len(pending) = Limit THEN pending
                          ELSE Append(pending, [number |-> said, generation |-> generation])
    /\ UNCHANGED <<override, generation, held, said, silenced, spoken>>

Take ==
    /\ speaker = "get"
    /\ pending # <<>>
    /\ held' = Head(pending)
    /\ pending' = Tail(pending)
    /\ speaker' = "judge"
    /\ UNCHANGED <<override, generation, asker, said, silenced, spoken>>

\* Under the lock again; then the lock is released and the voice synthesized.
Judge ==
    /\ speaker = "judge"
    /\ speaker' = IF override = "off" \/ held.generation # generation
                  THEN "get" ELSE "speak"
    /\ UNCHANGED <<override, generation, pending, held, asker, said, silenced, spoken>>

\* Failed or not, the worker goes on.
Speak ==
    /\ speaker = "speak"
    /\ speaker' = "get"
    /\ spoken' = spoken \cup {held.number}
    /\ UNCHANGED <<override, generation, pending, held, asker, said, silenced>>

Speaking == Take \/ Judge \/ Speak

AnnouncerNext == Disable \/ Enable \/ Announce \/ Enqueue \/ Speaking

AnnouncerSpec == AnnouncerInit /\ [][AnnouncerNext]_announceVars
-----------------------------------------------------------------------------
\* An announcement that waited while speech was disabled is not spoken later, even
\* if speech was enabled again before its turn came (set_enabled, _run).
SilencedStays == spoken \cap silenced = {}
=============================================================================
