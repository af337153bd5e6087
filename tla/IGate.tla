------------------------------- MODULE IGate -------------------------------
(***************************************************************************)
(* The APRS-IS gateway of a live APRS decoder: the decoder's thread hands  *)
(* packets to submit, the gate's own thread keeps a connection to the      *)
(* server and uploads them, and the session closes the gate when reception *)
(* stops.  src/plugins/bqe_aprs_decoder/igate.py and service.py (Session). *)
(*                                                                         *)
(* The decoders of one installation share the settings file and the lock   *)
(* file of the uploader.  Each block under a gate's own lock is one step.  *)
(* Left out: the station's beacon, and the 2000 entries that recent keeps  *)
(* at most, more than a channel carries in Memory.                         *)
(***************************************************************************)
EXTENDS Naturals, Sequences

CONSTANTS Gate,      \* the gates: one for each live reception of a decoder
          None,      \* nobody
          Key,       \* packets, equal when only their paths differ (gate_packet)
          Settings,  \* the settings that may be saved: 0 is disabled
          Depth,     \* maxsize of the queue (100 in the code)
          Fresh,     \* ticks a packet may wait in it (15 s)
          Memory,    \* ticks a duplicate is suppressed (30 s)
          Horizon,   \* bound: the last instant modelled
          MaxEdit    \* bound: times the settings are saved

ASSUME IGateAssumption ==
    /\ None \notin Gate
    /\ Settings \subseteq Nat /\ 0 \in Settings
    /\ Depth \in Nat \ {0}
    /\ Fresh \in Nat /\ Memory \in Nat
    /\ Horizon \in Nat \ {0}
    /\ MaxEdit \in Nat

VARIABLES
    now,      \* time.monotonic()
    saved,    \* the settings file
    edits,    \* times it was saved
    owner,    \* the gate that holds aprs-is.lock
    thread,   \* where each gate's thread is
    used,     \* the settings it has read
    stop,     \* stop_event
    closing,  \* where IGate.close is
    state,    \* status['state']
    config,   \* self.config, 0 for None
    queue,    \* self.queue: when a packet came, its key, the callsign's
              \* settings, and (history) whether its connection still lasts
    recent,   \* self.recent: when each key was queued, 0 for not there
    last,     \* history: when the last uploaded copy of each key had come
    faults    \* history: what was wrong with an upload

files == <<now, saved, edits>>
marks == <<last, faults>>
vars == <<files, owner, thread, used, stop, closing, state, config, queue, recent, marks>>

Time == 1 .. Horizon
Verified == Settings \ {0}
Packet == [at : Time, key : Key, by : Verified, live : BOOLEAN]
Label == {"none", "lock", "top", "connect", "login", "verified", "live",
          "wait", "hangup", "drain", "release", "dead"}

TypeOK ==
    /\ now \in Time
    /\ saved \in Settings
    /\ edits \in 0 .. MaxEdit
    /\ owner \in Gate \cup {None}
    /\ thread \in [Gate -> Label]
    /\ used \in [Gate -> Settings]
    /\ stop \in [Gate -> BOOLEAN]
    /\ closing \in [Gate -> {"no", "join", "done"}]
    /\ state \in [Gate -> {"waiting", "blocked", "disabled", "connecting", "connected",
                           "reconnecting", "error", "stopped"}]
    /\ config \in [Gate -> Settings]
    /\ queue \in [Gate -> Seq(Packet)]
    /\ \A g \in Gate : Len(queue[g]) <= Depth
    /\ recent \in [Gate -> [Key -> Time \cup {0}]]
    /\ last \in [Gate -> [Key -> Time \cup {0}]]
    /\ faults \subseteq {"twice", "replayed", "foreign"}

Init ==
    /\ now = 1
    /\ saved \in Settings
    /\ edits = 0
    /\ owner = None
    /\ thread = [g \in Gate |-> "none"]
    /\ used = [g \in Gate |-> 0]
    /\ stop = [g \in Gate |-> FALSE]
    /\ closing = [g \in Gate |-> "no"]
    /\ state = [g \in Gate |-> "waiting"]
    /\ config = [g \in Gate |-> 0]
    /\ queue = [g \in Gate |-> <<>>]
    /\ recent = [g \in Gate |-> [k \in Key |-> 0]]
    /\ last = [g \in Gate |-> [k \in Key |-> 0]]
    /\ faults = {}

Goto(g, from, to) ==
    /\ thread[g] = from
    /\ thread' = [thread EXCEPT ![g] = to]

Shows(g, s) == state' = [state EXCEPT ![g] = s]
-----------------------------------------------------------------------------
(* The decoder: its session opens a live source, submits what it hears, and  *)
(* closes the gate.                                                          *)

\* input_ready: a source that is not a live receiver never starts the gate.
InputReady(g) ==
    /\ thread[g] = "none"
    /\ closing[g] = "no"
    /\ \/ Goto(g, "none", "lock") /\ UNCHANGED state
       \/ Goto(g, "none", "dead") /\ Shows(g, "blocked")
    /\ UNCHANGED <<files, owner, used, stop, closing, config, queue, recent, marks>>

\* What is left of recent once the oldest entries are popped.
Pruned(g) == [k \in Key |-> IF recent[g][k] # 0 /\ now - recent[g][k] > Memory THEN 0 ELSE recent[g][k]]

\* Mutant: a digipeated copy is taken for a packet of its own.
SubmitAll(g, k) ==
    /\ closing[g] = "no"
    /\ thread[g] # "none"
    /\ state[g] = "connected"
    /\ config[g] # 0
    /\ Len(queue[g]) < Depth
    /\ queue' = [queue EXCEPT ![g] = Append(@, [at |-> now, key |-> k, by |-> config[g], live |-> TRUE])]
    /\ recent' = [recent EXCEPT ![g] = [Pruned(g) EXCEPT ![k] = now]]
    /\ UNCHANGED <<files, owner, thread, used, stop, closing, state, config, marks>>

\* submit: dropped unless there is a verified connection; a copy is filtered; a
\* full queue drops the packet and leaves its key out of recent.
Submit(g, k) ==
    /\ closing[g] = "no"
    /\ thread[g] # "none"
    /\ state[g] = "connected"
    /\ config[g] # 0
    /\ IF Pruned(g)[k] = 0 /\ Len(queue[g]) < Depth
       THEN /\ queue' = [queue EXCEPT ![g] =
                             Append(@, [at |-> now, key |-> k, by |-> config[g], live |-> TRUE])]
            /\ recent' = [recent EXCEPT ![g] = [Pruned(g) EXCEPT ![k] = now]]
       ELSE /\ recent' = [recent EXCEPT ![g] = Pruned(g)]
            /\ UNCHANGED queue
    /\ UNCHANGED <<files, owner, thread, used, stop, closing, state, config, marks>>

\* close: the event, and the socket if there is one, which ends its writes ...
Close(g) ==
    /\ closing[g] = "no"
    /\ closing' = [closing EXCEPT ![g] = "join"]
    /\ stop' = [stop EXCEPT ![g] = TRUE]
    /\ UNCHANGED <<files, owner, thread, used, state, config, queue, recent, marks>>

\* ... then seven seconds for the thread, which only a connection attempt takes
\* longer than, and the outcome.
Closed(g) ==
    /\ closing[g] = "join"
    /\ thread[g] \in {"none", "dead", "connect"}
    /\ closing' = [closing EXCEPT ![g] = "done"]
    /\ Shows(g, "stopped")
    /\ UNCHANGED <<files, owner, thread, used, stop, config, queue, recent, marks>>

Session(g) == Close(g) \/ Closed(g) \/ InputReady(g) \/ \E k \in Key : Submit(g, k)
-----------------------------------------------------------------------------
(* The gate's thread. *)

\* run: one uploader in an installation; the others end.
TakeLock(g) ==
    /\ IF owner = None
       THEN Goto(g, "lock", "top") /\ owner' = g /\ UNCHANGED state
       ELSE Goto(g, "lock", "dead") /\ Shows(g, "blocked") /\ UNCHANGED owner
    /\ UNCHANGED <<files, used, stop, closing, config, queue, recent, marks>>

\* Mutant: the settings are looked at first.
ReadSettingsFirst(g) ==
    /\ used' = [used EXCEPT ![g] = saved]
    /\ \/ Goto(g, "top", "release") /\ stop[g] /\ saved # 0 /\ UNCHANGED state
       \/ Goto(g, "top", "top") /\ saved = 0 /\ Shows(g, "disabled")
       \/ Goto(g, "top", "connect") /\ ~stop[g] /\ saved # 0 /\ Shows(g, "connecting")
    /\ UNCHANGED <<files, owner, stop, closing, config, queue, recent, marks>>

\* The head of _run's loop.  While disabled it looks again every second.
ReadSettings(g) ==
    /\ used' = [used EXCEPT ![g] = IF stop[g] THEN @ ELSE saved]
    /\ \/ Goto(g, "top", "release") /\ stop[g] /\ UNCHANGED state
       \/ Goto(g, "top", "top") /\ ~stop[g] /\ saved = 0 /\ Shows(g, "disabled")
       \/ Goto(g, "top", "connect") /\ ~stop[g] /\ saved # 0 /\ Shows(g, "connecting")
    /\ UNCHANGED <<files, owner, stop, closing, config, queue, recent, marks>>

Connect(g) ==
    /\ Goto(g, "connect", "login")
    /\ UNCHANGED <<files, owner, used, stop, closing, state, config, queue, recent, marks>>

\* The server's greeting and its answer to the login; read_line looks at stop.
LoggedIn(g) ==
    /\ ~stop[g]
    /\ Goto(g, "login", "verified")
    /\ config' = [config EXCEPT ![g] = used[g]]
    /\ UNCHANGED <<files, owner, used, stop, closing, state, queue, recent, marks>>

ShowConnected(g) ==
    /\ Goto(g, "verified", "live")
    /\ Shows(g, "connected")
    /\ UNCHANGED <<files, owner, used, stop, closing, config, queue, recent, marks>>

\* Mutant: an error is shown although the gate is being closed.
FailLoudly(g) ==
    /\ \E from \in {"top", "connect", "login", "live"} : Goto(g, from, "wait")
    /\ thread[g] = "top" => ~stop[g]
    /\ Shows(g, "error")
    /\ UNCHANGED <<files, owner, used, stop, closing, config, queue, recent, marks>>

\* An OSError, settings that cannot be read, or a login that is refused: shown, unless the gate is closing,
\* and followed by a wait, during which nothing is submitted.
Fail(g) ==
    /\ \E from \in {"top", "connect", "login", "live"} : Goto(g, from, "wait")
    /\ thread[g] = "top" => ~stop[g]
    /\ state' = IF stop[g] THEN state ELSE [state EXCEPT ![g] = "error"]
    /\ UNCHANGED <<files, owner, used, stop, closing, config, queue, recent, marks>>

Waited(g) ==
    /\ Goto(g, "wait", "hangup")
    /\ UNCHANGED <<files, owner, used, stop, closing, state, config, queue, recent, marks>>

\* The loop is left for changed settings, or because the gate is closing.
LeaveLoop(g) ==
    /\ stop[g] \/ saved # used[g]
    /\ Goto(g, "live", "hangup")
    /\ UNCHANGED <<files, owner, used, stop, closing, state, config, queue, recent, marks>>

\* One packet of the queue: dropped when it is stale, else sent.
Upload(g) ==
    /\ thread[g] = "live"
    /\ ~stop[g]
    /\ queue[g] # <<>>
    /\ queue' = [queue EXCEPT ![g] = Tail(@)]
    /\ LET p == Head(queue[g])
       IN  IF now - p.at > Fresh
           THEN UNCHANGED marks
           ELSE /\ last' = [last EXCEPT ![g][p.key] = p.at]
                /\ faults' = faults
                     \cup (IF last[g][p.key] # 0 /\ p.at - last[g][p.key] <= Memory THEN {"twice"} ELSE {})
                     \cup (IF p.live THEN {} ELSE {"replayed"})
                     \cup (IF p.by = used[g] THEN {} ELSE {"foreign"})
    /\ UNCHANGED <<files, owner, thread, used, stop, closing, state, config, recent>>

\* The finally: under the lock, no connection ...
HangUp(g) ==
    /\ Goto(g, "hangup", "drain")
    /\ config' = [config EXCEPT ![g] = 0]
    /\ state' = [state EXCEPT ![g] = IF @ = "connected" THEN "reconnecting" ELSE @]
    /\ queue' = [queue EXCEPT ![g] = [i \in DOMAIN @ |-> [@[i] EXCEPT !.live = FALSE]]]
    /\ UNCHANGED <<files, owner, used, stop, closing, recent, marks>>

\* Mutant: what waits in the queue is kept for the next connection.
DrainNot(g) ==
    /\ Goto(g, "drain", "top")
    /\ UNCHANGED <<files, owner, used, stop, closing, state, config, queue, recent, marks>>

\* ... and then an empty queue.
Drain(g) ==
    /\ Goto(g, "drain", "top")
    /\ queue' = [queue EXCEPT ![g] = <<>>]
    /\ UNCHANGED <<files, owner, used, stop, closing, state, config, recent, marks>>

Release(g) ==
    /\ Goto(g, "release", "dead")
    /\ owner' = None
    /\ UNCHANGED <<files, used, stop, closing, state, config, queue, recent, marks>>

Thread(g) ==
    \/ TakeLock(g) \/ ReadSettings(g) \/ Connect(g) \/ LoggedIn(g) \/ ShowConnected(g)
    \/ Fail(g) \/ Waited(g) \/ LeaveLoop(g) \/ Upload(g) \/ HangUp(g) \/ Drain(g) \/ Release(g)
-----------------------------------------------------------------------------
\* The operator saves other settings (SettingsStore.save).
Save(v) ==
    /\ edits < MaxEdit
    /\ v # saved
    /\ saved' = v
    /\ edits' = edits + 1
    /\ UNCHANGED <<now, owner, thread, used, stop, closing, state, config, queue, recent, marks>>

Tick ==
    /\ now < Horizon
    /\ now' = now + 1
    /\ UNCHANGED <<saved, edits, owner, thread, used, stop, closing, state, config, queue, recent, marks>>

Next ==
    \/ \E g \in Gate : Session(g) \/ Thread(g)
    \/ \E v \in Settings : Save(v)
    \/ Tick

Spec == Init /\ [][Next]_vars

\* A gate's thread goes on: each of its calls has a timeout.
FairSpec == Spec /\ \A g \in Gate : WF_vars(Thread(g))
-----------------------------------------------------------------------------
(***************************************************************************)
(* What is uploaded was heard on the connection that carries it, under     *)
(* the callsign that connection logged in with: nothing waits out a lost   *)
(* connection or a change of settings (submit, the finally of _run).       *)
(***************************************************************************)
OnlyLive == faults \cap {"replayed", "foreign"} = {}

(***************************************************************************)
(* No two copies of a packet that came within Memory of each other are     *)
(* uploaded by a gate, whatever became of its connection in between        *)
(* (submit, recent).                                                       *)
(***************************************************************************)
NoDuplicate == "twice" \notin faults

(***************************************************************************)
(* A gate that was closed stays shown as stopped, even when its thread     *)
(* was still waiting for a connection and fails or gets it later (close).  *)
(***************************************************************************)
StaysStopped == \A g \in Gate : closing[g] = "done" => state[g] = "stopped"

(***************************************************************************)
(* A gate that is closed gives up the uploader's lock, so that the next    *)
(* decoder may have it (run, close).                                       *)
(***************************************************************************)
GivesUpLock == \A g \in Gate : closing[g] # "no" ~> owner # g
=============================================================================
