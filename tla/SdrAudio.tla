------------------------------ MODULE SdrAudio ------------------------------
(***************************************************************************)
(* The software-defined receiver: the web threads that start and stop it,  *)
(* its worker (Session._run), the driver thread of a USB tuner, the        *)
(* AudioHub that fans the audio out, and one HTTP handler per consumer.    *)
(* src/plugins/bqe_sdr/service.py, bqe_sdr.py and sources.py.              *)
(*                                                                         *)
(* publish and close hold the hub's lock; a handler takes from its queue   *)
(* without it.  So a drain of the hub is one step for each call it makes   *)
(* on the queue, and the handler's get may come between any two of them.   *)
(* Blocks are numbered in the order of their publication, through all      *)
(* receptions.  A connection holds the block that is being written.        *)
(***************************************************************************)
EXTENDS Integers, Sequences, FiniteSets

CONSTANTS Consumer,     \* HTTP connections that may ask for /audio
          Depth,        \* maxsize of a consumer's queue (128 in the code)
          MaxClients,   \* consumers the hub accepts (16)
          Kinds,        \* sources used: "usb" has a driver thread, "tcp" none
          MaxBlock,     \* bound: blocks published
          MaxSession    \* bound: receptions started

ASSUME SdrAssumption ==
    /\ Depth \in Nat \ {0}
    /\ MaxClients \in Nat \ {0}
    /\ Kinds \subseteq {"usb", "tcp"}
    /\ MaxBlock \in Nat
    /\ MaxSession \in Nat

VARIABLES
    state,    \* Session.state['state']
    stop,     \* Session.stop_event
    stopper,  \* a /stop request between setting the event and taking the lock
    worker,   \* where the worker thread is
    kind,     \* the kind of source it opened
    drivers,  \* receptions whose USB driver thread is alive
    failed,   \* why the worker is leaving: "no", "source" or "hub"
    active,   \* AudioHub.active
    clients,  \* AudioHub.clients
    queue,    \* each consumer's queue.Queue
    todo,     \* clients the running publish or close has still to serve
    cur,      \* the clients it is draining: at most one
    number,   \* blocks published so far
    session,  \* receptions started so far
    joined,   \* the reception during which each consumer subscribed
    next,     \* history: the block each consumer has to be given next
    gap,      \* history: a consumer was given another one
    stream,   \* where each handler is
    conn,     \* the HTTP connection, as its client sees it
    wire      \* the block its handler is writing to it, End for none

rxVars == <<state, stop, stopper, worker, kind, drivers, failed, session>>
hubVars == <<active, clients, todo, cur, number>>
conVars == <<joined, stream>>
seen == <<next, gap>>
net == <<conn, wire>>
sdrVars == <<rxVars, hubVars, queue, conVars, seen, net>>

\* The None that a dropped consumer finds in its queue.
End == 0
Block == 1 .. MaxBlock
Ended == {"stopped", "completed", "error"}

SdrTypeOK ==
    /\ state \in {"idle", "starting", "running", "stopping"} \cup Ended
    /\ stop \in BOOLEAN
    /\ stopper \in BOOLEAN
    /\ worker \in {"dead", "open", "loop", "publish", "drain", "take",
                   "leave", "close", "closing"}
    /\ kind \in {"usb", "tcp"}
    /\ drivers \subseteq 1 .. MaxSession
    /\ failed \in {"no", "source", "hub"}
    /\ active \in BOOLEAN
    /\ clients \subseteq Consumer
    /\ Cardinality(clients) <= MaxClients
    /\ queue \in [Consumer -> Seq(Block \cup {End})]
    /\ \A c \in Consumer : Len(queue[c]) <= Depth
    /\ todo \subseteq Consumer
    /\ cur \subseteq Consumer
    /\ number \in 0 .. MaxBlock
    /\ session \in 0 .. MaxSession
    /\ joined \in [Consumer -> 0 .. MaxSession]
    /\ next \in [Consumer -> Nat]
    /\ gap \in [Consumer -> BOOLEAN]
    /\ stream \in [Consumer -> {"none", "stream", "leave"}]
    /\ conn \in [Consumer -> {"none", "asked", "open", "shut", "ended"}]
    /\ wire \in [Consumer -> Block \cup {End}]

SdrInit ==
    /\ state = "idle"
    /\ stop = FALSE
    /\ stopper = FALSE
    /\ worker = "dead"
    /\ kind \in Kinds
    /\ drivers = {}
    /\ failed = "no"
    /\ active = FALSE
    /\ clients = {}
    /\ queue = [c \in Consumer |-> <<>>]
    /\ todo = {}
    /\ cur = {}
    /\ number = 0
    /\ session = 0
    /\ joined = [c \in Consumer |-> 0]
    /\ next = [c \in Consumer |-> 0]
    /\ gap = [c \in Consumer |-> FALSE]
    /\ stream = [c \in Consumer |-> "none"]
    /\ conn = [c \in Consumer |-> "none"]
    /\ wire = [c \in Consumer |-> End]

\* No publish and no close is under way: subscribe and unsubscribe get the lock.
HubFree == worker \notin {"publish", "drain", "take", "closing"}
-----------------------------------------------------------------------------
(* The web threads. *)

\* Mutant: a driver thread that is still running is overlooked.
StartReceiverAnyway(k) ==
    /\ session < MaxSession
    /\ worker = "dead"
    /\ stop' = FALSE
    /\ state' = "starting"
    /\ worker' = "open"
    /\ kind' = k
    /\ failed' = "no"
    /\ session' = session + 1
    /\ UNCHANGED <<stopper, drivers, hubVars, queue, conVars, seen, net>>

\* Session.start, under the session's lock from the check to the new thread.
StartReceiver(k) ==
    /\ session < MaxSession
    /\ worker = "dead"
    /\ drivers = {}
    /\ stop' = FALSE
    /\ state' = "starting"
    /\ worker' = "open"
    /\ kind' = k
    /\ failed' = "no"
    /\ session' = session + 1
    /\ UNCHANGED <<stopper, drivers, hubVars, queue, conVars, seen, net>>

\* Session.stop sets the event before it takes the lock under which it shows
\* the request.  The two are one step while a reception is under way; before
\* one, a start may come between them, and clear the event.
RequestStop ==
    /\ ~stopper
    /\ stop' = TRUE
    /\ IF worker = "dead"
       THEN stopper' = TRUE /\ UNCHANGED state
       ELSE /\ state' = IF state \in {"starting", "running"} THEN "stopping" ELSE state
            /\ UNCHANGED stopper
    /\ UNCHANGED <<worker, kind, drivers, failed, session, hubVars, queue, conVars, seen, net>>

ShowStop ==
    /\ stopper
    /\ stopper' = FALSE
    /\ state' = IF worker # "dead" /\ state \in {"starting", "running"} THEN "stopping" ELSE state
    /\ UNCHANGED <<stop, worker, kind, drivers, failed, session, hubVars, queue, conVars, seen, net>>
-----------------------------------------------------------------------------
(* The worker. *)

\* __enter__ of the source, then hub.active and the status, or its exception.
OpenSource ==
    /\ worker = "open"
    /\ \/ /\ drivers' = IF kind = "usb" THEN {session} ELSE drivers
          /\ active' = TRUE
          /\ state' = "running"
          /\ worker' = "loop"
          /\ UNCHANGED failed
       \/ /\ failed' = "source"
          /\ state' = "error"
          /\ worker' = "close"
          /\ UNCHANGED <<drivers, active>>
    /\ UNCHANGED <<stop, stopper, kind, session, clients, todo, cur, number, queue, conVars, seen, net>>

\* One block of IQ is demodulated and its audio published, unless stop is set.
NextBlock ==
    /\ worker = "loop"
    /\ ~stop
    /\ number < MaxBlock
    /\ number' = number + 1
    /\ todo' = clients
    /\ worker' = "publish"
    /\ UNCHANGED <<state, stop, stopper, kind, drivers, failed, session, active, clients, cur,
                   queue, conVars, seen, net>>

\* The loop ends because stop is set ...
LeaveLoop ==
    /\ worker = "loop"
    /\ stop
    /\ worker' = "leave"
    /\ UNCHANGED <<state, stop, stopper, kind, drivers, failed, session, hubVars, queue, conVars, seen, net>>

\* ... or the duration is over, or the source raises: no samples for two
\* seconds, a full queue of blocks, a lost device.
SourceEnds ==
    /\ worker = "loop"
    /\ ~stop
    /\ worker' = "leave"
    /\ failed' \in {"no", "source"}
    /\ UNCHANGED <<state, stop, stopper, kind, drivers, session, hubVars, queue, conVars, seen, net>>

\* Mutant: a full queue loses its oldest block, and the client stays.
PublishToDropping(c) ==
    /\ worker = "publish"
    /\ c \in todo
    /\ todo' = todo \ {c}
    /\ queue' = [queue EXCEPT ![c] = Append(IF Len(@) < Depth THEN @ ELSE Tail(@), number)]
    /\ UNCHANGED <<state, stop, stopper, worker, kind, drivers, failed, session, active, clients, cur,
                   number, conVars, seen, net>>

\* publish, one client: put_nowait, or the client is dropped and drained.
PublishTo(c) ==
    /\ worker = "publish"
    /\ c \in todo
    /\ todo' = todo \ {c}
    /\ IF Len(queue[c]) < Depth
       THEN /\ queue' = [queue EXCEPT ![c] = Append(@, number)]
            /\ UNCHANGED <<worker, clients, cur>>
       ELSE /\ clients' = clients \ {c}
            /\ cur' = {c}
            /\ worker' = "drain"
            /\ UNCHANGED queue
    /\ UNCHANGED <<state, stop, stopper, kind, drivers, failed, session, active, number, conVars, seen, net>>

Published ==
    /\ worker = "publish"
    /\ todo = {}
    /\ worker' = "loop"
    /\ UNCHANGED <<state, stop, stopper, kind, drivers, failed, session, hubVars, queue, conVars, seen, net>>

\* "while not client.empty()"; once it is empty, "client.put_nowait(None)" and
\* on to the next client: nobody else puts into the queue.
DrainTest ==
    /\ worker = "drain"
    /\ \E c \in cur :
         IF queue[c] = <<>>
         THEN /\ queue' = [queue EXCEPT ![c] = <<End>>]
              /\ worker' = IF active THEN "publish" ELSE "closing"
              /\ cur' = {}
         ELSE /\ worker' = "take"
              /\ UNCHANGED <<queue, cur>>
    /\ UNCHANGED <<state, stop, stopper, kind, drivers, failed, session, active, clients, todo, number,
                   conVars, seen, net>>

\* "client.get_nowait()".  When the handler has taken the last block since the
\* test, queue.Empty leaves publish for the worker's handler, or leaves close
\* and with it the worker, before clients is cleared.
DrainTake ==
    /\ worker = "take"
    /\ \E c \in cur :
         IF queue[c] # <<>>
         THEN /\ queue' = [queue EXCEPT ![c] = Tail(@)]
              /\ worker' = "drain"
              /\ UNCHANGED <<failed, todo, cur>>
         ELSE /\ worker' = IF active THEN "leave" ELSE "dead"
              /\ failed' = IF active THEN "hub" ELSE failed
              /\ todo' = {}
              /\ cur' = {}
              /\ UNCHANGED queue
    /\ UNCHANGED <<state, stop, stopper, kind, drivers, session, active, clients, number, conVars, seen, net>>

\* The ExitStack: USBSource.__exit__ sets the stop event, cancels the driver
\* and raises when its thread is still alive after three seconds.  Then the
\* outcome is shown ...
LeaveSource ==
    /\ worker = "leave"
    /\ worker' = "close"
    /\ stop' = (stop \/ kind = "usb")
    /\ \/ /\ drivers' = {}
          /\ UNCHANGED failed
       \/ /\ drivers # {}
          /\ failed' = IF failed = "no" THEN "source" ELSE failed
          /\ UNCHANGED drivers
    /\ state' = IF failed' # "no" THEN "error" ELSE IF stop' THEN "stopped" ELSE "completed"
    /\ UNCHANGED <<stopper, kind, session, hubVars, queue, conVars, seen, net>>

\* ... and hub.close drains every client that is left, one after the other.
CloseHub ==
    /\ worker = "close"
    /\ active' = FALSE
    /\ todo' = clients
    /\ worker' = "closing"
    /\ UNCHANGED <<state, stop, stopper, kind, drivers, failed, session, clients, cur, number,
                   queue, conVars, seen, net>>

CloseClient(c) ==
    /\ worker = "closing"
    /\ c \in todo
    /\ todo' = todo \ {c}
    /\ cur' = {c}
    /\ worker' = "drain"
    /\ UNCHANGED <<state, stop, stopper, kind, drivers, failed, session, active, clients, number,
                   queue, conVars, seen, net>>

Closed ==
    /\ worker = "closing"
    /\ todo = {}
    /\ clients' = {}
    /\ worker' = "dead"
    /\ UNCHANGED <<state, stop, stopper, kind, drivers, failed, session, active, todo, cur, number,
                   queue, conVars, seen, net>>

\* A driver that outlived its reception gives up at last.
DriverDies ==
    /\ worker = "dead"
    /\ drivers # {}
    /\ drivers' = {}
    /\ UNCHANGED <<state, stop, stopper, worker, kind, failed, session, hubVars, queue, conVars, seen, net>>

Worker ==
    \/ OpenSource \/ LeaveLoop \/ Published \/ DrainTest \/ DrainTake
    \/ LeaveSource \/ CloseHub \/ Closed
    \/ \E c \in Consumer : PublishTo(c) \/ CloseClient(c)
-----------------------------------------------------------------------------
(* The HTTP handlers (stream). *)

\* GET /audio: subscribe, or the ValueError that ends the connection with 400.
Subscribe(c) ==
    /\ conn[c] = "asked"
    /\ stream[c] = "none"
    /\ HubFree
    /\ IF active /\ Cardinality(clients) < MaxClients
       THEN /\ clients' = clients \cup {c}
            /\ joined' = [joined EXCEPT ![c] = session]
            /\ next' = [next EXCEPT ![c] = number + 1]
            /\ gap' = [gap EXCEPT ![c] = FALSE]
            /\ stream' = [stream EXCEPT ![c] = "stream"]
            /\ conn' = [conn EXCEPT ![c] = "open"]
       ELSE /\ conn' = [conn EXCEPT ![c] = "ended"]
            /\ UNCHANGED <<clients, joined, next, gap, stream>>
    /\ UNCHANGED <<rxVars, active, todo, cur, number, queue, wire>>

\* client.get without the hub's lock, and wfile.write of what it returns; None
\* ends the loop.
Get(c) ==
    /\ stream[c] = "stream"
    /\ wire[c] = End
    /\ queue[c] # <<>>
    /\ LET b == Head(queue[c])
       IN  IF b = End
           THEN /\ stream' = [stream EXCEPT ![c] = "leave"]
                /\ UNCHANGED <<wire, next, gap>>
           ELSE /\ wire' = [wire EXCEPT ![c] = b]
                /\ gap' = [gap EXCEPT ![c] = @ \/ b # next[c]]
                /\ next' = [next EXCEPT ![c] = b + 1]
                /\ UNCHANGED stream
    /\ queue' = [queue EXCEPT ![c] = Tail(@)]
    /\ UNCHANGED <<rxVars, hubVars, joined, conn>>

\* Mutant: client.get waits for ever.
GiveUpWriting(c) ==
    /\ stream[c] = "stream"
    /\ wire[c] # End
    /\ stream' = [stream EXCEPT ![c] = "leave"]
    /\ wire' \in {wire, [wire EXCEPT ![c] = End]}
    /\ UNCHANGED <<rxVars, hubVars, queue, joined, seen, conn>>

\* The loop also ends when there is no audio for two seconds (queue.Empty), and
\* when the consumer has gone or has not read for three (OSError); what was
\* written by then may still reach it.
GiveUp(c) ==
    /\ stream[c] = "stream"
    /\ queue[c] = <<>> \/ wire[c] # End
    /\ stream' = [stream EXCEPT ![c] = "leave"]
    /\ wire' \in {wire, [wire EXCEPT ![c] = End]}
    /\ UNCHANGED <<rxVars, hubVars, queue, joined, seen, conn>>

\* Mutant: a consumer that comes back finds its old queue.
UnsubscribeKeepsQueue(c) ==
    /\ stream[c] = "leave"
    /\ HubFree
    /\ clients' = clients \ {c}
    /\ stream' = [stream EXCEPT ![c] = "none"]
    /\ joined' = [joined EXCEPT ![c] = 0]
    /\ next' = [next EXCEPT ![c] = 0]
    /\ conn' = [conn EXCEPT ![c] = IF @ = "open" THEN "ended" ELSE "none"]
    /\ UNCHANGED <<rxVars, active, todo, cur, number, queue, gap, wire>>

\* The finally: unsubscribe, and the connection ends.
Unsubscribe(c) ==
    /\ stream[c] = "leave"
    /\ HubFree
    /\ clients' = clients \ {c}
    /\ stream' = [stream EXCEPT ![c] = "none"]
    /\ queue' = [queue EXCEPT ![c] = <<>>]
    /\ joined' = [joined EXCEPT ![c] = 0]
    /\ next' = [next EXCEPT ![c] = 0]
    /\ conn' = [conn EXCEPT ![c] = IF @ = "open" THEN "ended" ELSE "none"]
    /\ UNCHANGED <<rxVars, active, todo, cur, number, gap, wire>>

Handler(c) == Subscribe(c) \/ Get(c) \/ GiveUp(c) \/ Unsubscribe(c)

SdrNext ==
    \/ \E k \in Kinds : StartReceiver(k)
    \/ RequestStop
    \/ ShowStop
    \/ NextBlock
    \/ SourceEnds
    \/ Worker
    \/ DriverDies
    \/ \E c \in Consumer : Handler(c)
-----------------------------------------------------------------------------
\* The consumers of this reception that have not been dropped.
Served == {c \in clients \ cur : active /\ joined[c] = session}

(***************************************************************************)
(* A consumer that keeps up is given every block published since it        *)
(* subscribed, in order, whatever happens to the other consumers (publish, *)
(* Session._run).                                                          *)
(***************************************************************************)
Continuous ==
    \A c \in Served :
        /\ ~gap[c]
        /\ \A i \in DOMAIN queue[c] : queue[c][i] = next[c] + i - 1
        /\ worker = "loop" => next[c] + Len(queue[c]) = number + 1

(***************************************************************************)
(* The hub and its handlers implement a broadcast: each consumer is given  *)
(* published blocks only, each at most once and in order, and every one    *)
(* while it is kept; also across drops, failed closes and new receptions   *)
(* (publish, close, subscribe, stream).                                    *)
(***************************************************************************)
Hub == INSTANCE Broadcast WITH published <- number, place <- next, kept <- Served
BroadcastSpec == Hub!Spec

(***************************************************************************)
(* No reception opens a tuner while the driver thread of another one still *)
(* has it, even one that did not stop in time (Session.start).             *)
(***************************************************************************)
OneDriver ==
    /\ \A r, t \in drivers : r = t
    /\ worker \in {"open", "loop", "publish"} => drivers \subseteq {session}

(***************************************************************************)
(* Every audio stream of a reception that is stopped or over ends, also    *)
(* those a failed close leaves without the end mark (stream, close).       *)
(***************************************************************************)
StreamsEnd == \A c \in Consumer : (stop /\ stream[c] # "none") ~> stream[c] = "none"

(***************************************************************************)
(* A reception shows an error only when its own source failed: a consumer  *)
(* that stalls does not take the receiver from the others (publish).       *)
(***************************************************************************)
StallIsContained == state = "error" => failed # "hub"
=============================================================================
