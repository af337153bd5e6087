----------------------------- MODULE AudioStream -----------------------------
(***************************************************************************)
(* One capture of the sound card for any number of browsers: a web thread  *)
(* per listener, the audio library's callback that fills their queues, and *)
(* the end of the program that closes everything.                          *)
(* src/plugins/bqe_audio_stream/__init__.py (AudioStream).                 *)
(* Blocks are numbered in the order of the callback.                       *)
(***************************************************************************)
EXTENDS Naturals, Sequences

CONSTANTS Listener,     \* web threads
          StreamDepth,  \* maxsize of a listener's queue (8 in the code)
          MaxAudio,     \* bound: blocks captured
          MaxListen     \* bound: subscriptions

NoOne == "no one"
Closer == "closer"

ASSUME StreamAssumption ==
    /\ StreamDepth \in Nat \ {0}
    /\ MaxAudio \in Nat
    /\ MaxListen \in Nat
    /\ {NoOne, Closer} \cap Listener = {}

VARIABLES
    listeners,  \* _listeners
    stream,     \* _stream: "none", "open", or "stopping" on its way out
    closed,     \* _closed
    inLock,     \* who closes the stream under _lock, or NoOne
    server,     \* where each listener's thread is
    inbox,      \* the listeners' queues
    heard,      \* the last block each one took
    since,      \* history: the last block captured before it subscribed
    block,      \* blocks captured
    todo,       \* listeners the callback has still to serve, of this block
    full,       \* the one whose queue it found full, or NoOne
    room,       \* it has made room there
    listened,   \* subscriptions
    closing     \* where the end of the program is in close

streamVars == <<listeners, stream, closed, inLock, server, inbox, heard, since, block,
                todo, full, room, listened, closing>>

StreamTypeOK ==
    /\ listeners \subseteq Listener
    /\ stream \in {"none", "open", "stopping"}
    /\ closed \in BOOLEAN
    /\ inLock \in Listener \cup {NoOne, Closer}
    /\ server \in [Listener -> {"off", "get", "write", "leave", "stop"}]
    /\ inbox \in [Listener -> Seq(1 .. MaxAudio)]
    /\ heard \in [Listener -> 0 .. MaxAudio]
    /\ since \in [Listener -> 0 .. MaxAudio]
    /\ block \in 0 .. MaxAudio
    /\ todo \subseteq Listener
    /\ full \in Listener \cup {NoOne}
    /\ room \in BOOLEAN
    /\ listened \in 0 .. MaxListen
    /\ closing \in {"no", "stop", "done"}

StreamInit ==
    /\ listeners = {}
    /\ stream = "none"
    /\ closed = FALSE
    /\ inLock = NoOne
    /\ server = [l \in Listener |-> "off"]
    /\ inbox = [l \in Listener |-> <<>>]
    /\ heard = [l \in Listener |-> 0]
    /\ since = [l \in Listener |-> 0]
    /\ block = 0
    /\ todo = {}
    /\ full = NoOne
    /\ room = FALSE
    /\ listened = 0
    /\ closing = "no"

captureVars == <<block, todo, full, room>>
Serves(l, from, to) ==
    /\ server[l] = from
    /\ server' = [server EXCEPT ![l] = to]

\* A device that cannot be opened leaves everything as it was.  The queue is a new
\* one: a callback that still holds the old one fills it for nobody.
Subscribe(l) ==
    /\ inLock = NoOne
    /\ ~closed
    /\ listened < MaxListen
    /\ Serves(l, "off", "get")
    /\ stream' = "open"
    /\ listeners' = listeners \cup {l}
    /\ inbox' = [inbox EXCEPT ![l] = <<>>]
    /\ heard' = [heard EXCEPT ![l] = 0]
    /\ since' = [since EXCEPT ![l] = block]
    /\ listened' = listened + 1
    /\ todo' = todo \ {l}
    /\ full' = IF full = l THEN NoOne ELSE full
    /\ room' = (room /\ full # l)
    /\ UNCHANGED <<closed, inLock, block, closing>>

\* A block, or two seconds without one.
GetBlock(l) ==
    /\ \/ /\ inbox[l] # <<>>
          /\ Serves(l, "get", "write")
          /\ heard' = [heard EXCEPT ![l] = Head(inbox[l])]
          /\ inbox' = [inbox EXCEPT ![l] = Tail(@)]
       \/ /\ inbox[l] = <<>>
          /\ Serves(l, "get", "leave")
          /\ UNCHANGED <<heard, inbox>>
    /\ UNCHANGED <<listeners, stream, closed, inLock, since, captureVars, listened, closing>>

\* The browser reads on, unless the program ends; or it has gone, or stalled for
\* five seconds.
WriteBlock(l) ==
    /\ \/ ~closed /\ Serves(l, "write", "get")
       \/ Serves(l, "write", "leave")
    /\ UNCHANGED <<listeners, stream, closed, inLock, inbox, heard, since, captureVars,
                   listened, closing>>

Unsubscribe(l) ==
    /\ inLock = NoOne
    /\ listeners' = listeners \ {l}
    /\ IF stream = "open" /\ listeners' = {}
       THEN Serves(l, "leave", "stop") /\ stream' = "stopping" /\ inLock' = l
       ELSE Serves(l, "leave", "off") /\ UNCHANGED <<stream, inLock>>
    /\ UNCHANGED <<closed, inbox, heard, since, captureVars, listened, closing>>

\* stream.stop waits for the callback that is running.
Stopped == todo = {} /\ stream' = "none" /\ inLock' = NoOne

StopStream(l) ==
    /\ Stopped
    /\ Serves(l, "stop", "off")
    /\ UNCHANGED <<listeners, closed, inbox, heard, since, captureVars, listened, closing>>

CloseAll ==
    /\ closing = "no"
    /\ inLock = NoOne
    /\ closed' = TRUE
    /\ listeners' = {}
    /\ IF stream = "open"
       THEN closing' = "stop" /\ stream' = "stopping" /\ inLock' = Closer
       ELSE closing' = "done" /\ UNCHANGED <<stream, inLock>>
    /\ UNCHANGED <<server, inbox, heard, since, captureVars, listened>>

CloseStops ==
    /\ closing = "stop"
    /\ closing' = "done"
    /\ Stopped
    /\ UNCHANGED <<listeners, closed, server, inbox, heard, since, captureVars, listened>>
-----------------------------------------------------------------------------
\* The callback: one at a time, for the listeners there are when it begins.
Capture ==
    /\ stream = "open"
    /\ todo = {}
    /\ listeners # {}
    /\ block < MaxAudio
    /\ block' = block + 1
    /\ todo' = listeners
    /\ UNCHANGED <<listeners, stream, closed, inLock, server, inbox, heard, since, full,
                   room, listened, closing>>

Put(l) ==
    /\ inbox' = [inbox EXCEPT ![l] = Append(@, block)]
    /\ todo' = todo \ {l}
    /\ full' = NoOne
    /\ room' = FALSE
    /\ UNCHANGED <<listeners, stream, closed, inLock, server, heard, since, block,
                   listened, closing>>

\* Mutant: the callback takes the lock.
OfferLocked(l) ==
    /\ inLock = NoOne
    /\ l \in todo
    /\ full = NoOne
    /\ Len(inbox[l]) < StreamDepth
    /\ Put(l)

Offer(l) ==
    /\ l \in todo
    /\ full = NoOne
    /\ Len(inbox[l]) < StreamDepth
    /\ Put(l)

FindFull(l) ==
    /\ l \in todo
    /\ full = NoOne
    /\ Len(inbox[l]) = StreamDepth
    /\ full' = l
    /\ UNCHANGED <<listeners, stream, closed, inLock, server, inbox, heard, since, block,
                   todo, room, listened, closing>>

\* Mutant: the new block is left out instead.
DropNewest(l) ==
    /\ full = l
    /\ full' = NoOne
    /\ todo' = todo \ {l}
    /\ UNCHANGED <<listeners, stream, closed, inLock, server, inbox, heard, since, block,
                   room, listened, closing>>

\* The listener may have emptied the queue meanwhile.
DropOldest(l) ==
    /\ full = l
    /\ ~room
    /\ room' = TRUE
    /\ inbox' = [inbox EXCEPT ![l] = IF @ = <<>> THEN @ ELSE Tail(@)]
    /\ UNCHANGED <<listeners, stream, closed, inLock, server, heard, since, block, todo,
                   full, listened, closing>>

PutAgain(l) ==
    /\ full = l
    /\ room
    /\ IF Len(inbox[l]) < StreamDepth
       THEN Put(l)
       ELSE /\ full' = NoOne
            /\ room' = FALSE
            /\ todo' = todo \ {l}
            /\ UNCHANGED <<listeners, stream, closed, inLock, server, inbox, heard, since,
                           block, listened, closing>>

Serving(l) == GetBlock(l) \/ WriteBlock(l) \/ Unsubscribe(l) \/ StopStream(l)
Callback(l) == Offer(l) \/ FindFull(l) \/ DropOldest(l) \/ PutAgain(l)

StreamNext ==
    \/ \E l \in Listener : Subscribe(l) \/ Serving(l) \/ Callback(l)
    \/ CloseAll \/ CloseStops
    \/ Capture

StreamSpec == StreamInit /\ [][StreamNext]_streamVars
-----------------------------------------------------------------------------
\* However slow a listener is and wherever it interferes, its blocks come in order,
\* and when the callback is done the newest one is among them (_capture).
NewestKept ==
    \A l \in listeners :
        LET got == <<heard[l]>> \o inbox[l] IN
        /\ \A i \in 1 .. Len(got) - 1 : got[i] < got[i + 1]
        /\ l \notin todo /\ since[l] < block => got[Len(got)] = block

\* After close, every listener's thread ends and the sound card is released: stop
\* waits for the callback under the lock, so the callback must not wait for it.
ListenersEnd == closed ~> (stream = "none" /\ \A l \in Listener : server[l] = "off")
=============================================================================
