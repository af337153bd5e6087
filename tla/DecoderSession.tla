--------------------------- MODULE DecoderSession ---------------------------
(***************************************************************************)
(* The session of an audio decoder plugin on live audio: web or owner      *)
(* threads that start and stop it, the worker that decodes, and the        *)
(* capture thread that records into a bounded queue.                       *)
(* src/plugins/bqe_sstv_decoder/service.py (Session), whose shape the      *)
(* telemetry decoder repeats, reading the SDR's stream through             *)
(* src/plugins/bqe_sdr/audio_bridge.py (audio_recorder).                   *)
(*                                                                         *)
(* The connection (conn, wire) is shared with the receiver's HTTP handler. *)
(* Blocks carry the receiver's numbers.                                    *)
(***************************************************************************)
EXTENDS Integers, Sequences

CONSTANTS Me,          \* the connection this decoder uses
          Chunks,      \* maxsize of the chunk queue (128 in the code)
          MaxRuns      \* bound: decoder sessions started

VARIABLES
    status,   \* Session.status['state']
    halt,     \* Session.stop_event
    asked,    \* history: stop was asked for in this session
    decoder,  \* where the worker thread is
    capture,  \* where the capture thread is
    chunks,   \* the queue between them
    failure,  \* failures is not empty
    due,      \* history: the block push has to be given next, 0 before the first
    skipped,  \* history: push was given another one
    runs,     \* sessions started
    conn,     \* the connections to the audio service, and
    wire      \* the block each one holds, 0 for none

decVars == <<status, halt, asked, decoder, capture, chunks, failure, due, skipped, runs>>
lineVars == <<conn, wire>>

Final == {"stopped", "completed", "error"}

DecTypeOK ==
    /\ status \in {"idle", "starting", "running", "stopping"} \cup Final
    /\ halt \in BOOLEAN
    /\ asked \in BOOLEAN
    /\ decoder \in {"dead", "begin", "look", "get", "join", "wait"}
    /\ capture \in {"none", "connect", "wait", "read", "dead"}
    /\ chunks \in Seq(Nat)
    /\ failure \in BOOLEAN
    /\ due \in Nat
    /\ skipped \in BOOLEAN
    /\ runs \in 0 .. MaxRuns

DecInit ==
    /\ status = "idle"
    /\ halt = FALSE
    /\ asked = FALSE
    /\ decoder = "dead"
    /\ capture = "none"
    /\ chunks = <<>>
    /\ failure = FALSE
    /\ due = 0
    /\ skipped = FALSE
    /\ runs = 0

\* Session.start: refused while the thread of the last session is alive.
StartDecoder ==
    /\ runs < MaxRuns
    /\ decoder = "dead"
    /\ runs' = runs + 1
    /\ halt' = FALSE
    /\ asked' = FALSE
    /\ status' = "starting"
    /\ decoder' = "begin"
    /\ skipped' = FALSE
    /\ UNCHANGED <<capture, chunks, failure, due, lineVars>>

\* Session.stop: while the thread is alive, whatever it is doing by then.
StopDecoder ==
    /\ decoder # "dead"
    /\ asked' = TRUE
    /\ halt' = TRUE
    /\ status' = "stopping"
    /\ UNCHANGED <<decoder, capture, chunks, failure, due, skipped, runs, lineVars>>
-----------------------------------------------------------------------------
(* The worker: blocks(), consume() and the end of _run. *)

Begin ==
    /\ decoder = "begin"
    /\ capture' = "connect"
    /\ status' = "running"
    /\ decoder' = "look"
    /\ UNCHANGED <<halt, asked, chunks, failure, due, skipped, runs, lineVars>>

\* The outcome is shown: an exception, a stop, or the end of the audio.  The
\* finally then tells the capture thread to stop.
Conclude(raised) ==
    /\ status' = IF raised THEN "error" ELSE IF halt THEN "stopped" ELSE "completed"
    /\ halt' = TRUE
    /\ decoder' = "join"

\* blocks(): stop, then failures, then the queue.
Look ==
    /\ decoder = "look"
    /\ IF halt \/ failure
       THEN Conclude(~halt)
       ELSE decoder' = "get" /\ UNCHANGED <<status, halt>>
    /\ UNCHANGED <<asked, capture, chunks, failure, due, skipped, runs, lineVars>>

\* chunks.get(timeout=.2), and consume(): a stop that came meanwhile leaves the
\* loop, else the decoder is given the block, and may raise.
GetChunk ==
    /\ decoder = "get"
    /\ chunks # <<>>
    /\ chunks' = Tail(chunks)
    /\ IF halt
       THEN Conclude(FALSE) /\ UNCHANGED <<due, skipped>>
       ELSE /\ due' = Head(chunks) + 1
            /\ skipped' = (skipped \/ (due # 0 /\ Head(chunks) # due))
            /\ \/ decoder' = "look" /\ UNCHANGED <<status, halt>>
               \/ Conclude(TRUE)
    /\ UNCHANGED <<asked, capture, failure, runs, lineVars>>

\* Mutant: a capture thread that is over is taken for the end of the audio.
GetNoChunkQuietly ==
    /\ decoder = "get"
    /\ chunks = <<>>
    /\ IF capture # "dead"
       THEN decoder' = "look" /\ UNCHANGED <<status, halt>>
       ELSE Conclude(FALSE)
    /\ UNCHANGED <<asked, capture, chunks, failure, due, skipped, runs, lineVars>>

\* queue.Empty: on again while the capture thread is alive; when it is not,
\* its failure if there is one, else the end of the audio.
GetNoChunk ==
    /\ decoder = "get"
    /\ chunks = <<>>
    /\ IF capture # "dead"
       THEN decoder' = "look" /\ UNCHANGED <<status, halt>>
       ELSE Conclude(failure)
    /\ UNCHANGED <<asked, capture, chunks, failure, due, skipped, runs, lineVars>>

\* The capture thread is joined, with an error shown if that takes more than
\* five seconds.
JoinCapture ==
    /\ decoder \in {"join", "wait"}
    /\ IF capture = "dead"
       THEN /\ decoder' = "dead"
            /\ capture' = "none"
            /\ chunks' = <<>>
            /\ failure' = FALSE
            /\ due' = 0
            /\ UNCHANGED status
       ELSE /\ decoder = "join"
            /\ decoder' = "wait"
            /\ status' = "error"
            /\ UNCHANGED <<capture, chunks, failure, due>>
    /\ UNCHANGED <<halt, asked, skipped, runs, lineVars>>

DecoderThread == Begin \/ Look \/ GetChunk \/ GetNoChunk \/ JoinCapture
-----------------------------------------------------------------------------
(* The capture thread: record(). *)

\* urlopen asks for the stream, on a connection of its own with nothing on it ...
Connect ==
    /\ capture = "connect"
    /\ conn[Me] = "none"
    /\ conn' = [conn EXCEPT ![Me] = "asked"]
    /\ wire' = [wire EXCEPT ![Me] = 0]
    /\ capture' = "wait"
    /\ UNCHANGED <<status, halt, asked, decoder, chunks, failure, due, skipped, runs>>

\* ... and waits for the answer.
Connected ==
    /\ capture = "wait"
    /\ conn[Me] # "asked"
    /\ capture' = "read"
    /\ UNCHANGED <<status, halt, asked, decoder, chunks, failure, due, skipped, runs, lineVars>>

\* Mutant: a full queue loses the block, and the capture goes on.
RecordSkipping ==
    /\ capture = "read"
    /\ IF ~halt /\ wire[Me] # 0
       THEN /\ chunks' = IF Len(chunks) < Chunks THEN Append(chunks, wire[Me]) ELSE chunks
            /\ UNCHANGED <<failure, capture, conn>>
       ELSE /\ failure' = ~halt
            /\ conn' = [conn EXCEPT ![Me] = IF @ = "ended" THEN "none" ELSE "shut"]
            /\ capture' = "dead"
            /\ UNCHANGED chunks
    /\ wire' = [wire EXCEPT ![Me] = 0]
    /\ UNCHANGED <<status, halt, asked, decoder, due, skipped, runs>>

\* Each turn of record()'s loop.  A whole block is put into the queue; or the
\* loop is left, and the connection with it: for the stop event, or with a
\* failure because the stream was refused or ended, three seconds passed
\* without a byte, or the queue is full.
Record ==
    /\ capture = "read"
    /\ IF ~halt /\ wire[Me] # 0 /\ Len(chunks) < Chunks
       THEN /\ chunks' = Append(chunks, wire[Me])
            /\ UNCHANGED <<failure, capture, conn>>
       ELSE /\ failure' = ~halt
            /\ conn' = [conn EXCEPT ![Me] = IF @ = "ended" THEN "none" ELSE "shut"]
            /\ capture' = "dead"
            /\ UNCHANGED chunks
    /\ wire' = [wire EXCEPT ![Me] = 0]
    /\ UNCHANGED <<status, halt, asked, decoder, due, skipped, runs>>

CaptureThread == Connect \/ Connected \/ Record

DecNext == StartDecoder \/ StopDecoder \/ DecoderThread \/ CaptureThread
-----------------------------------------------------------------------------
(***************************************************************************)
(* A live session ends as stopped only when a stop was asked for, and      *)
(* never as completed: an audio service that drops the decoder, refuses it *)
(* or goes away, and a queue that overflows, end it with an error          *)
(* (record, blocks, _run).                                                 *)
(***************************************************************************)
TruncationTold ==
    /\ status # "completed"
    /\ status = "stopped" => asked

(***************************************************************************)
(* Two capture threads never hold the audio device at once: a session      *)
(* starts only after the capture of the last one is over (start, _run).    *)
(***************************************************************************)
OneCapture == decoder \in {"dead", "begin"} => capture \in {"none", "dead"}
=============================================================================
