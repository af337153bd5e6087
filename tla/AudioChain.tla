----------------------------- MODULE AudioChain -----------------------------
(***************************************************************************)
(* The audio chain: the receiver's service, one decoder session that reads *)
(* its stream, and other consumers (a browser, a recorder), which read or  *)
(* stall as they like.  The decoder's connection is the receiver's         *)
(* connection of the consumer Decoder.                                     *)
(***************************************************************************)
EXTENDS SdrAudio

CONSTANTS Decoder,  \* the consumer that is the decoder session
          Chunks,   \* maxsize of the decoder's chunk queue
          MaxRuns,  \* bound: decoder sessions started
          Scene     \* bound: what one behaviour may use, [listeners, receptions];
                    \* with Decoder among the listeners, there is no decoder

ASSUME ChainAssumption ==
    /\ Decoder \in Consumer
    /\ Chunks \in Nat \ {0}
    /\ MaxRuns \in Nat
    /\ Scene \subseteq [listeners : SUBSET Consumer, receptions : 0 .. MaxSession]

VARIABLES scene,  \* the scene of this behaviour
          status, halt, asked, decoder, capture, chunks, failure, due, skipped, runs

D == INSTANCE DecoderSession WITH Me <- Decoder

decVars == <<status, halt, asked, decoder, capture, chunks, failure, due, skipped, runs>>
vars == <<sdrVars, decVars, scene>>

Init ==
    /\ SdrInit
    /\ D!DecInit
    /\ scene \in Scene

\* The decoder uses its connection, and nothing else of the receiver.
OnLine == UNCHANGED <<rxVars, hubVars, queue, conVars, seen>>

Capturing == D!CaptureThread /\ OnLine
Decoding == D!DecoderThread /\ OnLine
Operating == Decoder \notin scene.listeners /\ (D!StartDecoder \/ D!StopDecoder) /\ OnLine

\* The other consumers, outside the program: they ask for audio when they like,
\* take one block and stall, and are rid of the connection when it has ended.
Ask(c) ==
    /\ c \in scene.listeners
    /\ conn[c] = "none"
    /\ stream[c] = "none"
    /\ conn' = [conn EXCEPT ![c] = "asked"]
    /\ UNCHANGED <<rxVars, hubVars, queue, conVars, seen, wire, decVars>>

Note(c) ==
    /\ c \in scene.listeners
    /\ conn[c] = "ended"
    /\ conn' = [conn EXCEPT ![c] = "none"]
    /\ wire' = [wire EXCEPT ![c] = End]
    /\ UNCHANGED <<rxVars, hubVars, queue, conVars, seen, decVars>>

Step ==
    \/ SdrNext /\ UNCHANGED decVars
    \/ Capturing
    \/ Decoding
    \/ Operating
    \/ \E c \in Consumer : Ask(c) \/ Note(c)

Next == Step /\ session' <= scene.receptions /\ UNCHANGED scene

Spec == Init /\ [][Next]_vars

\* The receiver's worker and its handlers run; nobody has to ask for, read or
\* stop anything, and no sample has to come.
FairSpec ==
    /\ Spec
    /\ WF_vars(Worker /\ UNCHANGED <<decVars, scene>>)
    /\ \A c \in Consumer : WF_vars(Handler(c) /\ UNCHANGED <<decVars, scene>>)
-----------------------------------------------------------------------------
TypeOK == SdrTypeOK /\ D!DecTypeOK

\* See DecoderSession.
TruncationTold == D!TruncationTold

(***************************************************************************)
(* No device is opened twice: a tuner is opened only when no driver thread *)
(* has it, and audio is captured only by the session that is under way     *)
(* (Session.start of both programs).                                       *)
(***************************************************************************)
OneOwner == OneDriver /\ D!OneCapture

(***************************************************************************)
(* Between the receiver and the decoder's push, no block is left out       *)
(* without the decoder being told, but for one the hub takes back while it *)
(* drops this consumer; and none is given to push twice or out of order    *)
(* even then (publish, stream, record, blocks).                            *)
(***************************************************************************)
LossIsTold ==
    /\ skipped => gap[Decoder]
    /\ \A i \in DOMAIN chunks : due <= chunks[i] /\ chunks[i] <= number
    /\ \A i, j \in DOMAIN chunks : i < j => chunks[i] < chunks[j]
=============================================================================
