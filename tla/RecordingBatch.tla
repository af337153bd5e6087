--------------------------- MODULE RecordingBatch ---------------------------
(***************************************************************************)
(* Batches of recordings decoded in the background: web threads start and  *)
(* cancel them, a worker thread per batch runs one decoder process after   *)
(* the other.  src/plugins/recording_decoders.py (RecordingDecoders).      *)
(* A process is named by its batch and the position of its recording.      *)
(***************************************************************************)
EXTENDS Naturals, Sequences

CONSTANTS MaxBatch,  \* bound: batches started
          MaxItem    \* bound: recordings of a batch (100 in the code)

ASSUME BatchAssumption == MaxBatch \in Nat /\ MaxItem \in Nat \ {0}

VARIABLES
    batch,      \* batches started
    running,    \* state['running']
    items,      \* the state of each recording of the latest batch
    cancelled,  \* the event
    process,    \* self.process, or NoProcess
    decoders,   \* decoder processes alive
    worker,     \* what the thread of each batch does next
    index       \* the recording it is at

batchVars == <<batch, running, items, cancelled, process, decoders, worker, index>>

Batches == 1 .. MaxBatch
Process == Batches \X (1 .. MaxItem)
NoProcess == <<0, 0>>
Outcome == {"cancelled", "completed", "error"}

BatchTypeOK ==
    /\ batch \in 0 .. MaxBatch
    /\ running \in BOOLEAN
    /\ items \in Seq(Outcome \cup {"queued", "running"})
    /\ cancelled \in BOOLEAN
    /\ process \in Process \cup {NoProcess}
    /\ decoders \subseteq Process
    /\ worker \in [Batches -> {"none", "next", "launch", "wait", "check", "complete",
                               "fail", "clear", "done"}]
    /\ index \in [Batches -> 1 .. MaxItem + 1]

BatchInit ==
    /\ batch = 0
    /\ running = FALSE
    /\ items = <<>>
    /\ cancelled = FALSE
    /\ process = NoProcess
    /\ decoders = {}
    /\ worker = [b \in Batches |-> "none"]
    /\ index = [b \in Batches |-> 1]

Begin(n) ==
    /\ batch < MaxBatch
    /\ batch' = batch + 1
    /\ cancelled' = FALSE
    /\ running' = TRUE
    /\ items' = [i \in 1 .. n |-> "queued"]
    /\ worker' = [worker EXCEPT ![batch + 1] = "next"]
    /\ UNCHANGED <<process, decoders, index>>

\* Mutant: the flag is not looked at.
StartAnyBatch(n) == Begin(n)

StartBatch(n) == ~running /\ Begin(n)

\* The decoder at work is terminated: it ends when it likes, see ProcessEnds.
CancelBatch ==
    /\ cancelled' = TRUE
    /\ UNCHANGED <<batch, running, items, process, decoders, worker, index>>

ProcessEnds ==
    /\ \E p \in decoders : decoders' = decoders \ {p}
    /\ UNCHANGED <<batch, running, items, cancelled, process, worker, index>>

Goes(b, from, to) ==
    /\ worker[b] = from
    /\ worker' = [worker EXCEPT ![b] = to]

Mark(b, state) == items' = [items EXCEPT ![index[b]] = state]

\* The head of the loop, and its end.
NextItem(b) ==
    \/ /\ index[b] > Len(items)
       /\ Goes(b, "next", "done")
       /\ running' = FALSE
       /\ UNCHANGED <<batch, items, cancelled, process, decoders, index>>
    \/ /\ index[b] <= Len(items)
       /\ cancelled
       /\ worker[b] = "next"
       /\ Mark(b, "cancelled")
       /\ index' = [index EXCEPT ![b] = @ + 1]
       /\ UNCHANGED <<batch, running, cancelled, process, decoders, worker>>
    \/ /\ index[b] <= Len(items)
       /\ ~cancelled
       /\ Goes(b, "next", "launch")
       /\ Mark(b, "running")
       /\ UNCHANGED <<batch, running, cancelled, process, decoders, index>>

Spawned(b) ==
    /\ process' = <<b, index[b]>>
    /\ decoders' = decoders \cup {<<b, index[b]>>}

\* Mutant: the event is not looked at again under the lock.
LaunchUnchecked(b) ==
    /\ Goes(b, "launch", "wait")
    /\ Spawned(b)
    /\ UNCHANGED <<batch, running, items, cancelled, index>>

\* Under the lock of cancel.  The temporary files or the process may fail.
Launch(b) ==
    \/ /\ cancelled
       /\ Goes(b, "launch", "clear")
       /\ Mark(b, "cancelled")
       /\ UNCHANGED <<batch, running, cancelled, process, decoders, index>>
    \/ /\ ~cancelled
       /\ Goes(b, "launch", "wait")
       /\ Spawned(b)
       /\ UNCHANGED <<batch, running, items, cancelled, index>>
    \/ /\ Goes(b, "launch", "fail")
       /\ UNCHANGED <<batch, running, items, cancelled, process, decoders, index>>

\* The process ends, or is killed and reaped after two hours.
WaitedFor(b) ==
    /\ <<b, index[b]>> \notin decoders
    /\ Goes(b, "wait", "check")
    /\ UNCHANGED <<batch, running, items, cancelled, process, decoders, index>>

Overdue(b) ==
    /\ <<b, index[b]>> \in decoders
    /\ Goes(b, "wait", "fail")
    /\ decoders' = decoders \ {<<b, index[b]>>}
    /\ UNCHANGED <<batch, running, items, cancelled, process, index>>

Wait(b) == WaitedFor(b) \/ Overdue(b)

\* What the decoder printed is its result, or does not count as one.
Check(b) ==
    \/ /\ cancelled
       /\ Goes(b, "check", "clear")
       /\ Mark(b, "cancelled")
       /\ UNCHANGED <<batch, running, cancelled, process, decoders, index>>
    \/ /\ ~cancelled
       /\ \E to \in {"complete", "fail"} : Goes(b, "check", to)
       /\ UNCHANGED <<batch, running, items, cancelled, process, decoders, index>>

Complete(b) ==
    /\ Goes(b, "complete", "clear")
    /\ Mark(b, "completed")
    /\ UNCHANGED <<batch, running, cancelled, process, decoders, index>>

Fail(b) ==
    /\ Goes(b, "fail", "clear")
    /\ Mark(b, IF cancelled THEN "cancelled" ELSE "error")
    /\ UNCHANGED <<batch, running, cancelled, process, decoders, index>>

Clear(b) ==
    /\ Goes(b, "clear", "next")
    /\ process' = NoProcess
    /\ index' = [index EXCEPT ![b] = @ + 1]
    /\ UNCHANGED <<batch, running, items, cancelled, decoders>>

BatchWorker(b) ==
    \/ NextItem(b) \/ Launch(b) \/ Wait(b) \/ Check(b) \/ Complete(b) \/ Fail(b) \/ Clear(b)

BatchNext ==
    \/ \E n \in 1 .. MaxItem : StartBatch(n)
    \/ CancelBatch
    \/ ProcessEnds
    \/ \E b \in Batches : BatchWorker(b)

BatchSpec == BatchInit /\ [][BatchNext]_batchVars
-----------------------------------------------------------------------------
\* Whatever is started, cancelled and timed out, a decoder process that is alive
\* is the one a cancel would terminate, so there is at most one (start, cancel,
\* _run).
CancelReaches == decoders \subseteq {process}

\* From a cancel to the next start, no decoder process begins (cancel, _run).
CancelSticks == [][cancelled /\ cancelled' => decoders' \subseteq decoders]_batchVars
=============================================================================
