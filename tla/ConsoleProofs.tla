---------------------------- MODULE ConsoleProofs ----------------------------
(***************************************************************************)
(* Theorems about the console's services, for any number of threads, jobs, *)
(* batches, requests and listeners, and any archive: each behaviour of the *)
(* composition is one of each service, and what is proved of a service     *)
(* holds of the composition.                                               *)
(***************************************************************************)
EXTENDS ConsoleServices, FiniteSetTheorems, TLAPS

\* Every behaviour of the composition is one of each service, since only the service of
\* its scene moves.
THEOREM Services ==
    Spec => /\ BatchSpec /\ AnnouncerSpec /\ ReceiverSpec /\ CommandSpec /\ JobSpec
            /\ RestoreSpec /\ StreamSpec
<1>1. Init => /\ BatchInit /\ AnnouncerInit /\ ReceiverInit /\ CommandInit /\ JobInit
              /\ RestoreInit /\ StreamInit
  BY DEF Init
<1>2. [Next]_vars =>
        /\ [BatchNext]_batchVars
        /\ [AnnouncerNext]_announceVars
        /\ [ReceiverNext]_receiverVars
        /\ [CommandNext]_commandVars
        /\ [JobNext]_lrptVars
        /\ [RestoreNext]_restoreVars
        /\ [StreamNext]_streamVars
  BY DEF Next, vars, OnlyBatch, OnlyAnnouncer, OnlyStream, OnlyReceiver, OnlyRestore,
         OnlyCommand, OnlyJobs
<1> QED
  BY <1>1, <1>2, PTL DEF Spec, BatchSpec, AnnouncerSpec, ReceiverSpec, CommandSpec, JobSpec,
                         RestoreSpec, StreamSpec
-----------------------------------------------------------------------------
\* One worker at most is at work, that of the latest batch, and only while the
\* batch runs; a decoder is alive only while it waits for it.
AtItem == {"launch", "wait", "check", "complete", "fail", "clear"}

BatchInv ==
    /\ BatchTypeOK
    /\ Len(items) <= MaxItem
    /\ \A b \in Batches : worker[b] \notin {"none", "done"} => b = batch /\ running
    /\ \A b \in Batches : worker[b] \in AtItem => index[b] <= Len(items)
    /\ \A b \in Batches : b > batch => worker[b] = "none"
    /\ \A p \in decoders : /\ batch \in Batches
                           /\ worker[batch] = "wait"
                           /\ p = <<batch, index[batch]>>
                           /\ p = process

LEMMA BatchStart == ASSUME BatchInit PROVE BatchInv
<1> USE BatchAssumption DEF BatchInit, Batches
<1>1. items \in Seq(Outcome \cup {"queued", "running"}) /\ Len(items) = 0
  OBVIOUS
<1>2. BatchTypeOK
  <2>1. index \in [Batches -> 1 .. MaxItem + 1] /\ batch \in 0 .. MaxBatch
    OBVIOUS
  <2>2. worker \in [Batches -> {"none", "next", "launch", "wait", "check", "complete",
                                "fail", "clear", "done"}]
    OBVIOUS
  <2> QED
    BY <1>1, <2>1, <2>2 DEF BatchTypeOK
<1>3. \A b \in Batches : worker[b] = "none"
  OBVIOUS
<1> QED
  BY <1>1, <1>2, <1>3 DEF BatchInv, AtItem

LEMMA MarkTypes ==
    ASSUME BatchInv, NEW b \in Batches, index[b] <= Len(items),
           NEW state \in Outcome \cup {"queued", "running"}, Mark(b, state)
    PROVE  /\ items' \in Seq(Outcome \cup {"queued", "running"})
           /\ Len(items') = Len(items)
<1> DEFINE States == Outcome \cup {"queued", "running"}
<1>1. items \in Seq(States) /\ index[b] \in 1 .. Len(items)
  BY DEF BatchInv, BatchTypeOK
<1>2. items' = [items EXCEPT ![index[b]] = state]
  BY DEF Mark
<1> QED
  BY <1>1, <1>2

LEMMA BeginKeeps ==
    ASSUME BatchInv, NEW n \in 1 .. MaxItem, StartBatch(n) PROVE BatchInv'
<1> USE BatchAssumption DEF StartBatch, Begin, BatchInv, BatchTypeOK, Batches
<1>1. items' \in Seq(Outcome \cup {"queued", "running"}) /\ Len(items') = n
  OBVIOUS
<1>2. \A b \in Batches : worker[b] \in {"none", "done"}
  OBVIOUS
<1>3. decoders = {}
  BY <1>2
<1>4. batch + 1 \in Batches
  OBVIOUS
<1>5. BatchTypeOK'
  <2>1. worker' \in [Batches -> {"none", "next", "launch", "wait", "check", "complete",
                                 "fail", "clear", "done"}]
    BY <1>4
  <2>2. index' = index /\ process' = process /\ decoders' = decoders
    OBVIOUS
  <2>a. batch' = batch + 1 /\ running' = TRUE /\ cancelled' = FALSE
    OBVIOUS
  <2>3. batch' \in 0 .. MaxBatch /\ running' \in BOOLEAN /\ cancelled' \in BOOLEAN
    <3>1. batch + 1 \in 0 .. MaxBatch
      BY <1>4
    <3> QED
      BY ONLY <3>1, <2>a
  <2> QED
    BY <1>1, <2>1, <2>2, <2>3
<1>6. \A b \in Batches : b # batch' => worker'[b] \in {"none", "done"}
  BY <1>2
<1>7. worker'[batch'] = "next"
  BY <1>4
<1>8. \A b \in Batches : b > batch' => worker'[b] = "none"
  BY <1>4
<1>9. running' /\ Len(items') <= MaxItem /\ decoders' = {}
  BY <1>1, <1>3
<1> HIDE DEF StartBatch, Begin, BatchInv, BatchTypeOK
<1> QED
  BY <1>5, <1>6, <1>7, <1>8, <1>9 DEF AtItem, BatchInv

LEMMA WorkerKeeps ==
    ASSUME BatchInv, NEW b \in Batches, BatchWorker(b) PROVE BatchInv'
<1> USE BatchAssumption DEF BatchInv, BatchTypeOK, Batches, Goes, AtItem
<1>1. CASE NextItem(b)
  <2>0. b = batch /\ decoders = {} /\ \A c \in Batches \ {b} : worker[c] \in {"none", "done"}
    BY <1>1 DEF NextItem
  <2>a. Len(items) \in Nat /\ index[b] \in Nat
    OBVIOUS
  <2>1. CASE index[b] > Len(items)
    <3>1. worker' = [worker EXCEPT ![b] = "done"] /\ running' = FALSE
      BY <1>1, <2>1, <2>a DEF NextItem
    <3>2. UNCHANGED <<batch, items, cancelled, process, decoders, index>>
      BY <1>1, <2>1, <2>a DEF NextItem
    <3>3. \A c \in Batches : worker'[c] \in {"none", "done"} /\ (c # b => worker'[c] = worker[c])
      BY <2>0, <3>1
    <3>4. BatchTypeOK'
      BY <3>1, <3>2
    <3>5. decoders' = {} /\ Len(items') <= MaxItem
      BY <2>0, <3>2
    <3>6. \A c \in Batches : c > batch' => worker'[c] = "none"
      BY <2>0, <3>2, <3>3
    <3> HIDE DEF BatchTypeOK
    <3> QED
      BY <3>3, <3>4, <3>5, <3>6
  <2>2. CASE index[b] <= Len(items)
    <3>1. items' \in Seq(Outcome \cup {"queued", "running"}) /\ Len(items') = Len(items)
      BY <1>1, <2>2, MarkTypes DEF NextItem, Outcome
    <3> QED
      <4>1. index' \in [Batches -> 1 .. MaxItem + 1]
        BY <1>1, <2>2, <2>a, SMTT(30) DEF NextItem
      <4>2. \A c \in Batches \ {b} : worker'[c] = worker[c]
        BY <1>1, <2>2, <2>a DEF NextItem
      <4>3. /\ worker'[b] = "next" \/ (worker'[b] = "launch" /\ index' = index)
            /\ worker' \in [Batches -> {"none", "next", "launch", "wait", "check", "complete",
                                        "fail", "clear", "done"}]
        BY <1>1, <2>2, <2>a, SMTT(30) DEF NextItem
      <4>4. UNCHANGED <<batch, running, cancelled, process, decoders>>
        BY <1>1, <2>2, <2>a DEF NextItem
      <4>5. BatchTypeOK'
        BY <3>1, <4>1, <4>3, <4>4
      <4>6. decoders' = {} /\ Len(items') <= MaxItem
        BY <2>0, <3>1, <4>4
      <4>7. \A c \in Batches : c > batch' => worker'[c] = "none"
        BY <2>0, <4>2, <4>4
      <4>8. \A c \in Batches : worker'[c] \notin {"none", "done"} => c = batch' /\ running'
        BY <1>1, <2>0, <4>2, <4>4 DEF NextItem
      <4>9. \A c \in Batches : worker'[c] \in AtItem => index'[c] <= Len(items')
        BY <2>0, <2>2, <3>1, <4>2, <4>3
      <4> HIDE DEF BatchTypeOK, AtItem
      <4> QED
        BY <4>5, <4>6, <4>7, <4>8, <4>9
  <2> QED
    BY <2>1, <2>2, SMTT(30)
<1>2. CASE Launch(b)
  <2>0. b = batch /\ index[b] <= Len(items) /\ decoders = {}
    BY <1>2 DEF Launch
  <2>1. <<b, index[b]>> \in Process
    BY <2>0 DEF Process
  <2>2. CASE Mark(b, "cancelled")
    <3>1. items' \in Seq(Outcome \cup {"queued", "running"}) /\ Len(items') = Len(items)
      BY <2>0, <2>2, MarkTypes DEF Outcome
    <3> QED
      BY <1>2, <2>0, <2>1, <3>1 DEF Launch, Spawned
  <2>3. CASE items' = items
    BY <1>2, <2>0, <2>1, <2>3 DEF Launch, Spawned
  <2> QED
    BY <1>2, <2>2, <2>3 DEF Launch
<1>3. CASE Wait(b)
  BY <1>3 DEF Wait, WaitedFor, Overdue
<1>4. CASE Check(b) \/ Complete(b) \/ Fail(b)
  <2>0. b = batch /\ index[b] <= Len(items) /\ decoders = {}
    BY <1>4 DEF Check, Complete, Fail
  <2>1. items' \in Seq(Outcome \cup {"queued", "running"}) /\ Len(items') = Len(items)
    BY <1>4, <2>0, MarkTypes DEF Check, Complete, Fail, Outcome
  <2> QED
    BY <1>4, <2>0, <2>1 DEF Check, Complete, Fail
<1>5. CASE Clear(b)
  BY <1>5 DEF Clear
<1> QED
  BY <1>1, <1>2, <1>3, <1>4, <1>5 DEF BatchWorker

LEMMA BatchInvariant == BatchSpec => []BatchInv
<1>1. BatchInv /\ [BatchNext]_batchVars => BatchInv'
  <2> SUFFICES ASSUME BatchInv, [BatchNext]_batchVars PROVE BatchInv'
    OBVIOUS
  <2>1. CASE CancelBatch
    BY <2>1 DEF CancelBatch, BatchInv, BatchTypeOK
  <2>2. CASE ProcessEnds
    BY <2>2 DEF ProcessEnds, BatchInv, BatchTypeOK
  <2>3. CASE UNCHANGED batchVars
    BY <2>3 DEF batchVars, BatchInv, BatchTypeOK
  <2> QED
    BY <2>1, <2>2, <2>3, BeginKeeps, WorkerKeeps DEF BatchNext
<1> QED
  BY <1>1, BatchStart, PTL DEF BatchSpec

\* A decoder process that is alive is the one a cancel would terminate: start refuses
\* a second batch, and a worker waits for its decoder before it goes on.
THEOREM CancelSafe == Spec => []CancelReaches
<1>1. BatchInv => CancelReaches
  BY DEF BatchInv, CancelReaches
<1> QED
  BY <1>1, Services, BatchInvariant, PTL

\* From a cancel to the next start no decoder begins: _run looks at the event again
\* under the lock of cancel.
THEOREM CancelHolds == Spec => CancelSticks
<1>1. [BatchNext]_batchVars => [cancelled /\ cancelled' => decoders' \subseteq decoders]_batchVars
  <2> SUFFICES ASSUME BatchNext, cancelled, cancelled' PROVE decoders' \subseteq decoders
    OBVIOUS
  <2>1. ASSUME NEW n \in 1 .. MaxItem, StartBatch(n) PROVE decoders' = decoders
    BY <2>1 DEF StartBatch, Begin
  <2>2. ASSUME NEW b \in Batches, BatchWorker(b) PROVE decoders' \subseteq decoders
    BY <2>2 DEF BatchWorker, NextItem, Launch, Wait, WaitedFor, Overdue, Check, Complete,
                Fail, Clear
  <2> QED
    BY <2>1, <2>2 DEF BatchNext, CancelBatch, ProcessEnds
<1> QED
  BY <1>1, Services, PTL DEF BatchSpec, CancelSticks
-----------------------------------------------------------------------------
\* The numbers that wait are apart from each other and from what was spoken, and
\* what was silenced belongs to an earlier generation.
PendingInv ==
    \A i \in DOMAIN pending :
        /\ pending[i].number \in 1 .. said
        /\ asker = "queue" => pending[i].number # said
        /\ pending[i].generation <= generation
        /\ pending[i].number \in silenced => pending[i].generation < generation
        /\ pending[i].number \notin spoken
        /\ speaker \in {"judge", "speak"} => pending[i].number # held.number
        /\ \A j \in DOMAIN pending : pending[i].number = pending[j].number => i = j

HeldInv ==
    speaker \in {"judge", "speak"} =>
        /\ held.number \in 1 .. said
        /\ asker = "queue" => held.number # said
        /\ held.generation <= generation
        /\ held.number \notin spoken
        /\ speaker = "judge" /\ held.number \in silenced => held.generation < generation
        /\ speaker = "speak" => held.number \notin silenced

AnnounceInv ==
    /\ AnnouncerTypeOK
    /\ PendingInv
    /\ HeldInv
    /\ silenced \cup spoken \subseteq 1 .. said
    /\ asker = "queue" => said \in 1 .. MaxSay /\ said \notin silenced \cup spoken
    /\ SilencedStays

LEMMA AnnouncerStart == ASSUME AnnouncerInit PROVE AnnounceInv
<1>1. pending \in Seq(Message) /\ Len(pending) = 0 /\ DOMAIN pending = {}
  BY DEF AnnouncerInit
<1> QED
  BY <1>1, AnnouncerAssumption DEF AnnouncerInit, AnnounceInv, AnnouncerTypeOK, PendingInv,
     HeldInv, SilencedStays, NoMessage, Message

LEMMA DisableKeeps == ASSUME AnnounceInv, Disable PROVE AnnounceInv'
<1> USE AnnouncerAssumption DEF AnnounceInv, AnnouncerTypeOK, Disable
<1>1. Waiting \subseteq 1 .. said
  BY DEF PendingInv, HeldInv, Waiting
<1>2. asker = "queue" => said \notin Waiting
  BY DEF PendingInv, HeldInv, Waiting
<1>3. Waiting \cap spoken = {}
  BY DEF PendingInv, HeldInv, Waiting
<1>4. speaker = "speak" => held.number \notin Waiting
  BY DEF PendingInv, HeldInv, Waiting
<1>5. PendingInv'
  <2>0. \A i \in DOMAIN pending : pending[i] \in Message
    OBVIOUS
  <2>1. \A i \in DOMAIN pending : pending[i].generation \in Nat
    BY ONLY <2>0 DEF Message
  <2> QED
    BY <2>1 DEF PendingInv
<1>6. HeldInv'
  BY <1>4 DEF HeldInv, Message
<1>7. AnnouncerTypeOK'
  BY <1>1
<1> QED
  BY <1>1, <1>2, <1>3, <1>5, <1>6, <1>7 DEF SilencedStays

LEMMA EnqueueKeeps == ASSUME AnnounceInv, Enqueue PROVE AnnounceInv'
<1> USE AnnouncerAssumption DEF AnnounceInv, AnnouncerTypeOK, Enqueue
<1>1. CASE pending' = pending
  BY <1>1 DEF PendingInv, HeldInv, SilencedStays
<1>2. CASE pending' # pending
  <2> DEFINE new == [number |-> said, generation |-> generation]
  <2>1. new \in Message /\ pending' = Append(pending, new) /\ Len(pending) < Limit
    BY <1>2 DEF Message
  <2>2. pending' \in Seq(Message) /\ Len(pending') <= Limit
    BY <2>1
  <2>3. DOMAIN pending' = 1 .. Len(pending) + 1 /\ DOMAIN pending = 1 .. Len(pending)
    BY <2>1
  <2>4. pending'[Len(pending) + 1] = new /\ \A i \in DOMAIN pending : pending'[i] = pending[i]
    BY <2>1
  <2>5. \A i \in DOMAIN pending' : i \in DOMAIN pending \/ i = Len(pending) + 1
    <3>1. Len(pending) \in Nat
      OBVIOUS
    <3> QED
      BY ONLY <2>3, <3>1
  <2> HIDE DEF new
  <2>6. new.number = said /\ new.generation = generation
    BY DEF new
  <2>7. speaker' \in {"judge", "speak"} => speaker = speaker'
    OBVIOUS
  <2>8. PendingInv'
    <3>1. \A i \in DOMAIN pending : pending'[i] = pending[i] /\ pending[i].number # said
      BY <2>4 DEF PendingInv
    <3>2. speaker' \in {"judge", "speak"} => held.number # said
      BY <2>7 DEF HeldInv
    <3>3. ~(asker' = "queue") /\ said \in 1 .. said /\ generation \in Nat
      OBVIOUS
    <3>4. asker = "queue" => said \notin silenced \cup spoken
      OBVIOUS
    <3> SUFFICES ASSUME NEW i \in DOMAIN pending'
                 PROVE  /\ pending'[i].number \in 1 .. said
                        /\ pending'[i].generation <= generation
                        /\ pending'[i].number \in silenced => pending'[i].generation < generation
                        /\ pending'[i].number \notin spoken
                        /\ speaker' \in {"judge", "speak"} => pending'[i].number # held.number
                        /\ \A j \in DOMAIN pending' : pending'[i].number = pending'[j].number => i = j
      BY <3>3 DEF PendingInv
    <3>5. CASE i = Len(pending) + 1
      <4>1. said \notin silenced /\ said \notin spoken
        BY <3>4
      <4>2. pending'[i].number = said /\ pending'[i].generation = generation
        BY <2>4, <2>6, <3>5
      <4>3. \A j \in DOMAIN pending' : j # i => pending'[j].number # said
        BY <2>4, <2>5, <3>1, <3>5
      <4>4. speaker' \in {"judge", "speak"} => said # held.number
        BY <3>2
      <4> QED
        BY ONLY <3>3, <4>1, <4>2, <4>3, <4>4
    <3>6. CASE i \in DOMAIN pending
      <4>1. /\ pending[i].number \in 1 .. said
            /\ pending[i].generation <= generation
            /\ pending[i].number \in silenced => pending[i].generation < generation
            /\ pending[i].number \notin spoken
            /\ speaker \in {"judge", "speak"} => pending[i].number # held.number
            /\ \A j \in DOMAIN pending : pending[i].number = pending[j].number => i = j
        BY <3>6 DEF PendingInv
      <4> QED
        BY <2>4, <2>5, <2>6, <2>7, <3>1, <3>6, <4>1
    <3> QED
      BY <2>5, <3>5, <3>6
  <2>9. HeldInv'
    BY <2>7 DEF HeldInv
  <2> QED
    BY <2>2, <2>8, <2>9 DEF SilencedStays
<1> QED
  BY <1>1, <1>2

LEMMA TakeKeeps == ASSUME AnnounceInv, Take PROVE AnnounceInv'
<1> USE DEF AnnounceInv, AnnouncerTypeOK, Take
<1>1. /\ DOMAIN pending = 1 .. Len(pending) /\ DOMAIN pending' = 1 .. Len(pending) - 1
      /\ pending' \in Seq(Message) /\ Len(pending') <= Limit
      /\ \A i \in DOMAIN pending' : pending'[i] = pending[i + 1] /\ i + 1 \in DOMAIN pending
      /\ held' = pending[1] /\ 1 \in DOMAIN pending /\ held' \in Message
  BY AnnouncerAssumption
<1>2. PendingInv'
  BY <1>1 DEF PendingInv
<1>3. HeldInv'
  BY <1>1 DEF PendingInv, HeldInv
<1> QED
  BY <1>1, <1>2, <1>3 DEF SilencedStays

LEMMA AnnouncerInvariant == AnnouncerSpec => []AnnounceInv
<1>1. AnnounceInv /\ [AnnouncerNext]_announceVars => AnnounceInv'
  <2> SUFFICES ASSUME AnnounceInv, [AnnouncerNext]_announceVars PROVE AnnounceInv'
    OBVIOUS
  <2> USE AnnouncerAssumption DEF AnnounceInv, AnnouncerTypeOK
  <2>1. CASE Enable
    BY <2>1 DEF Enable, PendingInv, HeldInv, SilencedStays
  <2>2. CASE Announce
    BY <2>2 DEF Announce, PendingInv, HeldInv, SilencedStays
  <2>3. CASE Judge
    BY <2>3 DEF Judge, PendingInv, HeldInv, SilencedStays
  <2>4. CASE Speak
    <3>1. PendingInv' /\ HeldInv'
      BY <2>4 DEF Speak, PendingInv, HeldInv
    <3>2. held.number \in 1 .. said /\ held.number \notin silenced
      BY <2>4 DEF Speak, HeldInv
    <3>3. asker = "queue" => held.number # said
      BY <2>4 DEF Speak, HeldInv
    <3>4. silenced \cup spoken' \subseteq 1 .. said /\ silenced \cap spoken' = {}
      BY <2>4, <3>2 DEF Speak, SilencedStays
    <3>5. asker = "queue" => said \notin spoken'
      BY <2>4, <3>3 DEF Speak
    <3> QED
      BY <2>4, <3>1, <3>4, <3>5 DEF Speak, SilencedStays
  <2>5. CASE UNCHANGED announceVars
    BY <2>5 DEF announceVars, PendingInv, HeldInv, SilencedStays
  <2> QED
    BY <2>1, <2>2, <2>3, <2>4, <2>5, DisableKeeps, EnqueueKeeps, TakeKeeps
       DEF AnnouncerNext, Speaking
<1> QED
  BY <1>1, AnnouncerStart, PTL DEF AnnouncerSpec

\* What waited when speech was disabled is not spoken after it is enabled again: each
\* announcement carries the generation it was queued in.
THEOREM SilencedSafe == Spec => []SilencedStays
<1>1. AnnounceInv => SilencedStays
  BY DEF AnnounceInv
<1> QED
  BY <1>1, Services, AnnouncerInvariant, PTL
-----------------------------------------------------------------------------
\* Who is not idle holds the lock.  A child that is alive and was not killed is
\* owned, or awaited by the holder, who owns no other until it is through.
ReceiverInv ==
    /\ ReceiverTypeOK
    /\ \A u \in User : user[u] # "idle" => holder = u
    /\ alive \cup killed \subseteq 1 .. children
    /\ owned <= children
    /\ \A u \in User : user[u] \in {"eof", "terminated", "killed", "spawn"} => owned = 0
    /\ \A u \in User : user[u] \in {"eof", "terminated", "killed"} => ending[u] \in 1 .. children
    /\ \A c \in alive \ killed :
          \/ c = owned
          \/ holder # Nobody /\ c = ending[holder] /\ user[holder] \in {"eof", "terminated"}

LEMMA ManagingKeeps ==
    ASSUME ReceiverInv, NEW u \in User, Managing(u) PROVE ReceiverInv'
<1> USE ReceiverAssumption DEF ReceiverInv, ReceiverTypeOK, Child, Moves, Return, AfterStop
<1>1. CASE Swap(u)
  BY <1>1 DEF Swap
<1>2. CASE Reap(u)
  BY <1>2 DEF Reap
<1>3. CASE TimeOut(u)
  <2>0. UNCHANGED <<owned, alive, purpose, ending, children>>
    BY <1>3 DEF TimeOut
  <2>1. CASE Moves(u, "eof", "terminated") /\ UNCHANGED <<holder, killed>>
    BY <2>0, <2>1
  <2>2. CASE /\ Moves(u, "terminated", "killed")
             /\ killed' = killed \cup {ending[u]}
             /\ UNCHANGED holder
    <3>1. /\ user[u] = "terminated"
          /\ user' = [user EXCEPT ![u] = "killed"]
          /\ holder = u
      BY <2>2
    <3>2. killed' \subseteq 1 .. children'
      BY <2>0, <2>2, <3>1
    <3>3. \A c \in alive' \ killed' :
            \/ c = owned'
            \/ holder' # Nobody /\ c = ending'[holder'] /\ user'[holder'] \in {"eof", "terminated"}
      BY <2>0, <2>2, <3>1
    <3>4. ReceiverTypeOK'
      BY <2>0, <2>2, <3>1, <3>2
    <3> QED
      BY <2>0, <2>2, <3>1, <3>2, <3>3, <3>4
  <2>3. CASE Return(u, "killed") /\ UNCHANGED killed
    BY <2>0, <2>3
  <2> QED
    BY <1>3, <2>1, <2>2, <2>3 DEF TimeOut
<1>4. CASE StartNothing(u)
  BY <1>4 DEF StartNothing
<1>5. CASE Spawn(u)
  BY <1>5 DEF Spawn
<1>6. CASE Probe(u)
  BY <1>6 DEF Probe
<1> QED
  BY <1>1, <1>2, <1>3, <1>4, <1>5, <1>6 DEF Managing

LEMMA ReceiverInvariant == ReceiverSpec => []ReceiverInv
<1> USE ReceiverAssumption
<1>1. ReceiverInit => ReceiverInv
  BY DEF ReceiverInit, ReceiverInv, ReceiverTypeOK, Child
<1>2. ReceiverInv /\ [ReceiverNext]_receiverVars => ReceiverInv'
  <2> SUFFICES ASSUME ReceiverInv, [ReceiverNext]_receiverVars PROVE ReceiverInv'
    OBVIOUS
  <2>1. ASSUME NEW u \in User, Call(u) PROVE ReceiverInv'
    BY <2>1 DEF Call, Moves, ReceiverInv, ReceiverTypeOK
  <2>2. CASE ChildEnds
    BY <2>2 DEF ChildEnds, ReceiverInv, ReceiverTypeOK
  <2>3. CASE UNCHANGED receiverVars
    BY <2>3 DEF receiverVars, ReceiverInv, ReceiverTypeOK
  <2> QED
    BY <2>1, <2>2, <2>3, ManagingKeeps DEF ReceiverNext
<1> QED
  BY <1>1, <1>2, PTL DEF ReceiverSpec

\* No two decoders share the sound input: a start stops the child there is, under the
\* lock, and goes on only when it has been reaped.
THEOREM ReceiverSafe == Spec => []OneReceiver
<1>1. ReceiverInv => OneReceiver
  BY DEF ReceiverInv, OneReceiver
<1> QED
  BY <1>1, Services, ReceiverInvariant, PTL
-----------------------------------------------------------------------------
\* Before the exit and any misreport, only the latest command is under way, and what
\* its worker still has to do tells where its script is.
CommandInv ==
    /\ CommandTypeOK
    /\ \A c \in Command : c > commands => commander[c] = "none"
    /\ \A k \in Cleaner : cleaner[k] # "idle" => exiting
    /\ exiting \/ misreported \/
          \A c \in Command :
             /\ commander[c] \notin {"none", "done"} => c = commands /\ commandRunning
             /\ c \in scripts => commander[c] \in {"register", "wait"}
             /\ commander[c] = "wait" => current = c

LEMMA WorkingKeeps ==
    ASSUME CommandInv, NEW c \in Command, Working(c) PROVE CommandInv'
<1> USE CommandAssumption DEF CommandInv, CommandTypeOK, Command, Advances, exitVars
<1>1. CASE SpawnScript(c)
  BY <1>1 DEF SpawnScript
<1>2. CASE Register(c)
  BY <1>2 DEF Register
<1>3. CASE AwaitScript(c)
  BY <1>3 DEF AwaitScript
<1>4. CASE ForgetScript(c)
  BY <1>4 DEF ForgetScript
<1>5. CASE Report(c)
  BY <1>5 DEF Report
<1> QED
  BY <1>1, <1>2, <1>3, <1>4, <1>5 DEF Working

LEMMA CleaningKeeps ==
    ASSUME CommandInv, NEW k \in Cleaner, Cleaning(k) PROVE CommandInv'
<1> USE CommandAssumption DEF CommandInv, CommandTypeOK, Command, CleanerMoves, Cleaner
<1>1. CASE ReadCommand(k)
  BY <1>1 DEF ReadCommand
<1>2. CASE TerminateCommand(k)
  BY <1>2 DEF TerminateCommand
<1>3. CASE ForgetCommand(k)
  BY <1>3 DEF ForgetCommand
<1> QED
  BY <1>1, <1>2, <1>3 DEF Cleaning

LEMMA CommandInvariant == CommandSpec => []CommandInv
<1> USE CommandAssumption
<1>1. CommandInit => CommandInv
  <2> SUFFICES ASSUME CommandInit PROVE CommandInv
    OBVIOUS
  <2>1. CommandTypeOK
    <3>1. commander \in [Command -> {"none", "spawn", "register", "wait", "compare", "clear",
                                     "report", "done"}]
      BY DEF CommandInit
    <3>2. /\ cleaner \in [Cleaner -> {"idle", "read", "terminate", "forget", "done"}]
          /\ victim \in [Cleaner -> Command \cup {0}]
      BY DEF CommandInit
    <3>3. commandRunning = FALSE /\ exiting = FALSE /\ misreported = FALSE
      BY DEF CommandInit
    <3>4. current = 0 /\ scripts = {} /\ commands \in 0 .. MaxCommand
      BY DEF CommandInit
    <3> QED
      BY <3>1, <3>2, <3>3, <3>4 DEF CommandTypeOK
  <2>2. commandRunning = FALSE /\ scripts = {} /\ \A c \in Command : commander[c] = "none"
    BY DEF CommandInit
  <2>3. \A k \in Cleaner : cleaner[k] = "idle"
    BY DEF CommandInit
  <2> QED
    BY <2>1, <2>2, <2>3 DEF CommandInv
<1>2. CommandInv /\ [CommandNext]_commandVars => CommandInv'
  <2> SUFFICES ASSUME CommandInv, [CommandNext]_commandVars PROVE CommandInv'
    OBVIOUS
  <2> USE DEF CommandInv, CommandTypeOK, Command, Cleaner, exitVars
  <2>1. CASE RefuseMissing
    BY <2>1 DEF RefuseMissing
  <2>2. CASE StartCommand
    BY <2>2 DEF StartCommand, Advances
  <2>3. CASE ScriptEnds
    BY <2>3 DEF ScriptEnds
  <2>4. CASE RequestExit
    BY <2>4 DEF RequestExit, CleanerMoves
  <2>5. CASE FinalCleanup
    BY <2>5 DEF FinalCleanup, CleanerMoves
  <2>6. CASE UNCHANGED commandVars
    BY <2>6 DEF commandVars
  <2> HIDE DEF CommandInv
  <2> QED
    BY <2>1, <2>2, <2>3, <2>4, <2>5, <2>6, WorkingKeeps, CleaningKeeps DEF CommandNext
<1> QED
  BY <1>1, <1>2, PTL DEF CommandSpec

\* No two scripts run at once, and an exit finds the one that runs: the flag is reset
\* only when the script has been reaped and forgotten.
THEOREM CommandSafe == Spec => []CommandsApart
<1>1. CommandInv => CommandsApart
  BY DEF CommandInv, CommandTypeOK, CommandsApart
<1> QED
  BY <1>1, Services, CommandInvariant, PTL
-----------------------------------------------------------------------------
\* The job file tells who may be at work on the job, and what a deletion has read of
\* a pass that it accepted is final.
CaptureInv ==
    /\ capturing.step = "idle" <=> capturing.job = NoJob
    /\ capturing.job # NoJob =>
          /\ capturing.step = "first" => jobFile[capturing.job] = "folder"
          /\ capturing.step \in {"capture", "queue"} => jobFile[capturing.job] = "capturing"
          /\ capturing.step = "launch" => jobFile[capturing.job] = "queued"
          /\ capturing.step = "fail" => jobFile[capturing.job] \in {"folder", "capturing", "queued"}
          /\ jobWorker[capturing.job] = "none"
    /\ replaying # NoJob =>
          /\ jobFile[replaying] = "queued"
          /\ jobWorker[replaying] = "none"
          /\ capturing.job # replaying

WorkerInv ==
    \A j \in Job :
        /\ jobWorker[j] \in {"read", "begin"} => jobFile[j] = "queued"
        /\ jobWorker[j] = "decode" => jobFile[j] = "decoding"
        /\ jobWorker[j] = "finish" => jobFile[j] \in {"queued", "decoding"}
        /\ jobWorker[j] = "gone" => jobFile[j] \notin {"none", "folder", "capturing"}
        /\ jobFile[j] \in {"none", "folder"} => ~iq[j]

DeletionInv ==
    /\ deletion \in Job => deletion \in doomed
    /\ deletion = "idle" => doomed = {}
    /\ \A j \in doomed :
          \/ found[j].job = "folder" /\ ~found[j].iq
          \/ found[j].job \in Final /\ jobFile[j] = found[j].job

LrptInv == JobTypeOK /\ CaptureInv /\ WorkerInv /\ DeletionInv /\ NoOrphan

\* The shape of every step that a deletion does not take.
Undisturbed == \A j \in Job : jobFile[j] \in Final => jobFile'[j] = jobFile[j]

LEMMA DeletionStays ==
    ASSUME LrptInv, Undisturbed, UNCHANGED deleteVars PROVE DeletionInv'
BY DEF LrptInv, DeletionInv, Undisturbed, deleteVars, JobTypeOK

LEMMA CaptureKeeps ==
    ASSUME LrptInv,
           \/ \E j \in Job : StartCapture(j)
           \/ CaptureStep \/ CaptureLaunches \/ CaptureFails
    PROVE  LrptInv'
<1> USE JobAssumption DEF JobTypeOK, JobState, Final, NoCapture
<1>1. Undisturbed /\ UNCHANGED deleteVars
  BY DEF LrptInv, CaptureInv, Undisturbed, StartCapture, CaptureStep, CaptureLaunches,
         CaptureFails, WriteJob, CaptureTo, deleteVars
<1>2. DeletionInv'
  BY <1>1, DeletionStays
<1>3. ASSUME NEW j \in Job, StartCapture(j) PROVE LrptInv'
  BY <1>2, <1>3 DEF StartCapture, LrptInv, CaptureInv, WorkerInv, NoOrphan, AtWork, WriteJob,
                    deleteVars
<1>4. CASE CaptureStep
  <2> DEFINE j == capturing.job
  <2> USE <1>4 DEF LrptInv, CaptureInv, WorkerInv, NoOrphan, AtWork, WriteJob, CaptureTo,
                   deleteVars
  <2>0. j \in Job /\ UNCHANGED <<source, replaying, jobWorker, lost, deleteVars>>
    BY DEF CaptureStep
  <2>1. CASE capturing.step = "first" /\ WriteJob(j, "capturing") /\ CaptureTo("capture") /\ iq' = iq
    BY <1>2, <2>0, <2>1
  <2>2. CASE /\ capturing.step = "capture" /\ iq' = [iq EXCEPT ![j] = TRUE] /\ jobFile' = jobFile
             /\ CaptureTo("queue") \/ capturing' = capturing
    <3>1. JobTypeOK'
      BY <2>0, <2>2
    <3>2. CaptureInv' /\ WorkerInv' /\ NoOrphan'
      BY <2>0, <2>2
    <3> QED
      BY <1>2, <3>1, <3>2
  <2>3. CASE capturing.step = "queue" /\ WriteJob(j, "queued") /\ CaptureTo("launch") /\ iq' = iq
    BY <1>2, <2>0, <2>3
  <2>4. CASE /\ capturing.step \in {"first", "capture", "queue", "launch"} /\ CaptureTo("fail")
             /\ iq' = iq /\ jobFile' = jobFile
    BY <1>2, <2>0, <2>4
  <2> QED
    BY <2>1, <2>2, <2>3, <2>4 DEF CaptureStep
<1>5. CASE CaptureLaunches
  BY <1>2, <1>5 DEF CaptureLaunches, LrptInv, CaptureInv, WorkerInv, NoOrphan, AtWork,
                    Launched, deleteVars
<1>6. CASE CaptureFails
  BY <1>2, <1>6 DEF CaptureFails, LrptInv, CaptureInv, WorkerInv, NoOrphan, AtWork, WriteJob,
                    deleteVars
<1> QED
  BY <1>3, <1>4, <1>5, <1>6

LEMMA ReplayKeeps ==
    ASSUME LrptInv,
           \/ \E j \in Job, from \in Job \cup {NoJob} : Replay(j, from)
           \/ ReplayLaunches \/ ServerDies
    PROVE  LrptInv'
<1> USE JobAssumption DEF JobTypeOK, JobState, Final, NoCapture
<1>1. Undisturbed /\ UNCHANGED deleteVars
  BY DEF LrptInv, Undisturbed, Replay, ReplayLaunches, ServerDies, WriteJob, deleteVars
<1>2. DeletionInv'
  BY <1>1, DeletionStays
<1>3. ASSUME NEW j \in Job, NEW from \in Job \cup {NoJob}, Replay(j, from) PROVE LrptInv'
  BY <1>2, <1>3 DEF Replay, LrptInv, CaptureInv, WorkerInv, NoOrphan, AtWork, WriteJob,
                    deleteVars
<1>4. CASE ReplayLaunches
  BY <1>2, <1>4 DEF ReplayLaunches, LrptInv, CaptureInv, WorkerInv, NoOrphan, AtWork,
                    Launched, deleteVars
<1>5. CASE ServerDies
  BY <1>2, <1>5 DEF ServerDies, LrptInv, CaptureInv, WorkerInv, NoOrphan, AtWork, deleteVars
<1> QED
  BY <1>3, <1>4, <1>5

LEMMA DecodingKeeps ==
    ASSUME LrptInv, NEW j \in Job, ReadJob(j) \/ Decode(j) \/ Finish(j) \/ WorkerDies(j)
    PROVE  LrptInv'
<1> USE JobAssumption DEF JobTypeOK, JobState, Final
<1>1. Undisturbed /\ UNCHANGED deleteVars
  BY DEF LrptInv, WorkerInv, Undisturbed, ReadJob, Decode, Finish, WorkerDies, Decoder,
         WriteJob, deleteVars
<1>2. DeletionInv'
  BY <1>1, DeletionStays
<1>3. CASE ReadJob(j)
  BY <1>2, <1>3 DEF ReadJob, LrptInv, CaptureInv, WorkerInv, NoOrphan, AtWork, Decoder,
                    deleteVars
<1>4. CASE Decode(j)
  <2> USE DEF LrptInv, CaptureInv, WorkerInv, NoOrphan, AtWork, Decoder, WriteJob, deleteVars
  <2>0. UNCHANGED <<iq, source, capturing, replaying, lost, deleteVars>>
    BY <1>4 DEF Decode
  <2>1. CASE Decoder(j, "begin", "decode") /\ WriteJob(j, "decoding")
    BY <1>2, <2>0, <2>1
  <2>2. CASE Decoder(j, "begin", "finish") /\ jobFile' = jobFile
    BY <1>2, <2>0, <2>2
  <2>3. CASE Decoder(j, "decode", "finish") /\ jobFile' = jobFile
    BY <1>2, <2>0, <2>3
  <2> QED
    BY <1>4, <2>1, <2>2, <2>3 DEF Decode
<1>5. CASE Finish(j)
  BY <1>2, <1>5 DEF Finish, LrptInv, CaptureInv, WorkerInv, NoOrphan, AtWork, Decoder,
                    WriteJob, deleteVars
<1>6. CASE WorkerDies(j)
  BY <1>2, <1>6 DEF WorkerDies, LrptInv, CaptureInv, WorkerInv, NoOrphan, AtWork, Decoder,
                    deleteVars
<1> QED
  BY <1>3, <1>4, <1>5, <1>6

LEMMA DeletingKeeps ==
    ASSUME LrptInv,
           \/ \E passes \in SUBSET Job : Select(passes)
           \/ \E j \in Job : Unlink(j) \/ Rewrite(j)
           \/ Deleted
    PROVE  LrptInv'
<1> USE JobAssumption DEF JobTypeOK, JobState, Final
<1>1. ASSUME NEW passes \in SUBSET Job, Select(passes) PROVE LrptInv'
  BY <1>1 DEF Select, Look, LrptInv, CaptureInv, WorkerInv, DeletionInv, NoOrphan, AtWork
<1>2. ASSUME NEW j \in Job, Unlink(j) PROVE LrptInv'
  <2>1. /\ UNCHANGED <<jobFile, source, capturing, replaying, jobWorker, lost, doomed, found>>
        /\ deletion = "unlink"
        /\ j \in doomed
        /\ deletion' = j
    BY <1>2 DEF Unlink
  <2>2. iq' \in [Job -> BOOLEAN] /\ \A k \in Job : iq'[k] => iq[k]
    BY <1>2 DEF Unlink, LrptInv
  <2>3. JobTypeOK' /\ CaptureInv' /\ NoOrphan'
    BY <2>1, <2>2 DEF LrptInv, CaptureInv, NoOrphan, AtWork
  <2>4. WorkerInv'
    BY <2>1, <2>2 DEF LrptInv, WorkerInv
  <2>5. DeletionInv'
    BY <2>1 DEF LrptInv, DeletionInv
  <2> QED
    BY <2>3, <2>4, <2>5 DEF LrptInv
<1>3. ASSUME NEW j \in Job, Rewrite(j) PROVE LrptInv'
  <2>1. jobFile' = jobFile
    <3>1. deletion = j /\ j \in doomed
      BY <1>3 DEF Rewrite, LrptInv, DeletionInv
    <3>2. found[j].job # "folder" => jobFile[j] = found[j].job
      BY <3>1 DEF LrptInv, DeletionInv
    <3>3. jobFile' = jobFile \/ (found[j].job # "folder" /\ jobFile' = [jobFile EXCEPT ![j] = found[j].job])
      BY <1>3 DEF Rewrite, WriteJob
    <3>4. jobFile \in [Job -> JobState]
      BY DEF LrptInv
    <3> QED
      BY <3>2, <3>3, <3>4
  <2> QED
    BY <1>3, <2>1 DEF Rewrite, LrptInv, CaptureInv, WorkerInv, DeletionInv, NoOrphan, AtWork
<1>4. CASE Deleted
  BY <1>4 DEF Deleted, LrptInv, CaptureInv, WorkerInv, DeletionInv, NoOrphan, AtWork
<1> QED
  BY <1>1, <1>2, <1>3, <1>4

LEMMA JobInvariant == JobSpec => []LrptInv
<1>1. JobInit => LrptInv
  BY JobAssumption DEF JobInit, LrptInv, JobTypeOK, CaptureInv, WorkerInv, DeletionInv,
     NoOrphan, NoCapture, JobState, Final, AtWork
<1>2. LrptInv /\ [JobNext]_lrptVars => LrptInv'
  <2> SUFFICES ASSUME LrptInv, [JobNext]_lrptVars PROVE LrptInv'
    OBVIOUS
  <2>1. CASE JobNext
    BY <2>1, CaptureKeeps, ReplayKeeps, DecodingKeeps, DeletingKeeps DEF JobNext
  <2>2. CASE UNCHANGED lrptVars
    BY <2>2 DEF lrptVars, LrptInv, JobTypeOK, CaptureInv, WorkerInv, DeletionInv, NoOrphan,
                AtWork
  <2> QED
    BY <2>1, <2>2
<1> QED
  BY <1>1, <1>2, PTL DEF JobSpec

\* No job is left unfinished with nobody at work on it, unless something died or could
\* not be written or launched.
THEOREM OrphanSafe == Spec => []NoOrphan
<1>1. LrptInv => NoOrphan
  BY DEF LrptInv
<1> QED
  BY <1>1, Services, JobInvariant, PTL

\* A deletion takes no signal that is in use by its own job, and reverts no job file:
\* the states it accepts are those nobody leaves.
THEOREM DeletionSafe == Spec => DeletesFinished
<1> DEFINE Step == \A j \in Job :
                      /\ iq[j] /\ ~iq'[j] => ~AtWork(j)
                      /\ jobFile[j] \in Final => jobFile'[j] = jobFile[j]
<1>1. LrptInv /\ [JobNext]_lrptVars => [Step]_lrptVars
  <2> SUFFICES ASSUME LrptInv, JobNext PROVE Step
    OBVIOUS
  <2> USE JobAssumption DEF LrptInv, JobTypeOK, CaptureInv, WorkerInv, DeletionInv, Final, JobState
  <2>1. ASSUME NEW j \in Job, Unlink(j) PROVE Step
    BY <2>1 DEF Unlink, AtWork
  <2>2. ASSUME NEW j \in Job, Rewrite(j) PROVE Step
    BY <2>2 DEF Rewrite, WriteJob
  <2>3. ASSUME NEW j \in Job, StartCapture(j) PROVE Step
    BY <2>3 DEF StartCapture, WriteJob
  <2>4. CASE CaptureStep
    BY <2>4 DEF CaptureStep, WriteJob
  <2>5. CASE CaptureLaunches \/ CaptureFails \/ ReplayLaunches \/ ServerDies \/ Deleted
    BY <2>5 DEF CaptureLaunches, CaptureFails, ReplayLaunches, ServerDies, Deleted, WriteJob
  <2>6. ASSUME NEW j \in Job, NEW from \in Job \cup {NoJob}, Replay(j, from) PROVE Step
    BY <2>6 DEF Replay, WriteJob
  <2>7. ASSUME NEW j \in Job, ReadJob(j) \/ Decode(j) \/ Finish(j) \/ WorkerDies(j) PROVE Step
    BY <2>7 DEF ReadJob, Decode, Finish, WorkerDies, Decoder, WriteJob
  <2>8. ASSUME NEW passes \in SUBSET Job, Select(passes) PROVE Step
    BY <2>8 DEF Select, Look
  <2> QED
    BY <2>1, <2>2, <2>3, <2>4, <2>5, <2>6, <2>7, <2>8 DEF JobNext
<1> QED
  BY <1>1, Services, JobInvariant, PTL DEF JobSpec, DeletesFinished
-----------------------------------------------------------------------------
Members(s) == {s[k] : k \in 1 .. Len(s)}
Distinct(s) == \A j, k \in 1 .. Len(s) : s[j] = s[k] => j = k

LEMMA Pushed ==
    ASSUME NEW S, NEW s \in Seq(S), NEW e \in S
    PROVE  /\ Append(s, e) \in Seq(S)
           /\ Members(Append(s, e)) = Members(s) \cup {e}
           /\ Append(s, e) # <<>>
           /\ Append(s, e)[Len(Append(s, e))] = e
           /\ Distinct(s) /\ e \notin Members(s) => Distinct(Append(s, e))
<1> DEFINE t == Append(s, e)
<1>1. t \in Seq(S) /\ Len(t) = Len(s) + 1 /\ Len(s) \in Nat
  OBVIOUS
<1>2. (\A k \in 1 .. Len(s) : t[k] = s[k]) /\ t[Len(s) + 1] = e
  OBVIOUS
<1>3. 1 .. Len(t) = (1 .. Len(s)) \cup {Len(s) + 1}
  BY <1>1
<1> HIDE DEF t
<1>4. Members(t) = Members(s) \cup {e}
  BY <1>1, <1>2, <1>3 DEF Members
<1>5. Distinct(s) /\ e \notin Members(s) => Distinct(t)
  BY <1>1, <1>2, <1>3 DEF Members, Distinct
<1>6. t # <<>>
  BY <1>1
<1> QED
  BY <1>1, <1>2, <1>4, <1>5, <1>6 DEF t

LEMMA Popped ==
    ASSUME NEW S, NEW s \in Seq(S), s # <<>>
    PROVE  LET t == SubSeq(s, 1, Len(s) - 1) IN
           /\ t \in Seq(S)
           /\ s[Len(s)] \in S
           /\ s[Len(s)] \in Members(s)
           /\ Members(s) = Members(t) \cup {s[Len(s)]}
           /\ Distinct(s) => Distinct(t) /\ s[Len(s)] \notin Members(t)
<1> DEFINE t == SubSeq(s, 1, Len(s) - 1)
<1>1. Len(s) \in Nat \ {0}
  OBVIOUS
<1>2. t \in Seq(S) /\ Len(t) = Len(s) - 1 /\ \A k \in 1 .. Len(t) : t[k] = s[k]
  <2> DEFINE m == Len(s) - 1
  <2>1. m \in Nat /\ m <= Len(s) /\ t = SubSeq(s, 1, m)
    BY <1>1
  <2> HIDE DEF m
  <2>2. Len(t) = m /\ \A k \in 1 .. m : t[k] = s[k]
    BY <1>1, <2>1
  <2>3. t \in Seq(S)
    BY <1>1, <2>1
  <2> QED
    BY <2>2, <2>3 DEF m
<1>3. 1 .. Len(s) = (1 .. Len(t)) \cup {Len(s)} /\ Len(s) \notin 1 .. Len(t)
  BY <1>1, <1>2
<1>4. s[Len(s)] \in S
  BY <1>1
<1> HIDE DEF t
<1>5. /\ s[Len(s)] \in Members(s)
      /\ Members(s) = Members(t) \cup {s[Len(s)]}
      /\ Distinct(s) => Distinct(t) /\ s[Len(s)] \notin Members(t)
  BY <1>1, <1>2, <1>3, <1>4 DEF Members, Distinct
<1> QED
  BY <1>2, <1>4, <1>5 DEF t
-----------------------------------------------------------------------------
Forward == {"folder", "save", "note", "copy"}

\* How far the restore has come: entries before the present one are replaced, noted
\* and, where there was something, saved.
ItemInv ==
    /\ restore \in Forward => item \in DOMAIN Plan
    /\ restore \in {"save", "note", "copy"} => item \in Entry
    /\ restore \in {"folder", "save"} =>
           \A i \in Members(written) \cup saved : i < item
    /\ restore = "note" => /\ \A i \in Members(written) : i < item
                           /\ item \in saved <=> before.files[item] = "old"
    /\ restore = "copy" => written # <<>> /\ written[Len(written)] = item
    /\ restore \in {"note", "copy"} => \A i \in Members(written) \cup saved : i <= item
    /\ restore \in Forward => \A i \in Entry : i < item => files[i] = "new"
    /\ restore = "done" => \A i \in Entry : files[i] = "new"

\* What is not noted is as it was, what is noted can be brought back.
FileInv ==
    /\ \A i \in Entry \ Members(written) : files[i] = before.files[i]
    /\ \A i \in Members(written) : i \in saved <=> before.files[i] = "old"
    /\ \A i \in Entry : before.files[i] = "old" => files[i] # "none"
    /\ restore \in {"remove", "raised"} => written = <<>>

\* Only the file being copied is torn, in either direction.
TornInv ==
    /\ restore \in {"folder", "save", "note", "remove", "raised", "done"} =>
           \A i \in Entry : files[i] # "torn"
    /\ restore \in {"copy", "undo"} =>
           \A i \in Entry : files[i] = "torn" =>
               written # <<>> /\ i = written[Len(written)]
    /\ \A i, j \in Entry : files[i] = "torn" /\ files[j] = "torn" => i = j

FolderInv ==
    /\ Distinct(created)
    /\ Members(created) \cap before.folders = {}
    /\ folders = before.folders \cup Members(created)
    /\ restore = "raised" => created = <<>>

PathTypes ==
    /\ files \in [Entry -> {"none", "old", "new", "torn"}]
    /\ before \in [files : [Entry -> {"none", "old"}], folders : SUBSET Folder]
    /\ saved \subseteq Entry
    /\ written \in Seq(Entry)
    /\ created \in Seq(Folder)
    /\ item \in Nat
    /\ item \in 1 .. Len(Plan) + 1
    /\ restore \in Forward \cup {"undo", "remove"} \cup Ended

RestoreInv == PathTypes /\ ItemInv /\ FileInv /\ TornInv /\ FolderInv

LEMMA Places ==
    /\ Len(Plan) \in Nat \ {0}
    /\ DOMAIN Plan = 1 .. Len(Plan)
    /\ Entry \subseteq 1 .. Len(Plan)
    /\ Entry \subseteq Nat
    /\ \A i \in DOMAIN Plan : \A k \in DOMAIN Plan[i].folders : Plan[i].folders[k] \in Folder
  BY RestoreAssumption DEF Entry, Folder

LEMMA Positions ==
    ASSUME RestoreInv
    PROVE  item \in Nat /\ Members(written) \subseteq Entry /\ saved \subseteq Entry
<1>1. \A k \in 1 .. Len(written) : written[k] \in Entry
  BY DEF RestoreInv, PathTypes
<1> QED
  BY <1>1 DEF RestoreInv, PathTypes, Members

LEMMA RestoreStart == ASSUME RestoreInit PROVE RestoreInv
<1> USE DEF RestoreInit
<1>1. Members(written) = {} /\ Members(created) = {} /\ Distinct(created)
  BY DEF Members, Distinct
<1>2. /\ before \in [files : [Entry -> {"none", "old"}], folders : SUBSET Folder]
      /\ files = before.files /\ folders = before.folders
  OBVIOUS
<1>3. PathTypes
  BY <1>2, Places DEF PathTypes, Forward
<1>4. ItemInv
  BY <1>1, Places DEF ItemInv, Forward
<1>5. FileInv
  BY <1>1, <1>2 DEF FileInv
<1>6. TornInv
  BY <1>2 DEF TornInv
<1>7. FolderInv
  BY <1>1, <1>2 DEF FolderInv
<1> QED
  BY <1>3, <1>4, <1>5, <1>6, <1>7 DEF RestoreInv

LEMMA MakeFolderKeeps == ASSUME RestoreInv, MakeFolder PROVE RestoreInv'
<1> USE DEF MakeFolder
<1>1. item \in DOMAIN Plan /\ restore = "folder" /\ created \in Seq(Folder)
  BY DEF RestoreInv, ItemInv, Forward, PathTypes
<1>2. PICK k \in Missing : /\ folders' = folders \cup {Plan[item].folders[k]}
                           /\ created' = Append(created, Plan[item].folders[k])
  OBVIOUS
<1> DEFINE folder == Plan[item].folders[k]
<1>3. folder \in Folder /\ folder \notin folders
  BY <1>1, Places DEF Missing
<1>4. UNCHANGED <<before, files, saved, written, item, restore>>
  OBVIOUS
<1>5. folder \notin Members(created) /\ folder \notin before.folders
  BY <1>3 DEF RestoreInv, FolderInv
<1> HIDE DEF folder
<1>6. /\ created' \in Seq(Folder)
      /\ Members(created') = Members(created) \cup {folder}
      /\ Distinct(created')
  BY <1>1, <1>2, <1>3, <1>5, Pushed DEF folder, RestoreInv, FolderInv
<1>7. FolderInv'
  BY <1>1, <1>2, <1>4, <1>5, <1>6 DEF folder, RestoreInv, FolderInv
<1>8. PathTypes' /\ ItemInv' /\ FileInv' /\ TornInv'
  BY <1>4, <1>6 DEF RestoreInv, PathTypes, ItemInv, FileInv, TornInv
<1> QED
  BY <1>7, <1>8 DEF RestoreInv

\* The steps that only move on.
LEMMA MovesKeep ==
    ASSUME RestoreInv,
           FoldersMade \/ Save \/ Raise \/ FilesUndone \/ RolledBack \/ Die
    PROVE  RestoreInv'
<1> USE Places DEF RestoreInv
<1>0. UNCHANGED <<before, files, folders, written, created>>
  BY DEF FoldersMade, NextEntry, Save, Raise, FilesUndone, RolledBack, Die
<1>1. CASE FoldersMade
  <2>1. restore = "folder" /\ item \in DOMAIN Plan /\ item \in Nat /\ saved' = saved
    BY <1>1 DEF FoldersMade, ItemInv, PathTypes, Forward
  <2>2. CASE Plan[item].file
    <3>1. restore' = "save" /\ item' = item /\ item \in Entry
      BY <1>1, <2>1, <2>2 DEF FoldersMade, Entry
    <3> QED
      BY <1>0, <2>1, <3>1 DEF PathTypes, ItemInv, FileInv, TornInv, FolderInv, Forward
  <2>3. CASE ~Plan[item].file
    <3>1. /\ item' = item + 1
          /\ restore' = IF item < Len(Plan) THEN "folder" ELSE "done"
          /\ item \notin Entry
      BY <1>1, <2>1, <2>3 DEF FoldersMade, NextEntry, Entry
    <3>2. PathTypes'
      BY <1>0, <2>1, <3>1 DEF PathTypes, Forward, Ended
    <3>3. \A i \in Entry : i < item + 1 => i < item
      BY <2>1, <3>1
    <3>4. ItemInv'
      <4>1. \A i \in Members(written) \cup saved : i \in Entry /\ i < item + 1
        <5>1. \A i \in Members(written) \cup saved : i \in Entry /\ i \in Nat
          BY Positions
        <5>2. \A i \in Members(written) \cup saved : i < item
          BY <2>1 DEF ItemInv
        <5>3. \A i \in Nat : i < item => i < item + 1
          BY <2>1
        <5> QED
          BY <5>1, <5>2, <5>3
      <4>2. restore' = "folder" => item + 1 \in DOMAIN Plan
        BY <2>1, <3>1
      <4>3. restore' = "done" => \A i \in Entry : i < item + 1
        BY <2>1, <3>1
      <4>4. \A i \in Entry : i < item + 1 => files[i] = "new"
        BY <2>1, <3>3 DEF ItemInv, Forward
      <4> QED
        BY <1>0, <2>1, <3>1, <4>1, <4>2, <4>3, <4>4 DEF ItemInv, Forward
    <3> QED
      BY <1>0, <2>1, <3>1, <3>2, <3>4 DEF FileInv, TornInv, FolderInv
  <2> QED
    BY <2>2, <2>3
<1>2. CASE Save
  <2>1. restore = "save" /\ restore' = "note" /\ item' = item /\ item \in Entry
    BY <1>2 DEF Save, ItemInv
  <2>2. item \notin Members(written) /\ item \notin saved
    BY Positions, <2>1 DEF ItemInv
  <2>3. files[item] = before.files[item] /\ before.files[item] \in {"none", "old"}
    BY <2>1, <2>2 DEF FileInv, PathTypes
  <2>4. saved' = IF before.files[item] = "old" THEN saved \cup {item} ELSE saved
    BY <1>2, <2>3 DEF Save
  <2>5. PathTypes' /\ FolderInv'
    BY <1>0, <2>1, <2>4 DEF PathTypes, FolderInv, Forward
  <2>6. FileInv'
    BY <1>0, <2>1, <2>2, <2>4 DEF FileInv
  <2>7. TornInv'
    BY <1>0, <2>1 DEF TornInv
  <2>8. ItemInv'
    <3>1. \A i \in Entry : i < item => files[i] = "new"
      BY <2>1 DEF ItemInv, Forward
    <3>2. \A i \in Members(written) \cup saved : i \in Nat /\ i < item
      BY Positions, <2>1 DEF ItemInv
    <3>3. item \in Nat /\ \A i \in Members(written) \cup saved' : i \in Nat /\ i <= item
      BY Positions, <2>4, <3>2
    <3>4. item \in saved' <=> before.files[item] = "old"
      BY <2>2, <2>4
    <3> QED
      BY <1>0, <2>1, <3>1, <3>2, <3>3, <3>4 DEF ItemInv, Forward
  <2> QED
    BY <2>5, <2>6, <2>7, <2>8
<1>3. CASE Raise
  BY <1>0, <1>3 DEF Raise, PathTypes, ItemInv, FileInv, TornInv, FolderInv, Forward, Ended
<1>4. CASE FilesUndone
  BY <1>0, <1>4 DEF FilesUndone, PathTypes, ItemInv, FileInv, TornInv, FolderInv, Forward,
                    Ended
<1>5. CASE RolledBack
  BY <1>0, <1>5 DEF RolledBack, PathTypes, ItemInv, FileInv, TornInv, FolderInv, Forward,
                    Ended
<1>6. CASE Die
  BY <1>0, <1>6 DEF Die, PathTypes, ItemInv, FileInv, TornInv, FolderInv, Forward, Ended
<1> QED
  BY <1>1, <1>2, <1>3, <1>4, <1>5, <1>6

LEMMA NoteKeeps == ASSUME RestoreInv, Note PROVE RestoreInv'
<1> USE Places DEF RestoreInv
<1>1. restore = "note" /\ restore' = "copy" /\ written' = Append(written, item)
  BY DEF Note
<1>2. UNCHANGED <<before, files, folders, saved, created, item>>
  BY DEF Note
<1>3. item \in Entry /\ item \notin Members(written)
  BY Positions, <1>1 DEF ItemInv
<1>4. /\ written' \in Seq(Entry)
      /\ Members(written') = Members(written) \cup {item}
      /\ written' # <<>>
      /\ written'[Len(written')] = item
  BY <1>1, <1>3, Pushed DEF PathTypes
<1>5. PathTypes' /\ FolderInv'
  BY <1>1, <1>2, <1>4 DEF PathTypes, FolderInv, Forward
<1>6. FileInv'
  BY <1>1, <1>2, <1>4 DEF FileInv, ItemInv
<1>7. TornInv'
  BY <1>1, <1>2 DEF TornInv
<1>8. ItemInv'
  BY <1>1, <1>2, <1>3, <1>4 DEF ItemInv, Forward
<1> QED
  BY <1>5, <1>6, <1>7, <1>8

LEMMA CopyKeeps == ASSUME RestoreInv, Truncate \/ Copied PROVE RestoreInv'
<1> USE Places DEF RestoreInv
<1>1. restore = "copy" /\ item \in Entry /\ item \in Nat /\ item \in DOMAIN Plan
  BY DEF Truncate, Copied, ItemInv, PathTypes
<1>2. item \in Members(written) /\ written # <<>> /\ written[Len(written)] = item
  <2>1. written \in Seq(Entry) /\ written # <<>> /\ written[Len(written)] = item
    BY <1>1 DEF ItemInv, PathTypes
  <2> QED
    BY <2>1, Popped
<1>3. UNCHANGED <<before, folders, saved, written, created>>
  BY DEF Truncate, Copied
<1>4. PICK text \in {"torn", "new"} : files' = [files EXCEPT ![item] = text]
  BY DEF Truncate, Copied
<1>5. /\ files' \in [Entry -> {"none", "old", "new", "torn"}]
      /\ files'[item] = text
      /\ \A i \in Entry : i # item => files'[i] = files[i]
  BY <1>1, <1>4 DEF PathTypes
<1>6. \A i \in Entry : files[i] = "torn" => i = item
  BY <1>1, <1>2 DEF TornInv
<1>7. FileInv'
  <2>1. restore' \notin {"remove", "raised"}
    BY <1>1 DEF Truncate, Copied, NextEntry
  <2> QED
    BY <1>2, <1>3, <1>5, <2>1 DEF FileInv
<1>8. CASE Truncate
  <2>1. restore' = "copy" /\ item' = item
    BY <1>1, <1>8 DEF Truncate
  <2>2. PathTypes' /\ FolderInv'
    BY <1>1, <1>3, <1>5, <2>1 DEF PathTypes, FolderInv
  <2>3. TornInv'
    BY <1>2, <1>3, <1>5, <1>6, <2>1 DEF TornInv
  <2>4. ItemInv'
    BY <1>1, <1>3, <1>5, <2>1 DEF ItemInv, Forward
  <2> QED
    BY <1>7, <2>2, <2>3, <2>4
<1>9. CASE Copied
  <2>1. text = "new"
    BY <1>1, <1>4, <1>5, <1>9 DEF Copied, PathTypes
  <2>2. TornInv' /\ FolderInv'
    <3>1. \A i \in Entry : files'[i] # "torn"
      BY <1>5, <1>6, <2>1
    <3>2. restore' # "raised"
      BY <1>9, <1>1 DEF Copied, NextEntry
    <3> QED
      BY <1>3, <3>1, <3>2 DEF TornInv, FolderInv
  <2>3. CASE restore' = "undo" /\ item' = item
    BY <1>1, <1>3, <1>5, <1>7, <2>2, <2>3 DEF PathTypes, ItemInv, Forward
  <2>4. CASE NextEntry
    <3>1. item' = item + 1 /\ restore' = IF item < Len(Plan) THEN "folder" ELSE "done"
      BY <2>4 DEF NextEntry
    <3>2. PathTypes'
      BY <1>1, <1>3, <1>5, <3>1 DEF PathTypes, Forward, Ended
    <3>3. \A i \in Entry : i < item + 1 => files'[i] = "new"
      <4>1. \A i \in Entry : i < item + 1 => i < item \/ i = item
        BY <1>1
      <4> QED
        BY <1>1, <1>5, <2>1, <4>1 DEF ItemInv, Forward
    <3>4. \A i \in Members(written) \cup saved : i < item + 1
      <4>1. \A i \in Members(written) \cup saved : i \in Entry /\ i <= item
        BY Positions, <1>1 DEF PathTypes, ItemInv, Members
      <4>2. \A i \in Nat : i <= item => i < item + 1
        BY <1>1
      <4> QED
        BY <4>1, <4>2
    <3>5. restore' = "done" => \A i \in Entry : i < item + 1
      BY <1>1, <3>1
    <3>6. restore' = "folder" => item + 1 \in DOMAIN Plan
      BY <1>1, <3>1
    <3>7. ItemInv'
      BY <1>3, <3>1, <3>3, <3>4, <3>5, <3>6 DEF ItemInv, Forward
    <3> QED
      BY <1>7, <2>2, <3>2, <3>7
  <2> QED
    BY <1>9, <2>3, <2>4 DEF Copied
<1> QED
  BY <1>8, <1>9

LEMMA UndoKeeps == ASSUME RestoreInv, UndoFile PROVE RestoreInv'
<1> USE Places DEF RestoreInv
<1> DEFINE i == written[Len(written)]
<1>1. restore = "undo" /\ written # <<>> /\ written \in Seq(Entry)
  BY DEF UndoFile, PathTypes
<1>2. UNCHANGED <<before, folders, saved, created, item>>
  BY DEF UndoFile
<1>3. i \in Entry /\ i \in Members(written) /\ (i \in saved <=> before.files[i] = "old")
  <2>1. i \in Entry /\ i \in Members(written)
    BY <1>1, Popped
  <2> QED
    BY <2>1 DEF FileInv
<1>4. \A j \in Entry : files[j] = "torn" => j = i
  BY <1>1 DEF TornInv
<1>5. CASE /\ files' = [files EXCEPT ![i] = IF i \in saved THEN "old" ELSE "none"]
           /\ written' = SubSeq(written, 1, Len(written) - 1)
           /\ restore' = "undo"
  <2>1. files'[i] = before.files[i] /\ \A j \in Entry : j # i => files'[j] = files[j]
    BY <1>3, <1>5 DEF PathTypes
  <2>2. files' \in [Entry -> {"none", "old", "new", "torn"}]
    BY <1>3, <1>5 DEF PathTypes
  <2>3. written' \in Seq(Entry) /\ Members(written) = Members(written') \cup {i}
    BY <1>1, <1>5, Popped
  <2> HIDE DEF i
  <2>4. PathTypes' /\ FolderInv'
    BY <1>1, <1>2, <1>5, <2>2, <2>3 DEF PathTypes, FolderInv
  <2>5. FileInv'
    BY <1>2, <1>3, <1>5, <2>1, <2>3 DEF FileInv
  <2>6. TornInv'
    <3>1. before.files[i] # "torn"
      BY <1>3 DEF PathTypes
    <3>2. \A j \in Entry : files'[j] # "torn"
      BY <1>4, <2>1, <3>1
    <3> QED
      BY <3>2 DEF TornInv
  <2>7. ItemInv'
    BY <1>5 DEF ItemInv, Forward
  <2> QED
    BY <2>4, <2>5, <2>6, <2>7
<1>6. CASE /\ files' = files \/ (i \in saved /\ files' = [files EXCEPT ![i] = "torn"])
           /\ restore' = "broken"
           /\ written' = written
  <2>1. /\ files' \in [Entry -> {"none", "old", "new", "torn"}]
        /\ \A j \in Entry : j # i => files'[j] = files[j]
        /\ files'[i] \in {files[i], "torn"}
    BY <1>3, <1>6 DEF PathTypes
  <2> HIDE DEF i
  <2>2. PathTypes' /\ FolderInv'
    BY <1>2, <1>6, <2>1 DEF PathTypes, FolderInv, Ended
  <2>3. FileInv'
    BY <1>2, <1>3, <1>6, <2>1 DEF FileInv
  <2>4. TornInv'
    BY <1>4, <1>6, <2>1 DEF TornInv
  <2>5. ItemInv'
    BY <1>6 DEF ItemInv, Forward
  <2> QED
    BY <2>2, <2>3, <2>4, <2>5
<1> QED
  BY <1>1, <1>5, <1>6 DEF UndoFile

LEMMA RemoveKeeps == ASSUME RestoreInv, RemoveFolder PROVE RestoreInv'
<1> USE Places DEF RestoreInv
<1> DEFINE folder == created[Len(created)]
<1>1. restore = "remove" /\ created # <<>> /\ created \in Seq(Folder)
  BY DEF RemoveFolder, PathTypes
<1>2. UNCHANGED <<before, files, saved, written, item>>
  BY DEF RemoveFolder
<1>3. CASE /\ created' = SubSeq(created, 1, Len(created) - 1)
           /\ folders' = folders \ {folder}
           /\ restore' = "remove"
  <2>1. /\ created' \in Seq(Folder)
        /\ folder \in Members(created)
        /\ Members(created) = Members(created') \cup {folder}
        /\ Distinct(created')
        /\ folder \notin Members(created')
    BY <1>1, <1>3, Popped DEF FolderInv
  <2> HIDE DEF folder
  <2>2. FolderInv'
    BY <1>2, <1>3, <2>1 DEF FolderInv
  <2>3. PathTypes'
    BY <1>1, <1>2, <1>3, <2>1 DEF PathTypes
  <2>4. ItemInv' /\ FileInv' /\ TornInv'
    BY <1>1, <1>2, <1>3 DEF ItemInv, FileInv, TornInv, Forward
  <2> QED
    BY <2>2, <2>3, <2>4
<1>4. CASE restore' = "broken" /\ UNCHANGED <<created, folders>>
  BY <1>1, <1>2, <1>4 DEF PathTypes, ItemInv, FileInv, TornInv, FolderInv, Forward, Ended
<1> QED
  BY <1>1, <1>3, <1>4 DEF RemoveFolder

LEMMA RestoreInvariant == RestoreSpec => []RestoreInv
<1>1. RestoreInv /\ [RestoreNext]_restoreVars => RestoreInv'
  <2> SUFFICES ASSUME RestoreInv, [RestoreNext]_restoreVars PROVE RestoreInv'
    OBVIOUS
  <2>1. CASE RestoreNext
    BY <2>1, MakeFolderKeeps, MovesKeep, NoteKeeps, CopyKeeps, UndoKeeps, RemoveKeeps
       DEF RestoreNext
  <2>2. CASE UNCHANGED restoreVars
    BY <2>2 DEF restoreVars, RestoreInv, PathTypes, ItemInv, FileInv, TornInv, FolderInv
  <2> QED
    BY <2>1, <2>2
<1> QED
  BY <1>1, RestoreStart, PTL DEF RestoreSpec

\* Whatever the archive, whatever was there, and wherever a step fails or the program
\* dies: a restore that raises leaves all as it was, and never is more than one file
\* torn or one lost.
THEOREM RestoreSafe == Spec => []AllOrNothing
<1>1. RestoreInv => AllOrNothing
  <2> SUFFICES ASSUME RestoreInv PROVE AllOrNothing
    OBVIOUS
  <2> USE DEF RestoreInv
  <2>1. restore = "raised" => files = before.files /\ folders = before.folders
    <3> SUFFICES ASSUME restore = "raised"
                 PROVE  files = before.files /\ folders = before.folders
      OBVIOUS
    <3>1. Members(written) = {} /\ Members(created) = {}
      BY DEF FileInv, FolderInv, Members
    <3>2. \A i \in Entry : files[i] = before.files[i]
      BY <3>1 DEF FileInv
    <3>3. files = before.files
      BY <3>2 DEF PathTypes
    <3> QED
      BY <3>1, <3>3 DEF FolderInv
  <2>2. restore = "done" => \A i \in Entry : files[i] = "new"
    BY DEF ItemInv
  <2>3. Cardinality({i \in Entry : files[i] = "torn"}) <= 1
    <3> DEFINE Torn == {i \in Entry : files[i] = "torn"}
    <3> HIDE DEF Torn
    <3>1. CASE Torn = {}
      BY <3>1, FS_EmptySet DEF Torn
    <3>2. CASE Torn # {}
      <4>1. PICK i \in Entry : files[i] = "torn"
        BY <3>2 DEF Torn
      <4>2. Torn = {i}
        BY <4>1 DEF TornInv, Torn
      <4>3. Cardinality(Torn) = 1
        BY <4>2, FS_Singleton
      <4> QED
        BY <4>3 DEF Torn
    <3> QED
      BY <3>1, <3>2
  <2>4. \A i \in Entry : before.files[i] = "old" => files[i] # "none"
    BY DEF FileInv
  <2> QED
    BY <2>1, <2>2, <2>3, <2>4 DEF AllOrNothing
<1> QED
  BY <1>1, Services, RestoreInvariant, PTL
-----------------------------------------------------------------------------
\* A listener's last block h and the queue q before it, when b blocks were captured.
Ordered(h, q, b) ==
    /\ h <= b
    /\ \A i \in 1 .. Len(q) : h < q[i] /\ q[i] <= b
    /\ \A i, j \in 1 .. Len(q) : i < j => q[i] < q[j]
Behind(h, q, b) == h < b /\ \A i \in 1 .. Len(q) : q[i] < b
Newest(h, q, b) == IF Len(q) = 0 THEN h = b ELSE q[Len(q)] = b

LEMMA Queued ==
    ASSUME NEW h \in Nat, NEW b \in Nat, NEW q \in Seq(Nat),
           Ordered(h, q, b), Behind(h, q, b)
    PROVE  /\ Ordered(h, Append(q, b), b)
           /\ Newest(h, Append(q, b), b)
           /\ Len(Append(q, b)) = Len(q) + 1
<1> DEFINE r == Append(q, b)
<1>1. r \in Seq(Nat) /\ Len(r) = Len(q) + 1 /\ Len(q) \in Nat
  OBVIOUS
<1>2. (\A i \in 1 .. Len(q) : r[i] = q[i]) /\ r[Len(q) + 1] = b
  OBVIOUS
<1>3. \A i \in 1 .. Len(r) : i \in 1 .. Len(q) \/ i = Len(q) + 1
  BY <1>1
<1> HIDE DEF r
<1>4. Ordered(h, r, b)
  <2>1. /\ \A i \in 1 .. Len(q) : h < q[i] /\ q[i] < b
        /\ \A i, j \in 1 .. Len(q) : i < j => q[i] < q[j]
        /\ h < b
    BY DEF Ordered, Behind
  <2>2. \A i \in 1 .. Len(r) : h < r[i] /\ r[i] <= b
    <3> SUFFICES ASSUME NEW i \in 1 .. Len(r) PROVE h < r[i] /\ r[i] <= b
      OBVIOUS
    <3>1. CASE i \in 1 .. Len(q)
      <4>1. h < q[i] /\ q[i] < b /\ q[i] \in Nat
        BY <2>1, <3>1
      <4> QED
        BY <1>2, <3>1, <4>1
    <3>2. CASE i = Len(q) + 1
      BY <1>2, <2>1, <3>2
    <3> QED
      BY <1>3, <3>1, <3>2
  <2>3. \A i, j \in 1 .. Len(r) : i < j => r[i] < r[j]
    <3> SUFFICES ASSUME NEW i \in 1 .. Len(r), NEW j \in 1 .. Len(r), i < j
                 PROVE  r[i] < r[j]
      OBVIOUS
    <3>1. i \in 1 .. Len(q)
      BY <1>1
    <3>2. CASE j \in 1 .. Len(q)
      BY <1>2, <2>1, <3>1, <3>2
    <3>3. CASE j = Len(q) + 1
      BY <1>2, <2>1, <3>1, <3>3
    <3> QED
      BY <1>3, <3>2, <3>3
  <2> QED
    BY <2>1, <2>2, <2>3 DEF Ordered
<1>5. Newest(h, r, b)
  BY <1>1, <1>2 DEF Newest
<1> QED
  BY <1>1, <1>4, <1>5 DEF r

LEMMA Taken ==
    ASSUME NEW h \in Nat, NEW b \in Nat, NEW q \in Seq(Nat), q # <<>>, Ordered(h, q, b)
    PROVE  /\ Tail(q) \in Seq(Nat)
           /\ Head(q) \in Nat
           /\ Len(Tail(q)) = Len(q) - 1
           /\ Ordered(h, Tail(q), b)
           /\ Ordered(Head(q), Tail(q), b)
           /\ Behind(h, q, b) => Behind(h, Tail(q), b) /\ Behind(Head(q), Tail(q), b)
           /\ Newest(h, q, b) => Newest(Head(q), Tail(q), b)
<1> DEFINE r == Tail(q)
<1>1. /\ r \in Seq(Nat) /\ Len(q) \in Nat \ {0} /\ Len(r) = Len(q) - 1
      /\ Head(q) = q[1] /\ q[1] \in Nat
  OBVIOUS
<1>2. \A i \in 1 .. Len(r) : r[i] = q[i + 1] /\ i + 1 \in 1 .. Len(q)
  OBVIOUS
<1> HIDE DEF r
<1>a. /\ \A i \in 1 .. Len(q) : h < q[i] /\ q[i] <= b /\ q[i] \in Nat
      /\ \A i, j \in 1 .. Len(q) : i < j => q[i] < q[j]
      /\ h <= b
  BY DEF Ordered
<1>b. /\ \A i \in 1 .. Len(r) : h < r[i] /\ r[i] <= b
      /\ \A i \in 1 .. Len(r) : q[1] < r[i]
  <2> SUFFICES ASSUME NEW i \in 1 .. Len(r) PROVE h < r[i] /\ r[i] <= b /\ q[1] < r[i]
    OBVIOUS
  <2>1. r[i] = q[i + 1] /\ i + 1 \in 1 .. Len(q) /\ 1 \in 1 .. Len(q) /\ 1 < i + 1
    BY <1>1, <1>2
  <2> QED
    BY <1>a, <2>1
<1>c. \A i, j \in 1 .. Len(r) : i < j => r[i] < r[j]
  <2> SUFFICES ASSUME NEW i \in 1 .. Len(r), NEW j \in 1 .. Len(r), i < j PROVE r[i] < r[j]
    OBVIOUS
  <2>1. /\ r[i] = q[i + 1] /\ i + 1 \in 1 .. Len(q)
        /\ r[j] = q[j + 1] /\ j + 1 \in 1 .. Len(q)
        /\ i + 1 < j + 1
    BY <1>1, <1>2
  <2> QED
    BY <1>a, <2>1
<1>d. q[1] <= b
  BY <1>1, <1>a
<1>3. Ordered(h, r, b)
  BY <1>a, <1>b, <1>c DEF Ordered
<1>4. Ordered(q[1], r, b)
  BY <1>b, <1>c, <1>d DEF Ordered
<1>5. Behind(h, q, b) => Behind(h, r, b) /\ Behind(q[1], r, b)
  <2> SUFFICES ASSUME Behind(h, q, b) PROVE Behind(h, r, b) /\ Behind(q[1], r, b)
    OBVIOUS
  <2>1. h < b /\ \A i \in 1 .. Len(q) : q[i] < b
    BY DEF Behind
  <2>2. q[1] < b
    BY <1>1, <2>1
  <2>3. \A i \in 1 .. Len(r) : r[i] < b
    BY <1>2, <2>1
  <2> QED
    BY <2>1, <2>2, <2>3 DEF Behind
<1>6. Newest(h, q, b) => Newest(q[1], r, b)
  <2>1. Len(r) # 0 => r[Len(r)] = q[Len(q)]
    BY <1>1, <1>2
  <2> QED
    BY <1>1, <2>1 DEF Newest
<1> QED
  BY <1>1, <1>3, <1>4, <1>5, <1>6 DEF r

LEMMA Captured ==
    ASSUME NEW h \in Nat, NEW b \in Nat, NEW q \in Seq(Nat), Ordered(h, q, b)
    PROVE  Ordered(h, q, b + 1) /\ Behind(h, q, b + 1)
<1>1. \A i \in 1 .. Len(q) : q[i] \in Nat
  OBVIOUS
<1> QED
  BY <1>1 DEF Ordered, Behind

LEMMA Fresh == ASSUME NEW b \in Nat PROVE Ordered(0, <<>>, b)
  BY DEF Ordered
-----------------------------------------------------------------------------
QueueTypes ==
    /\ listeners \subseteq Listener
    /\ todo \subseteq Listener
    /\ inbox \in [Listener -> Seq(Nat)]
    /\ heard \in [Listener -> Nat]
    /\ since \in [Listener -> Nat]
    /\ block \in Nat
    /\ block <= MaxAudio

\* Queues are in order; a listener the callback has yet to serve has not the new
\* block, any other has it; and room, once made, is not taken by anybody else.
QueueInv ==
    /\ \A l \in Listener : Ordered(heard[l], inbox[l], block) /\ Len(inbox[l]) <= StreamDepth
    /\ \A l \in todo : Behind(heard[l], inbox[l], block)
    /\ \A l \in listeners \ todo : since[l] < block => Newest(heard[l], inbox[l], block)
    /\ \A l \in Listener : since[l] <= block
    /\ full # NoOne => full \in todo
    /\ room \in BOOLEAN
    /\ room => full \in todo /\ Len(inbox[full]) < StreamDepth

AudioInv == QueueTypes /\ QueueInv

LEMMA AudioStart == ASSUME StreamInit PROVE AudioInv
<1>1. QueueTypes
  BY StreamAssumption DEF StreamInit, QueueTypes
<1>2. \A l \in Listener : heard[l] = 0 /\ inbox[l] = <<>> /\ block = 0
  BY DEF StreamInit
<1>a. todo = {} /\ listeners = {} /\ full = NoOne /\ room = FALSE
  BY DEF StreamInit
<1>b. Ordered(0, <<>>, 0) /\ Len(<<>>) <= StreamDepth
  BY Fresh, StreamAssumption
<1>c. \A l \in Listener : since[l] <= block
  BY DEF StreamInit
<1>3. QueueInv
  BY <1>2, <1>a, <1>b, <1>c DEF QueueInv
<1> QED
  BY <1>1, <1>3 DEF AudioInv

LEMMA PutKeeps ==
    ASSUME AudioInv, NEW l \in Listener, l \in todo, Len(inbox[l]) < StreamDepth, Put(l)
    PROVE  AudioInv'
<1> USE StreamAssumption DEF AudioInv, QueueTypes
<1>1. /\ inbox' = [inbox EXCEPT ![l] = Append(inbox[l], block)]
      /\ todo' = todo \ {l} /\ full' = NoOne /\ room' = FALSE
      /\ UNCHANGED <<listeners, heard, since, block>>
  BY DEF Put
<1>2. Ordered(heard[l], inbox[l], block) /\ Behind(heard[l], inbox[l], block)
  BY DEF QueueInv
<1>3. /\ Ordered(heard[l], Append(inbox[l], block), block)
      /\ Newest(heard[l], Append(inbox[l], block), block)
      /\ Len(Append(inbox[l], block)) = Len(inbox[l]) + 1
  BY <1>2, Queued
<1>4. Append(inbox[l], block) \in Seq(Nat)
  OBVIOUS
<1>5. inbox'[l] = Append(inbox[l], block) /\ \A k \in Listener \ {l} : inbox'[k] = inbox[k]
  BY <1>1
<1>6. QueueTypes'
  BY <1>1, <1>4
<1>7. Len(inbox'[l]) <= StreamDepth
  BY <1>3, <1>5
<1>8. QueueInv'
  BY <1>1, <1>3, <1>5, <1>7 DEF QueueInv
<1> QED
  BY <1>6, <1>8

LEMMA CallbackKeeps ==
    ASSUME AudioInv, NEW l \in Listener, Callback(l) PROVE AudioInv'
<1> USE StreamAssumption DEF AudioInv, QueueTypes
<1>1. CASE Offer(l)
  BY <1>1, PutKeeps DEF Offer
<1>2. CASE FindFull(l)
  BY <1>2 DEF FindFull, QueueInv
<1>3. CASE DropOldest(l)
  <2>1. full = l /\ room' = TRUE /\ l \in todo /\ l # NoOne
    BY <1>3 DEF DropOldest, QueueInv
  <2>2. UNCHANGED <<listeners, heard, since, block, todo, full>>
    BY <1>3 DEF DropOldest
  <2>3. inbox' = [inbox EXCEPT ![l] = IF inbox[l] = <<>> THEN inbox[l] ELSE Tail(inbox[l])]
    BY <1>3 DEF DropOldest
  <2>4. Ordered(heard[l], inbox[l], block) /\ Behind(heard[l], inbox[l], block)
        /\ Len(inbox[l]) <= StreamDepth
    BY <2>1 DEF QueueInv
  <2>5. \A k \in Listener \ {l} : inbox'[k] = inbox[k]
    BY <2>3
  <2>6. /\ inbox'[l] \in Seq(Nat)
        /\ Ordered(heard[l], inbox'[l], block)
        /\ Behind(heard[l], inbox'[l], block)
        /\ Len(inbox'[l]) < StreamDepth
    <3>1. CASE inbox[l] = <<>>
      BY <2>3, <2>4, <3>1
    <3>2. CASE inbox[l] # <<>>
      BY <2>3, <2>4, <3>2, Taken
    <3> QED
      BY <3>1, <3>2
  <2>7. QueueTypes'
    BY <2>2, <2>3, <2>6
  <2>8. QueueInv'
    <3>1. \A k \in Listener : Ordered(heard[k], inbox'[k], block) /\ Len(inbox'[k]) <= StreamDepth
      <4>1. Len(inbox'[l]) <= StreamDepth
        BY <2>6
      <4> QED
        BY <2>5, <2>6, <4>1 DEF QueueInv
    <3>2. \A k \in todo : Behind(heard[k], inbox'[k], block)
      BY <2>5, <2>6 DEF QueueInv
    <3>3. \A k \in listeners \ todo :
              since[k] < block => Newest(heard[k], inbox'[k], block)
      BY <2>1, <2>5 DEF QueueInv
    <3>4. \A k \in Listener : since[k] <= block
      BY DEF QueueInv
    <3> QED
      BY <2>1, <2>2, <2>6, <3>1, <3>2, <3>3, <3>4 DEF QueueInv
  <2> QED
    BY <2>7, <2>8
<1>4. CASE PutAgain(l)
  <2>1. l \in todo /\ Len(inbox[l]) < StreamDepth
    BY <1>4 DEF PutAgain, QueueInv
  <2> QED
    BY <1>4, <2>1, PutKeeps DEF PutAgain
<1> QED
  BY <1>1, <1>2, <1>3, <1>4 DEF Callback

LEMMA GetKeeps == ASSUME AudioInv, NEW l \in Listener, GetBlock(l) PROVE AudioInv'
<1> USE StreamAssumption DEF AudioInv, QueueTypes
<1>1. UNCHANGED <<listeners, since, block, todo, full, room>>
  BY DEF GetBlock, captureVars
<1>2. CASE inbox[l] = <<>>
  <2>1. UNCHANGED <<heard, inbox>>
    BY <1>2 DEF GetBlock
  <2> QED
    BY <1>1, <2>1 DEF QueueInv
<1>3. CASE inbox[l] # <<>>
  <2>1. /\ heard' = [heard EXCEPT ![l] = Head(inbox[l])]
        /\ inbox' = [inbox EXCEPT ![l] = Tail(inbox[l])]
    BY <1>3 DEF GetBlock
  <2>2. Ordered(heard[l], inbox[l], block) /\ Len(inbox[l]) <= StreamDepth
    BY DEF QueueInv
  <2>3. /\ inbox'[l] \in Seq(Nat)
        /\ heard'[l] \in Nat
        /\ Len(inbox'[l]) < Len(inbox[l])
        /\ Ordered(heard'[l], inbox'[l], block)
        /\ Behind(heard[l], inbox[l], block) => Behind(heard'[l], inbox'[l], block)
        /\ Newest(heard[l], inbox[l], block) => Newest(heard'[l], inbox'[l], block)
    BY <1>3, <2>1, <2>2, Taken
  <2>4. \A k \in Listener \ {l} : inbox'[k] = inbox[k] /\ heard'[k] = heard[k]
    BY <2>1
  <2>5. QueueTypes'
    BY <1>1, <2>1, <2>3
  <2>6. Len(inbox'[l]) <= StreamDepth /\ (Len(inbox[l]) < StreamDepth => Len(inbox'[l]) < StreamDepth)
    BY <2>2, <2>3
  <2>7. QueueInv'
    BY <1>1, <2>3, <2>4, <2>6 DEF QueueInv
  <2> QED
    BY <2>5, <2>7
<1> QED
  BY <1>2, <1>3

LEMMA SubscribeKeeps == ASSUME AudioInv, NEW l \in Listener, Subscribe(l) PROVE AudioInv'
<1> USE StreamAssumption DEF AudioInv, QueueTypes
<1>1. /\ listeners' = listeners \cup {l} /\ todo' = todo \ {l} /\ block' = block
      /\ inbox' = [inbox EXCEPT ![l] = <<>>]
      /\ heard' = [heard EXCEPT ![l] = 0]
      /\ since' = [since EXCEPT ![l] = block]
  BY DEF Subscribe
<1>2. /\ full' = IF full = l THEN NoOne ELSE full
      /\ room' = (room /\ full # l)
  BY DEF Subscribe
<1>3. inbox'[l] = <<>> /\ heard'[l] = 0 /\ since'[l] = block
  BY <1>1
<1>4. \A k \in Listener \ {l} :
          inbox'[k] = inbox[k] /\ heard'[k] = heard[k] /\ since'[k] = since[k]
  BY <1>1
<1>5. QueueTypes'
  BY <1>1
<1>6. Ordered(heard'[l], inbox'[l], block) /\ Len(inbox'[l]) <= StreamDepth
  BY <1>3, Fresh
<1>7. QueueInv'
  <2>1. \A k \in Listener : /\ Ordered(heard'[k], inbox'[k], block)
                            /\ Len(inbox'[k]) <= StreamDepth
                            /\ since'[k] <= block
    <3>1. since'[l] <= block
      BY <1>3
    <3> QED
      BY <1>4, <1>6, <3>1 DEF QueueInv
  <2>2. \A k \in todo' : Behind(heard'[k], inbox'[k], block)
    BY <1>1, <1>4 DEF QueueInv
  <2>3. \A k \in listeners' \ todo' :
            since'[k] < block => Newest(heard'[k], inbox'[k], block)
    <3>1. ~(since'[l] < block)
      BY <1>3
    <3>2. \A k \in (listeners' \ todo') \ {l} : k \in listeners \ todo
      BY <1>1
    <3> QED
      BY <1>4, <3>1, <3>2 DEF QueueInv
  <2>4. full' # NoOne => full' = full /\ full \in todo'
    BY <1>1, <1>2 DEF QueueInv
  <2>5. room' \in BOOLEAN
    BY <1>2 DEF QueueInv
  <2>6. room' => full' \in todo' /\ Len(inbox'[full']) < StreamDepth
    <3> SUFFICES ASSUME room' PROVE full' \in todo' /\ Len(inbox'[full']) < StreamDepth
      OBVIOUS
    <3>1. room /\ full # l /\ full' = full
      BY <1>2
    <3>2. full \in todo /\ full \in Listener \ {l} /\ Len(inbox[full]) < StreamDepth
      BY <3>1 DEF QueueInv
    <3> QED
      BY <1>1, <1>4, <3>1, <3>2
  <2> QED
    BY <1>1, <2>1, <2>2, <2>3, <2>4, <2>5, <2>6 DEF QueueInv
<1> QED
  BY <1>5, <1>7

LEMMA SoundKeeps == ASSUME AudioInv, Capture PROVE AudioInv'
<1> USE StreamAssumption DEF AudioInv, QueueTypes
<1>1. /\ block' = block + 1 /\ block < MaxAudio /\ todo' = listeners /\ todo = {}
      /\ UNCHANGED <<listeners, inbox, heard, since, full, room>>
  BY DEF Capture
<1>2. full = NoOne /\ room = FALSE
  BY <1>1 DEF QueueInv
<1>3. \A l \in Listener : /\ Ordered(heard[l], inbox[l], block + 1)
                          /\ Behind(heard[l], inbox[l], block + 1)
  BY Captured DEF QueueInv
<1>4. QueueTypes'
  BY <1>1
<1>5. \A l \in Listener : since[l] <= block + 1
  BY DEF QueueInv
<1>6. QueueInv'
  BY <1>1, <1>2, <1>3, <1>5 DEF QueueInv
<1> QED
  BY <1>4, <1>6

LEMMA AudioInvariant == StreamSpec => []AudioInv
<1>1. AudioInv /\ [StreamNext]_streamVars => AudioInv'
  <2> SUFFICES ASSUME AudioInv, [StreamNext]_streamVars PROVE AudioInv'
    OBVIOUS
  <2>1. ASSUME NEW l \in Listener, WriteBlock(l) \/ Unsubscribe(l) \/ StopStream(l)
        PROVE  AudioInv'
    <3>1. UNCHANGED <<inbox, heard, since, block, todo, full, room>> /\ listeners' \subseteq listeners
      BY <2>1 DEF WriteBlock, Unsubscribe, StopStream, captureVars
    <3> QED
      BY <3>1 DEF AudioInv, QueueTypes, QueueInv
  <2>2. CASE CloseAll \/ CloseStops
    <3>1. UNCHANGED <<inbox, heard, since, block, todo, full, room>> /\ listeners' \subseteq listeners
      BY <2>2 DEF CloseAll, CloseStops, captureVars
    <3> QED
      BY <3>1 DEF AudioInv, QueueTypes, QueueInv
  <2>3. CASE UNCHANGED streamVars
    BY <2>3 DEF streamVars, AudioInv, QueueTypes, QueueInv
  <2> QED
    BY <2>1, <2>2, <2>3, CallbackKeeps, GetKeeps, SubscribeKeeps, SoundKeeps
       DEF StreamNext, Serving
<1> QED
  BY <1>1, AudioStart, PTL DEF StreamSpec

\* However many listeners there are, and wherever they interfere with the callback,
\* nobody gets blocks out of order or goes without the newest one.
THEOREM NewestSafe == Spec => []NewestKept
<1>1. AudioInv => NewestKept
  <2> SUFFICES ASSUME AudioInv, NEW l \in listeners
               PROVE  LET got == <<heard[l]>> \o inbox[l] IN
                      /\ \A i \in 1 .. Len(got) - 1 : got[i] < got[i + 1]
                      /\ l \notin todo /\ since[l] < block => got[Len(got)] = block
    BY DEF NewestKept
  <2> DEFINE got == <<heard[l]>> \o inbox[l]
  <2>1. /\ l \in Listener /\ heard[l] \in Nat /\ inbox[l] \in Seq(Nat) /\ block \in Nat
        /\ Len(inbox[l]) \in Nat
    BY DEF AudioInv, QueueTypes
  <2>2. Len(got) = Len(inbox[l]) + 1 /\ got[1] = heard[l]
    BY <2>1
  <2>3. \A i \in 1 .. Len(inbox[l]) : got[i + 1] = inbox[l][i]
    BY <2>1
  <2>4. Ordered(heard[l], inbox[l], block)
    BY <2>1 DEF AudioInv, QueueInv
  <2> HIDE DEF got
  <2>5. ASSUME NEW i \in 1 .. Len(got) - 1 PROVE got[i] < got[i + 1]
    <3>1. i \in 1 .. Len(inbox[l])
      BY <2>1, <2>2
    <3>2. CASE i = 1
      BY <2>2, <2>3, <2>4, <3>1, <3>2 DEF Ordered
    <3>3. CASE i # 1
      <4>1. i - 1 \in 1 .. Len(inbox[l]) /\ (i - 1) + 1 = i /\ i - 1 < i
        BY <2>1, <3>1, <3>3
      <4>2. got[i] = inbox[l][i - 1] /\ got[i + 1] = inbox[l][i]
        BY <2>3, <3>1, <4>1
      <4> QED
        BY <2>4, <3>1, <4>1, <4>2 DEF Ordered
    <3> QED
      BY <3>2, <3>3
  <2>6. l \notin todo /\ since[l] < block => got[Len(got)] = block
    <3>1. l \notin todo /\ since[l] < block => Newest(heard[l], inbox[l], block)
      BY DEF AudioInv, QueueInv
    <3>2. Len(inbox[l]) # 0 => got[Len(got)] = inbox[l][Len(inbox[l])]
      <4> SUFFICES ASSUME Len(inbox[l]) # 0 PROVE got[Len(got)] = inbox[l][Len(inbox[l])]
        OBVIOUS
      <4>1. Len(inbox[l]) \in 1 .. Len(inbox[l])
        BY <2>1
      <4> QED
        BY <2>2, <2>3, <4>1
    <3> QED
      BY <2>1, <2>2, <3>1, <3>2 DEF Newest
  <2> QED
    BY <2>5, <2>6 DEF got
<1> QED
  BY <1>1, Services, AudioInvariant, PTL

-----------------------------------------------------------------------------
\* The rest of the audio service's types: its stream, its lock and its threads.
ThreadTypes ==
    /\ stream \in {"none", "open", "stopping"}
    /\ closed \in BOOLEAN
    /\ inLock \in Listener \cup {NoOne, Closer}
    /\ server \in [Listener -> {"off", "get", "write", "leave", "stop"}]
    /\ listened \in 0 .. MaxListen
    /\ closing \in {"no", "stop", "done"}

LEMMA ThreadsKeep == ASSUME ThreadTypes, [StreamNext]_streamVars PROVE ThreadTypes'
<1> USE StreamAssumption DEF ThreadTypes, Serves
<1>1. ASSUME NEW l \in Listener, Subscribe(l) PROVE ThreadTypes'
  BY <1>1 DEF Subscribe
<1>2. ASSUME NEW l \in Listener, Serving(l) PROVE ThreadTypes'
  BY <1>2 DEF Serving, GetBlock, WriteBlock, Unsubscribe, StopStream, Stopped
<1>3. ASSUME NEW l \in Listener, Callback(l) PROVE ThreadTypes'
  BY <1>3 DEF Callback, Offer, FindFull, DropOldest, PutAgain, Put
<1>4. CASE CloseAll \/ CloseStops \/ Capture
  BY <1>4 DEF CloseAll, CloseStops, Capture, Stopped
<1>5. CASE UNCHANGED streamVars
  BY <1>5 DEF streamVars
<1> QED
  BY <1>1, <1>2, <1>3, <1>4, <1>5 DEF StreamNext

LEMMA Retyped ==
    ASSUME NEW q \in Seq(Nat), NEW S, \A i \in 1 .. Len(q) : q[i] \in S
    PROVE  q \in Seq(S)
  OBVIOUS

LEMMA StreamTypes == StreamSpec => []StreamTypeOK
<1>1. StreamInit => ThreadTypes
  <2>1. 0 \in 0 .. MaxListen
    BY StreamAssumption
  <2> QED
    BY <2>1 DEF StreamInit, ThreadTypes
<1>2. ASSUME AudioInv, ThreadTypes PROVE StreamTypeOK
  <2>1. \A l \in Listener : /\ inbox[l] \in Seq(1 .. MaxAudio)
                            /\ heard[l] \in 0 .. MaxAudio /\ since[l] \in 0 .. MaxAudio
    <3> SUFFICES ASSUME NEW l \in Listener
                 PROVE  /\ inbox[l] \in Seq(1 .. MaxAudio)
                        /\ heard[l] \in 0 .. MaxAudio /\ since[l] \in 0 .. MaxAudio
      OBVIOUS
    <3>1. /\ heard[l] \in Nat /\ since[l] \in Nat /\ inbox[l] \in Seq(Nat)
          /\ block \in Nat /\ block <= MaxAudio /\ MaxAudio \in Nat
          /\ Ordered(heard[l], inbox[l], block) /\ since[l] <= block
      BY <1>2, StreamAssumption DEF AudioInv, QueueTypes, QueueInv
    <3>2. \A i \in 1 .. Len(inbox[l]) : inbox[l][i] \in 1 .. MaxAudio
      BY <3>1 DEF Ordered
    <3>3. inbox[l] \in Seq(1 .. MaxAudio)
      BY <3>1, <3>2, Retyped
    <3>4. heard[l] <= block
      BY <3>1 DEF Ordered
    <3> QED
      BY ONLY <3>1, <3>3, <3>4
  <2>2. block \in 0 .. MaxAudio
    BY <1>2, StreamAssumption DEF AudioInv, QueueTypes
  <2>3. full \in Listener \cup {NoOne} /\ room \in BOOLEAN
    BY <1>2 DEF AudioInv, QueueTypes, QueueInv
  <2> QED
    BY <1>2, <2>1, <2>2, <2>3 DEF AudioInv, QueueTypes, ThreadTypes, StreamTypeOK
<1> QED
  BY <1>1, <1>2, AudioInvariant, ThreadsKeep, PTL DEF StreamSpec

\* Every variable of every service keeps its type, for any number of threads, jobs,
\* batches, requests and listeners, and any archive.
THEOREM TypeCorrect == Spec => []TypeOK
<1>1. /\ BatchInv => BatchTypeOK
      /\ AnnounceInv => AnnouncerTypeOK
      /\ ReceiverInv => ReceiverTypeOK
      /\ CommandInv => CommandTypeOK
      /\ LrptInv => JobTypeOK
  BY DEF BatchInv, AnnounceInv, ReceiverInv, CommandInv, LrptInv
<1>2. ASSUME RestoreInv PROVE RestoreTypeOK
  <2>1. folders \subseteq Folder
    <3>1. \A k \in 1 .. Len(created) : created[k] \in Folder
      BY <1>2 DEF RestoreInv, PathTypes
    <3> QED
      BY <1>2, <3>1 DEF RestoreInv, FolderInv, PathTypes, Members
  <2>2. /\ \A k \in DOMAIN written : written[k] \in Entry
        /\ \A k \in DOMAIN created : created[k] \in Folder
    BY <1>2 DEF RestoreInv, PathTypes
  <2> QED
    BY <1>2, <2>1, <2>2 DEF RestoreInv, PathTypes, Forward, RestoreTypeOK
<1>3. StreamTypeOK /\ BatchTypeOK /\ AnnouncerTypeOK /\ ReceiverTypeOK
         /\ CommandTypeOK /\ JobTypeOK /\ RestoreTypeOK => TypeOK
  BY DEF TypeOK
<1> QED
  BY <1>1, <1>2, <1>3, Services, BatchInvariant, AnnouncerInvariant, ReceiverInvariant,
     CommandInvariant, JobInvariant, RestoreInvariant, StreamTypes, PTL

-----------------------------------------------------------------------------
\* What plan entry i says to be around its k-th folder is there from before, or was
\* made before it.
Surrounded(i, k, made) ==
    \/ Plan[i].folders[k - 1] \in before.folders
    \/ \E l \in 1 .. Len(created) : l < made /\ created[l] = Plan[i].folders[k - 1]

NestInv ==
    /\ Consistent(before)
    /\ \A j \in 1 .. Len(created), i \in DOMAIN Plan : \A k \in 2 .. Len(Plan[i].folders) :
           Plan[i].folders[k] = created[j] => Surrounded(i, k, j)

\* The rollback comes to each folder it made when nothing is left in it.
InnerFirst == restore = "remove" /\ created # <<>> => Empty(created[Len(created)])

LEMMA PlanTypes ==
    ASSUME NEW i \in DOMAIN Plan
    PROVE  /\ Plan[i].folders \in Seq(STRING) /\ Len(Plan[i].folders) \in Nat
           /\ DOMAIN Plan[i].folders = 1 .. Len(Plan[i].folders)
<1> DEFINE E == [folders : Seq(STRING), file : BOOLEAN]
<1>1. Plan \in Seq(E)
  BY RestoreAssumption
<1> HIDE DEF E
<1>2. Plan[i] \in E
  BY <1>1
<1> QED
  BY <1>2 DEF E

LEMMA NestStart == ASSUME RestoreInit PROVE NestInv
<1>1. created = <<>> /\ Consistent(before)
  BY DEF RestoreInit
<1> QED
  BY <1>1 DEF NestInv

LEMMA MakeNests ==
    ASSUME RestoreInv, NestInv, MakeFolder PROVE NestInv'
<1>1. PICK k \in Missing :
          /\ \A other \in Missing : k <= other
          /\ created' = Append(created, Plan[item].folders[k])
          /\ before' = before
  BY DEF MakeFolder
<1> DEFINE f == Plan[item].folders[k]
           n == Len(created)
<1>2. /\ item \in DOMAIN Plan /\ k \in 1 .. Len(Plan[item].folders) /\ f \in Folder
      /\ Len(Plan[item].folders) \in Nat
      /\ created \in Seq(Folder) /\ n \in Nat
      /\ folders = before.folders \cup {created[j] : j \in 1 .. n}
  <2>1. item \in DOMAIN Plan
    BY DEF MakeFolder, RestoreInv, ItemInv, Forward
  <2>2. DOMAIN Plan[item].folders = 1 .. Len(Plan[item].folders)
        /\ Len(Plan[item].folders) \in Nat
    BY <2>1, PlanTypes
  <2>3. k \in DOMAIN Plan[item].folders
    BY DEF Missing
  <2>4. f \in Folder
    BY <2>1, <2>3, Places
  <2> QED
    BY <2>1, <2>2, <2>3, <2>4 DEF RestoreInv, PathTypes, FolderInv, Members
<1>3. /\ Len(created') = n + 1 /\ created'[n + 1] = f
      /\ \A j \in 1 .. n : created'[j] = created[j]
  BY <1>1, <1>2
<1>4. k > 1 => Plan[item].folders[k - 1] \in folders
  <2> SUFFICES ASSUME k > 1 PROVE Plan[item].folders[k - 1] \in folders
    OBVIOUS
  <2>1. k - 1 \in 1 .. Len(Plan[item].folders) /\ ~(k <= k - 1)
    BY <1>2
  <2>2. k - 1 \in DOMAIN Plan[item].folders
    BY <1>2, <2>1, PlanTypes
  <2>3. k - 1 \notin Missing
    BY <1>1, <2>1
  <2> QED
    BY <2>2, <2>3 DEF Missing
<1> HIDE DEF f, n
<1>5. ASSUME NEW j \in 1 .. n + 1, NEW i \in DOMAIN Plan,
             NEW m \in 2 .. Len(Plan[i].folders), Plan[i].folders[m] = created'[j]
      PROVE  Surrounded(i, m, j)'
  <2>1. CASE j \in 1 .. n
    <3>1. Surrounded(i, m, j)
      BY <1>3, <1>5, <2>1 DEF NestInv, n
    <3>2. \A l \in 1 .. n : l \in 1 .. Len(created') /\ created'[l] = created[l]
      BY <1>2, <1>3
    <3> QED
      BY <1>1, <3>1, <3>2 DEF Surrounded, n
  <2>2. CASE j = n + 1
    <3>1. m \in Nat /\ m > 1 /\ m - 1 \in 1 .. m /\ Len(Plan[i].folders) \in Nat
          /\ m \in 1 .. Len(Plan[i].folders)
      BY <1>5, PlanTypes
    <3>2. Plan[i].folders[m] = Plan[item].folders[k]
      BY <1>3, <1>5, <2>2 DEF f
    <3>3. m = k /\ \A x \in 1 .. m : Plan[i].folders[x] = Plan[item].folders[x]
      <4>1. m \in DOMAIN Plan[i].folders /\ k \in DOMAIN Plan[item].folders
        BY <1>2, <3>1, PlanTypes
      <4> QED
        BY <1>2, <3>2, <4>1, PathAssumption
    <3>4. Plan[i].folders[m - 1] \in folders
      BY <1>4, <3>1, <3>3
    <3>5. \A l \in 1 .. n : /\ l \in 1 .. Len(created') /\ l < n + 1
                            /\ created'[l] = created[l]
      BY <1>2, <1>3
    <3> QED
      BY <1>1, <1>2, <2>2, <3>4, <3>5 DEF Surrounded, n
  <2> QED
    BY <1>2, <1>5, <2>1, <2>2
<1>6. Consistent(before)'
  BY <1>1 DEF NestInv, Consistent
<1> QED
  BY <1>3, <1>5, <1>6 DEF NestInv, n

LEMMA RemoveNests ==
    ASSUME RestoreInv, NestInv, RemoveFolder PROVE NestInv'
<1>1. before' = before /\ created # <<>> /\ created \in Seq(Folder)
  BY DEF RemoveFolder, RestoreInv, PathTypes
<1>2. CASE created' = created
  BY <1>1, <1>2 DEF NestInv, Consistent, Surrounded
<1>3. CASE created' = SubSeq(created, 1, Len(created) - 1)
  <2>1. /\ Len(created) \in Nat \ {0} /\ Len(created') = Len(created) - 1
        /\ \A j \in 1 .. Len(created') : created'[j] = created[j]
    <3> DEFINE m == Len(created) - 1
    <3>1. m \in Nat /\ m <= Len(created) /\ Len(created) \in Nat \ {0}
          /\ created' = SubSeq(created, 1, m)
      BY <1>1, <1>3
    <3> HIDE DEF m
    <3>2. Len(created') = m /\ \A j \in 1 .. m : created'[j] = created[j]
      BY <1>1, <3>1
    <3> QED
      BY <3>1, <3>2 DEF m
  <2>2. ASSUME NEW j \in 1 .. Len(created'), NEW i \in DOMAIN Plan,
               NEW k \in 2 .. Len(Plan[i].folders), Plan[i].folders[k] = created'[j]
        PROVE  Surrounded(i, k, j)'
    <3>1. j \in 1 .. Len(created) /\ Plan[i].folders[k] = created[j]
      BY <2>1, <2>2
    <3>2. Surrounded(i, k, j)
      BY <3>1 DEF NestInv
    <3>3. \A l \in 1 .. Len(created) : l < j => l \in 1 .. Len(created') /\ created'[l] = created[l]
      BY <2>1, <3>1
    <3> QED
      BY <1>1, <3>2, <3>3 DEF Surrounded
  <2>3. Consistent(before)'
    BY <1>1 DEF NestInv, Consistent
  <2> QED
    BY <2>2, <2>3 DEF NestInv
<1> QED
  BY <1>2, <1>3 DEF RemoveFolder

LEMMA NestStep == ASSUME RestoreInv, NestInv, [RestoreNext]_restoreVars PROVE NestInv'
<1>1. ASSUME UNCHANGED <<before, created>> PROVE NestInv'
  BY <1>1 DEF NestInv, Consistent, Surrounded
<1>2. \/ MakeFolder \/ RemoveFolder \/ UNCHANGED <<before, created>>
  BY DEF RestoreNext, restoreVars, FoldersMade, Save, Note, Truncate, Copied, Raise, UndoFile,
         FilesUndone, RolledBack, Die, NextEntry
<1> QED
  BY <1>1, <1>2, MakeNests, RemoveNests

\* However far a restore had come, its rollback finds every folder it made empty
\* again when it comes to remove it, so that rmdir has no reason to fail (restore).
THEOREM RollbackSafe == Spec => []InnerFirst
<1>1. ASSUME RestoreInv, NestInv, restore = "remove", created # <<>>
      PROVE  Empty(created[Len(created)])
  <2> DEFINE n == Len(created)
             f == created[n]
  <2>1. /\ created \in Seq(Folder) /\ n \in Nat /\ n \in 1 .. Len(created)
        /\ Distinct(created) /\ f \in Folder /\ f \notin before.folders
        /\ folders = before.folders \cup {created[j] : j \in 1 .. Len(created)}
    <3>1. created \in Seq(Folder) /\ n \in Nat /\ n \in 1 .. Len(created)
      BY <1>1 DEF RestoreInv, PathTypes
    <3>2. f \in Members(created)
      BY <3>1 DEF Members
    <3> QED
      BY <1>1, <3>1, <3>2 DEF RestoreInv, FolderInv, Members
  <2> HIDE DEF n, f
  <2>2. ASSUME NEW i \in Entry, Inside(f, i) PROVE files[i] = "none"
    <3>1. written = <<>>
      BY <1>1 DEF RestoreInv, FileInv
    <3>2. files[i] = before.files[i]
      BY <1>1, <3>1 DEF RestoreInv, FileInv, Members
    <3>3. before.files[i] \in {"none", "old"}
      BY <1>1 DEF RestoreInv, PathTypes
    <3>4. before.files[i] # "old"
      BY <1>1, <2>1, <2>2 DEF NestInv, Consistent
    <3> QED
      BY <3>2, <3>3, <3>4
  <2>3. ASSUME NEW i \in DOMAIN Plan, NEW k \in 2 .. Len(Plan[i].folders),
               Plan[i].folders[k - 1] = f, Plan[i].folders[k] \in folders
        PROVE  FALSE
    <3>1. Plan[i].folders[k] \notin before.folders
      BY <1>1, <2>1, <2>3 DEF NestInv, Consistent
    <3>2. PICK j \in 1 .. Len(created) : created[j] = Plan[i].folders[k]
      BY <2>1, <2>3, <3>1
    <3>3. Surrounded(i, k, j)
      BY <1>1, <3>2 DEF NestInv
    <3>4. PICK l \in 1 .. Len(created) : l < j /\ created[l] = f
      BY <2>1, <2>3, <3>3 DEF Surrounded
    <3>5. l = n
      BY <2>1, <3>4 DEF Distinct, f
    <3> QED
      BY <2>1, <3>2, <3>4, <3>5 DEF n
  <2> QED
    BY <2>2, <2>3 DEF Empty, n, f
<1>2. RestoreInv /\ NestInv => InnerFirst
  BY <1>1 DEF InnerFirst
<1> QED
  BY <1>2, NestStart, NestStep, RestoreInvariant, Services, PTL DEF RestoreSpec
=============================================================================
