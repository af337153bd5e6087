--------------------------- MODULE ConsoleServices ---------------------------
(***************************************************************************)
(* The services around the scheduler and the tracker that share nothing    *)
(* with each other but the station they run at: batches of recordings,     *)
(* spoken announcements, audio for browsers, the receivers' processes, the *)
(* restore of a backup, web commands, and recordings of weather            *)
(* satellites.  A behaviour is one of one of them: its scene.              *)
(***************************************************************************)
EXTENDS RecordingBatch, PassAnnouncer, AudioStream, ManagedReceiver, SettingsRestore,
        WebCommand, LrptJobs

VARIABLE scene

vars == <<batchVars, announceVars, streamVars, receiverVars, restoreVars, commandVars,
          lrptVars, scene>>

Init ==
    /\ scene \in {"batch", "announcer", "stream", "receiver", "restore", "command", "jobs"}
    /\ BatchInit
    /\ AnnouncerInit
    /\ StreamInit
    /\ ReceiverInit
    /\ RestoreInit
    /\ scene # "restore" => /\ before.folders = {}
                            /\ \A i \in DOMAIN before.files : before.files[i] = "none"
    /\ CommandInit
    /\ JobInit

OnlyBatch(A) ==
    /\ scene = "batch"
    /\ A
    /\ UNCHANGED <<announceVars, streamVars, receiverVars, restoreVars, commandVars,
                   lrptVars, scene>>

OnlyAnnouncer(A) ==
    /\ scene = "announcer"
    /\ A
    /\ UNCHANGED <<batchVars, streamVars, receiverVars, restoreVars, commandVars,
                   lrptVars, scene>>

OnlyStream(A) ==
    /\ scene = "stream"
    /\ A
    /\ UNCHANGED <<batchVars, announceVars, receiverVars, restoreVars, commandVars,
                   lrptVars, scene>>

OnlyReceiver(A) ==
    /\ scene = "receiver"
    /\ A
    /\ UNCHANGED <<batchVars, announceVars, streamVars, restoreVars, commandVars,
                   lrptVars, scene>>

OnlyRestore(A) ==
    /\ scene = "restore"
    /\ A
    /\ UNCHANGED <<batchVars, announceVars, streamVars, receiverVars, commandVars,
                   lrptVars, scene>>

OnlyCommand(A) ==
    /\ scene = "command"
    /\ A
    /\ UNCHANGED <<batchVars, announceVars, streamVars, receiverVars, restoreVars,
                   lrptVars, scene>>

OnlyJobs(A) ==
    /\ scene = "jobs"
    /\ A
    /\ UNCHANGED <<batchVars, announceVars, streamVars, receiverVars, restoreVars,
                   commandVars, scene>>

Next ==
    \/ OnlyBatch(BatchNext)
    \/ OnlyAnnouncer(AnnouncerNext)
    \/ OnlyStream(StreamNext)
    \/ OnlyReceiver(ReceiverNext)
    \/ OnlyRestore(RestoreNext)
    \/ OnlyCommand(CommandNext)
    \/ OnlyJobs(JobNext)

Spec == Init /\ [][Next]_vars

\* The threads of the audio service and of a receiver's owner go on, as their waits
\* have limits; so does the audio library's callback, which has none.
FairSpec ==
    /\ Spec
    /\ \A l \in Listener : WF_vars(OnlyStream(Serving(l))) /\ WF_vars(OnlyStream(Callback(l)))
    /\ WF_vars(OnlyStream(CloseStops))
    /\ \A u \in User : WF_vars(OnlyReceiver(Managing(u)))
-----------------------------------------------------------------------------
TypeOK ==
    /\ BatchTypeOK /\ AnnouncerTypeOK /\ StreamTypeOK /\ ReceiverTypeOK /\ RestoreTypeOK
    /\ CommandTypeOK /\ JobTypeOK
=============================================================================
