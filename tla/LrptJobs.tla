------------------------------ MODULE LrptJobs ------------------------------
(***************************************************************************)
(* The recordings of weather satellites: a capture thread of the LRPT      *)
(* server writes the signal and a job file, a worker process decodes it, a *)
(* replay makes a job of an older signal, and the web console deletes      *)
(* passes; they meet in the job files only.                                *)
(* src/plugins/bqe_lrpt_decoder/service.py (Session), engine.py            *)
(* (decode_job, launch_job), src/plugins/weather_gallery.py                *)
(* (delete_pass_images).                                                   *)
(***************************************************************************)
EXTENDS Naturals

CONSTANT Job  \* jobs

VARIABLES
    jobFile,     \* the state in job.json; "none" without a folder, "folder" without it
    iq,          \* the job's folder holds a signal
    source,      \* the job whose signal a replay decodes, or NoJob
    capturing,   \* the capture thread: [job, step]
    replaying,   \* the replay under way: the job whose worker is to be launched
    jobWorker,   \* what the worker process of each job does
    lost,        \* history: a process died, or a write or a launch failed, at this job
    deletion,    \* where the deletion is: at a job whose file it rewrites, or elsewhere
    doomed,      \* passes it has to delete
    found        \* what it read of each: [job, iq]

lrptVars == <<jobFile, iq, source, capturing, replaying, jobWorker, lost, deletion,
              doomed, found>>

NoJob == "no job"
ASSUME JobAssumption == {NoJob, "idle", "unlink"} \cap Job = {}

Final == {"completed", "no_images", "error"}
JobState == {"none", "folder", "capturing", "queued", "decoding"} \cup Final
NoCapture == [job |-> NoJob, step |-> "idle"]

JobTypeOK ==
    /\ jobFile \in [Job -> JobState]
    /\ iq \in [Job -> BOOLEAN]
    /\ source \in [Job -> Job \cup {NoJob}]
    /\ capturing \in [job : Job \cup {NoJob},
                      step : {"idle", "first", "capture", "queue", "launch", "fail"}]
    /\ replaying \in Job \cup {NoJob}
    /\ jobWorker \in [Job -> {"none", "read", "begin", "decode", "finish", "gone"}]
    /\ lost \subseteq Job
    /\ deletion \in {"idle", "unlink"} \cup Job
    /\ doomed \subseteq Job
    /\ found \in [Job -> [job : JobState, iq : BOOLEAN]]

JobInit ==
    /\ jobFile = [j \in Job |-> "none"]
    /\ iq = [j \in Job |-> FALSE]
    /\ source = [j \in Job |-> NoJob]
    /\ capturing = NoCapture
    /\ replaying = NoJob
    /\ jobWorker = [j \in Job |-> "none"]
    /\ lost = {}
    /\ deletion = "idle"
    /\ doomed = {}
    /\ found = [j \in Job |-> [job |-> "none", iq |-> FALSE]]

deleteVars == <<deletion, doomed, found>>
WriteJob(j, state) == jobFile' = [jobFile EXCEPT ![j] = state]
Launched(j) == jobWorker' = [jobWorker EXCEPT ![j] = "read"]
CaptureTo(step) == capturing' = [capturing EXCEPT !.step = step]
-----------------------------------------------------------------------------
\* start, and new_job.  One capture at a time.
StartCapture(j) ==
    /\ capturing = NoCapture
    /\ jobFile[j] = "none"
    /\ WriteJob(j, "folder")
    /\ capturing' = [job |-> j, step |-> "first"]
    /\ UNCHANGED <<iq, source, replaying, jobWorker, lost, deleteVars>>

\* Room on the disk, and the first job file; the file of the signal; the signal until
\* the stop, the end or an error; the job file again.
CaptureStep ==
    LET j == capturing.job IN
    /\ \/ capturing.step = "first" /\ WriteJob(j, "capturing") /\ CaptureTo("capture")
          /\ UNCHANGED iq
       \/ /\ capturing.step = "capture"
          /\ iq' = [iq EXCEPT ![j] = TRUE]
          /\ IF iq[j] THEN CaptureTo("queue") ELSE UNCHANGED capturing
          /\ UNCHANGED jobFile
       \/ capturing.step = "queue" /\ WriteJob(j, "queued") /\ CaptureTo("launch")
          /\ UNCHANGED iq
       \/ capturing.step \in {"first", "capture", "queue", "launch"} /\ CaptureTo("fail")
          /\ UNCHANGED <<iq, jobFile>>
    /\ UNCHANGED <<source, replaying, jobWorker, lost, deleteVars>>

CaptureLaunches ==
    /\ capturing.step = "launch"
    /\ Launched(capturing.job)
    /\ capturing' = NoCapture
    /\ UNCHANGED <<jobFile, iq, source, replaying, lost, deleteVars>>

\* Mutant: the error is shown by the server only.
CaptureFailsQuietly ==
    /\ capturing.step = "fail"
    /\ capturing' = NoCapture
    /\ UNCHANGED <<jobFile, iq, source, replaying, jobWorker, lost, deleteVars>>

\* The handler; its own write may fail.
CaptureFails ==
    /\ capturing.step = "fail"
    /\ capturing' = NoCapture
    /\ \/ WriteJob(capturing.job, "error") /\ UNCHANGED lost
       \/ lost' = lost \cup {capturing.job} /\ UNCHANGED jobFile
    /\ UNCHANGED <<iq, source, replaying, jobWorker, deleteVars>>

\* The signal may be one of another job.  A job file that cannot be written leaves a
\* folder without it.
Replay(j, from) ==
    /\ replaying = NoJob
    /\ jobFile[j] = "none"
    /\ from # NoJob => iq[from]
    /\ source' = [source EXCEPT ![j] = from]
    /\ \/ WriteJob(j, "queued") /\ replaying' = j /\ UNCHANGED lost
       \/ WriteJob(j, "folder") /\ lost' = lost \cup {j} /\ UNCHANGED replaying
    /\ UNCHANGED <<iq, capturing, jobWorker, deleteVars>>

\* A worker that cannot be launched is not noted in the job file.
ReplayLaunches ==
    /\ replaying # NoJob
    /\ replaying' = NoJob
    /\ \/ Launched(replaying) /\ UNCHANGED lost
       \/ lost' = lost \cup {replaying} /\ UNCHANGED jobWorker
    /\ UNCHANGED <<jobFile, iq, source, capturing, deleteVars>>

ServerDies ==
    /\ capturing # NoCapture \/ replaying # NoJob
    /\ capturing' = NoCapture
    /\ replaying' = NoJob
    /\ lost' = lost \cup ({capturing.job, replaying} \ {NoJob})
    /\ UNCHANGED <<jobFile, iq, source, jobWorker, deleteVars>>
-----------------------------------------------------------------------------
Decoder(j, from, to) ==
    /\ jobWorker[j] = from
    /\ jobWorker' = [jobWorker EXCEPT ![j] = to]

\* Another state than queued ends it with an exception.
ReadJob(j) ==
    /\ Decoder(j, "read", IF jobFile[j] = "queued" THEN "begin" ELSE "gone")
    /\ UNCHANGED <<jobFile, iq, source, capturing, replaying, lost, deleteVars>>

\* Any failure is an error of the job, but for one of the last write.
Decode(j) ==
    /\ \/ Decoder(j, "begin", "decode") /\ WriteJob(j, "decoding")
       \/ Decoder(j, "begin", "finish") /\ UNCHANGED jobFile
       \/ Decoder(j, "decode", "finish") /\ UNCHANGED jobFile
    /\ UNCHANGED <<iq, source, capturing, replaying, lost, deleteVars>>

Finish(j) ==
    /\ Decoder(j, "finish", "gone")
    /\ \/ \E state \in Final : WriteJob(j, state) /\ UNCHANGED lost
       \/ lost' = lost \cup {j} /\ UNCHANGED jobFile
    /\ UNCHANGED <<iq, source, capturing, replaying, deleteVars>>

WorkerDies(j) ==
    /\ \E from \in {"read", "begin", "decode", "finish"} : Decoder(j, from, "gone")
    /\ lost' = lost \cup {j}
    /\ UNCHANGED <<jobFile, iq, source, capturing, replaying, deleteVars>>
-----------------------------------------------------------------------------
Look(passes) ==
    /\ deletion = "idle"
    /\ passes # {}
    /\ deletion' = "unlink"
    /\ doomed' = passes
    /\ found' = [j \in Job |-> [job |-> jobFile[j], iq |-> iq[j]]]
    /\ UNCHANGED <<jobFile, iq, source, capturing, replaying, jobWorker, lost>>

\* Mutant: a job that is queued does not count as unfinished.
SelectQueued(passes) ==
    /\ \A j \in passes : jobFile[j] \notin {"none", "capturing", "decoding"}
    /\ Look(passes)

\* Every pass is looked at before anything is deleted; one without a job file may go.
Select(passes) ==
    /\ \A j \in passes : jobFile[j] \notin {"none", "capturing", "queued", "decoding"}
    /\ Look(passes)

\* The files that were found, which may fail ...
Unlink(j) ==
    /\ deletion = "unlink"
    /\ j \in doomed
    /\ deletion' = j
    /\ \/ iq' = [iq EXCEPT ![j] = @ /\ ~found[j].iq]
       \/ UNCHANGED iq
    /\ UNCHANGED <<jobFile, source, capturing, replaying, jobWorker, lost, doomed, found>>

\* ... then the job file, as it was read.
Rewrite(j) ==
    /\ deletion = j
    /\ deletion' = "unlink"
    /\ doomed' = doomed \ {j}
    /\ \/ found[j].job # "folder" /\ WriteJob(j, found[j].job)
       \/ UNCHANGED jobFile
    /\ UNCHANGED <<iq, source, capturing, replaying, jobWorker, lost, found>>

Deleted ==
    /\ deletion = "unlink"
    /\ doomed = {}
    /\ deletion' = "idle"
    /\ UNCHANGED <<jobFile, iq, source, capturing, replaying, jobWorker, lost, doomed, found>>

JobNext ==
    \/ \E j \in Job :
         \/ StartCapture(j) \/ ReadJob(j) \/ Decode(j) \/ Finish(j) \/ WorkerDies(j)
         \/ Unlink(j) \/ Rewrite(j)
         \/ \E from \in Job \cup {NoJob} : Replay(j, from)
    \/ CaptureStep \/ CaptureLaunches \/ CaptureFails
    \/ ReplayLaunches
    \/ ServerDies
    \/ \E passes \in SUBSET Job : Select(passes)
    \/ Deleted

JobSpec == JobInit /\ [][JobNext]_lrptVars
-----------------------------------------------------------------------------
AtWork(j) == capturing.job = j \/ replaying = j \/ jobWorker[j] \notin {"none", "gone"}

\* A deletion takes the signal of no pass that is being captured or decoded, and the
\* job file it writes back never undoes what a decoder wrote since it was read
\* (delete_pass_images, whose lock no other process takes).
DeletesFinished ==
    [][\A j \in Job :
         /\ iq[j] /\ ~iq'[j] => ~AtWork(j)
         /\ jobFile[j] \in Final => jobFile'[j] = jobFile[j]]_lrptVars

\* A job that is not finished has somebody at work on it, unless a process died or a
\* write or launch failed at it: nothing else leaves a pass that can be neither seen
\* nor deleted (_capture, replay, decode_job).
NoOrphan ==
    \A j \in Job : jobFile[j] \in JobState \ (Final \cup {"none"}) => AtWork(j) \/ j \in lost
=============================================================================
