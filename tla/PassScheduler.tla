--------------------------- MODULE PassScheduler ---------------------------
(***************************************************************************)
(* The scheduler process of bqe_wisp.py: the main loop that waits for the  *)
(* next pass and tracks it, and the web-console threads that program       *)
(* presets, record audio, insert test passes, end the current pass and     *)
(* shut the program down.  They share the radio, the sound card, the idle  *)
(* helper program and APP_STATE, under three re-entrant locks.             *)
(*                                                                         *)
(* STATE_LOCK is never held across a blocking call, so each block under it *)
(* is one step.  PRESET_LIFECYCLE_LOCK and AUDIO_RECORDING_LOCK are held   *)
(* across seconds of work and are variables here.  A process that is asked *)
(* to stop is gone when the stop call returns (it ends in SIGKILL).        *)
(***************************************************************************)
EXTENDS Naturals, FiniteSets

CONSTANTS
  Main,         \* the scheduler thread
  Web,          \* the request threads of the web console
  NoOne,        \* "no thread": the owner of a free lock
  Helper,       \* identities of idle helper processes
  NoHelper,     \* None in CURRENT_IDLE_PROCESS, or no pid file
  NoPass,       \* None in current_pass_key
  InitPasses,   \* the passes in schedule.json at start-up
  TestIds,      \* the test passes the operator may insert
  Lead,         \* a test pass begins Lead ticks from now ...
  TestLength,   \* ... and lasts TestLength ticks
  Horizon,      \* the last instant modelled
  Searches,     \* bound: when passes may be searched for anew, and how much later
                \* they are then found to be, [at, later]
  MainMayFail   \* may an exception escape from the main loop?

Time == 0..Horizon
PassIds == {p.id : p \in InitPasses} \cup TestIds
Pass == [id : PassIds, start : Time, end : Time]
Threads == Web \cup {Main}

ASSUME ThreadsAssumption ==
  /\ Main \notin Web
  /\ NoOne \notin Threads
ASSUME HelperAssumption == NoHelper \notin Helper
ASSUME PassAssumption ==
  /\ Horizon \in Nat
  /\ Lead \in Nat
  /\ TestLength \in Nat
  /\ InitPasses \subseteq {p \in Pass : p.start <= p.end}
  /\ \A p, q \in InitPasses : p.id = q.id => p = q
  /\ NoPass \notin Pass
  /\ Searches \subseteq [at : Nat, later : Nat]
  /\ MainMayFail \in BOOLEAN

VARIABLES
  now,          \* utc_now()
  passes,       \* schedule.json and APP_STATE["passes"]
  completed,    \* APP_STATE["completed"]
  current,      \* APP_STATE["current_pass_key"]
  tracking,     \* APP_STATE["tracking_running"]
  idleActive,   \* APP_STATE["idle_task_active"]
  presetBusy,   \* APP_STATE["preset_command_running"]
  idleFile,     \* idle_task_status.yaml exists
  shutdown,     \* SHUTDOWN_EVENT
  passEnd,      \* CURRENT_PASS_END_EVENT
  presetLock,   \* owner of PRESET_LIFECYCLE_LOCK
  audioLock,    \* owner of AUDIO_RECORDING_LOCK
  recorder,     \* the menu recording's capture thread is alive
  receivers,    \* an SDR or decoder of the idle preset is running
  helpers,      \* idle helper processes that are alive
  curIdle,      \* CURRENT_IDLE_PROCESS
  pidIdle,      \* the process named by the idle pid file
  tracker,      \* the tracking process is alive
  curTracker,   \* CURRENT_TRACKING_PROCESS is not None
  pc,           \* what each thread does next
  entry,        \* the main thread's pass entry
  idleFor,      \* the main thread's idle_for_key
  arg,          \* the helper a cleanup read from CURRENT_IDLE_PROCESS
  endKey,       \* the key an End Current Pass request read
  taken      \* history: the passes taken up from this schedule

appVars == <<completed, current, tracking, idleActive, presetBusy, idleFile>>
lockVars == <<presetLock, audioLock>>
idleVars == <<receivers, helpers, curIdle, pidIdle>>
passVars == <<tracker, curTracker, entry, taken>>
vars == <<now, passes, appVars, shutdown, passEnd, lockVars, recorder,
          idleVars, passVars, pc, idleFor, arg, endKey>>

\* The idle preset is being applied: these labels hold PRESET_LIFECYCLE_LOCK.
Applying == {"stop", "program", "start", "delay", "spawn", "status", "fail"}
Entering == {"recorderOff", "handover"}
Cleanup == {"cAudio", "cTracker", "cTrackWait", "cTrackNone", "cIdle",
            "cStopIdle", "cIdleNone", "cPidFiles", "cStatus"}
MainOnly == {"loop", "idleFirst", "sleep", "passFirst", "enter", "claim",
             "clear", "expose", "launch", "wait", "ending", "stopWait", "complete",
             "quit", "reset", "linger", "exited"} \cup Entering
WebOnly == {"ready", "record", "shorten", "newKey", "endEvent", "fail"}
Label == Applying \cup Cleanup \cup MainOnly \cup WebOnly \cup {"want"}

-----------------------------------------------------------------------------
\* The scheduler process has not exited; after that no thread takes a step.
Alive == pc[Main] # "exited"

Goto(t, from, to) ==
  /\ Alive
  /\ pc[t] = from
  /\ pc' = [pc EXCEPT ![t] = to]

\* Mutant: the schedule is trusted to name the pass that is tracked.
PassActiveByPlan == \E p \in passes : p.start <= now /\ now <= p.end

\* satellite_pass_is_active: the tracker runs, or the schedule says so.
PassActive ==
  \/ tracking
  \/ \E p \in passes : p.start <= now /\ now <= p.end

\* stop_idle_wait_program(p): every receiver, then the helper p.
StopIdle(p) ==
  /\ receivers' = FALSE
  /\ helpers' = helpers \ {p}
  /\ pidIdle' = IF p = NoHelper THEN pidIdle ELSE NoHelper
  /\ curIdle' = IF curIdle = p THEN NoHelper ELSE curIdle

Init ==
  /\ now = 0
  /\ passes = InitPasses
  /\ completed = {}
  /\ current = NoPass
  /\ tracking = FALSE /\ idleActive = FALSE /\ presetBusy = FALSE
  /\ idleFile = FALSE
  /\ shutdown = FALSE /\ passEnd = FALSE
  /\ presetLock = NoOne /\ audioLock = NoOne
  /\ recorder = FALSE /\ receivers = FALSE
  /\ helpers = {} /\ curIdle = NoHelper /\ pidIdle = NoHelper
  /\ tracker = FALSE /\ curTracker = FALSE
  /\ pc = [t \in Threads |-> IF t = Main THEN "loop" ELSE "ready"]
  /\ entry = NoPass /\ idleFor = NoPass
  /\ arg = [t \in Threads |-> NoHelper]
  /\ endKey = [w \in Web |-> NoPass]
  /\ taken = {}

-----------------------------------------------------------------------------
\* The main loop of _main_owned: re-read the schedule, mark what has expired,
\* and act on the first pass that is still pending.

Expired == {p \in passes : p.end <= now}
Pending == {p \in passes : p.end > now} \ completed
Heads == {p \in Pending : \A q \in Pending : p.start <= q.start}

\* Nothing is pending, or the idle task for the head is already running.
KeepWaiting ==
  /\ pc[Main] = "loop" /\ ~shutdown
  /\ \/ Pending = {}
     \/ \E p \in Heads : p.start > now /\ idleFor = p
  /\ completed' = completed \cup Expired
  /\ UNCHANGED <<now, passes, current, tracking, idleActive, presetBusy,
                 idleFile, shutdown, passEnd, lockVars, recorder, idleVars,
                 passVars, pc, idleFor, arg, endKey>>

\* A pass is now the head of the schedule but has not begun: start idling.
NewHead ==
  /\ Goto(Main, "loop", "idleFirst") /\ ~shutdown
  /\ \E p \in Heads : p.start > now /\ idleFor # p /\ entry' = p
  /\ completed' = completed \cup Expired
  /\ UNCHANGED <<now, passes, current, tracking, idleActive, presetBusy,
                 idleFile, shutdown, passEnd, lockVars, recorder, idleVars,
                 tracker, curTracker, taken, idleFor, arg, endKey>>

\* The head has begun.
PassDue ==
  /\ Goto(Main, "loop", "passFirst") /\ ~shutdown
  /\ \E p \in Heads : p.start <= now /\ entry' = p
  /\ completed' = completed \cup Expired
  /\ taken' = taken \cup {entry'.id}
  /\ UNCHANGED <<now, passes, current, tracking, idleActive, presetBusy,
                 idleFile, shutdown, passEnd, lockVars, recorder, idleVars,
                 tracker, curTracker, idleFor, arg, endKey>>

LeaveLoop ==
  /\ Goto(Main, "loop", "quit") /\ shutdown
  /\ UNCHANGED <<now, passes, appVars, shutdown, passEnd, lockVars, recorder,
                 idleVars, passVars, idleFor, arg, endKey>>

\* stop_idle_wait_program, then do_while_waiting: without an idle preset
\* there is nothing more to do, otherwise it pauses for five seconds.
StopOldIdle ==
  /\ presetLock = NoOne
  /\ StopIdle(curIdle)
  /\ \/ Goto(Main, "idleFirst", "sleep") /\ UNCHANGED idleFor
     \/ Goto(Main, "idleFirst", "loop") /\ idleFor' = entry
  /\ UNCHANGED <<now, passes, appVars, shutdown, passEnd, lockVars, recorder,
                 passVars, arg, endKey>>

IdlePause ==
  /\ \/ Goto(Main, "sleep", "loop") /\ shutdown /\ idleFor' = entry
     \/ Goto(Main, "sleep", "want") /\ UNCHANGED idleFor
  /\ UNCHANGED <<now, passes, appVars, shutdown, passEnd, lockVars, recorder,
                 idleVars, passVars, arg, endKey>>

-----------------------------------------------------------------------------
\* Applying a preset: do_while_waiting in the main thread and
\* program_preset_from_web in a web thread.

\* program_preset_from_web: the checks and the busy flag, under STATE_LOCK.
PresetRequest(w) ==
  /\ Goto(w, "ready", "want")
  /\ ~PassActive /\ ~presetBusy
  /\ presetBusy' = TRUE
  /\ UNCHANGED <<now, passes, completed, current, tracking, idleActive,
                 idleFile, shutdown, passEnd, lockVars, recorder, idleVars,
                 passVars, idleFor, arg, endKey>>

\* Take the lifecycle lock and check again.  The main thread gives up and
\* remembers the head as served; a web thread raises and cleans up.
TakePreset(t) ==
  /\ presetLock = NoOne
  /\ LET refused == shutdown \/ PassActive IN
     IF refused /\ t = Main
     THEN /\ Goto(t, "want", "loop")
          /\ idleFor' = entry
          /\ UNCHANGED presetLock
     ELSE /\ Goto(t, "want", IF refused THEN "fail" ELSE "stop")
          /\ presetLock' = t
          /\ UNCHANGED idleFor
  /\ UNCHANGED <<now, passes, appVars, shutdown, passEnd, audioLock, recorder,
                 idleVars, passVars, arg, endKey>>

\* Mutant: the previous preset's helper is left running.
StopPreviousKeepsHelper(t) ==
  /\ Goto(t, "stop", "program")
  /\ receivers' = FALSE
  /\ UNCHANGED <<now, passes, appVars, shutdown, passEnd, lockVars, recorder,
                 helpers, curIdle, pidIdle, passVars, idleFor, arg, endKey>>

StopPrevious(t) ==
  /\ Goto(t, "stop", "program")
  /\ StopIdle(curIdle)
  /\ UNCHANGED <<now, passes, appVars, shutdown, passEnd, lockVars, recorder,
                 passVars, idleFor, arg, endKey>>

Program(t) ==
  /\ Goto(t, "program", "start")
  /\ UNCHANGED <<now, passes, appVars, shutdown, passEnd, lockVars, recorder,
                 idleVars, passVars, idleFor, arg, endKey>>

\* The radio refused a command.  A web thread reports it; in the main thread
\* nothing catches the exception and the lock is released on the way out.
ProgramFails(t) ==
  /\ \/ t \in Web /\ Goto(t, "program", "fail") /\ UNCHANGED presetLock
     \/ /\ t = Main /\ MainMayFail /\ Goto(t, "program", "cAudio")
        /\ presetLock' = NoOne
  /\ UNCHANGED <<now, passes, appVars, shutdown, passEnd, audioLock, recorder,
                 idleVars, passVars, idleFor, arg, endKey>>

\* start_idle_wait_program: its own check, then the SDR and the decoders that
\* the preset asks for; a preset may have none, and a start may fail.
StartReceivers(t) ==
  /\ IF shutdown \/ PassActive
     THEN Goto(t, "start", "status") /\ UNCHANGED receivers
     ELSE Goto(t, "start", "delay") /\ receivers' \in BOOLEAN
  /\ UNCHANGED <<now, passes, appVars, shutdown, passEnd, lockVars, recorder,
                 helpers, curIdle, pidIdle, passVars, idleFor, arg, endKey>>

\* The tuning delay ends early on a shutdown; a preset may name no program.
TuningDelay(t) ==
  /\ \/ Goto(t, "delay", "status")
     \/ Goto(t, "delay", "spawn") /\ ~shutdown
  /\ UNCHANGED <<now, passes, appVars, shutdown, passEnd, lockVars, recorder,
                 idleVars, passVars, idleFor, arg, endKey>>

SpawnHelper(t) ==
  /\ Goto(t, "spawn", "status")
  /\ \/ UNCHANGED <<helpers, curIdle, pidIdle>>     \* the program is missing
     \/ \E h \in Helper \ (helpers \cup {curIdle, pidIdle}) :
          /\ \A u \in Threads : arg[u] # h
          /\ helpers' = helpers \cup {h}
          /\ curIdle' = h
          /\ pidIdle' = h
  /\ UNCHANGED <<now, passes, appVars, shutdown, passEnd, lockVars, recorder,
                 receivers, passVars, idleFor, arg, endKey>>

\* begin_idle_task_status, whose failure is only reported.
BeginIdleStatus ==
  /\ Goto(Main, "status", "loop")
  /\ \/ UNCHANGED <<idleActive, idleFile>>
     \/ ~tracking /\ idleActive' = TRUE /\ idleFile' = TRUE
  /\ presetLock' = NoOne
  /\ idleFor' = entry
  /\ UNCHANGED <<now, passes, completed, current, tracking, presetBusy,
                 shutdown, passEnd, audioLock, recorder, idleVars, passVars,
                 arg, endKey>>

\* update_idle_task_status_for_preset, then the finally block.
UpdateIdleStatus(w) ==
  /\ Goto(w, "status", "ready")
  /\ idleFile' = (idleFile \/ (idleActive /\ ~tracking))
  /\ presetBusy' = FALSE
  /\ presetLock' = NoOne
  /\ UNCHANGED <<now, passes, completed, current, tracking, idleActive,
                 shutdown, passEnd, audioLock, recorder, idleVars, passVars,
                 idleFor, arg, endKey>>

\* The preset file was removed or could not be copied: treated as a failure.
UpdateIdleStatusFails(w) ==
  /\ Goto(w, "status", "fail")
  /\ UNCHANGED <<now, passes, appVars, shutdown, passEnd, lockVars, recorder,
                 idleVars, passVars, idleFor, arg, endKey>>

\* Mutant: the lifecycle lock is not released on the error path.
PresetFailedKeepsLock(w) ==
  /\ Goto(w, "fail", "ready")
  /\ StopIdle(curIdle)
  /\ presetBusy' = FALSE
  /\ UNCHANGED <<now, passes, completed, current, tracking, idleActive,
                 idleFile, shutdown, passEnd, lockVars, recorder, passVars,
                 idleFor, arg, endKey>>

PresetFailed(w) ==
  /\ Goto(w, "fail", "ready")
  /\ StopIdle(curIdle)
  /\ presetBusy' = FALSE
  /\ presetLock' = NoOne
  /\ UNCHANGED <<now, passes, completed, current, tracking, idleActive,
                 idleFile, shutdown, passEnd, audioLock, recorder, passVars,
                 idleFor, arg, endKey>>

-----------------------------------------------------------------------------
\* A pass: the end of the main loop's body, and run_pass.

StopIdleForPass ==
  /\ Goto(Main, "passFirst", "enter")
  /\ presetLock = NoOne
  /\ StopIdle(curIdle)
  /\ idleFor' = NoPass
  /\ UNCHANGED <<now, passes, appVars, shutdown, passEnd, lockVars, recorder,
                 passVars, arg, endKey>>

EnterRunPass ==
  /\ Goto(Main, "enter", IF shutdown THEN "quit" ELSE "claim")
  /\ UNCHANGED <<now, passes, appVars, shutdown, passEnd, lockVars, recorder,
                 idleVars, passVars, idleFor, arg, endKey>>

ClaimStation ==
  /\ Goto(Main, "claim", "recorderOff")
  /\ presetLock = NoOne
  /\ presetLock' = Main
  /\ UNCHANGED <<now, passes, appVars, shutdown, passEnd, audioLock, recorder,
                 idleVars, passVars, idleFor, arg, endKey>>

\* Under both locks: stop the menu recording and mark tracking active.
StopRecorderForPass ==
  /\ Goto(Main, "recorderOff", "handover")
  /\ audioLock = NoOne
  /\ recorder' = FALSE
  /\ tracking' = TRUE
  /\ UNCHANGED <<now, passes, completed, current, idleActive, presetBusy,
                 idleFile, shutdown, passEnd, lockVars, idleVars, passVars,
                 idleFor, arg, endKey>>

HandOver ==
  /\ Goto(Main, "handover", "clear")
  /\ StopIdle(curIdle)
  /\ presetLock' = NoOne
  /\ UNCHANGED <<now, passes, appVars, shutdown, passEnd, audioLock, recorder,
                 passVars, idleFor, arg, endKey>>

ClearPassEnd ==
  /\ Goto(Main, "clear", "expose")
  /\ passEnd' = FALSE
  /\ UNCHANGED <<now, passes, appVars, shutdown, lockVars, recorder, idleVars,
                 passVars, idleFor, arg, endKey>>

\* The pass becomes visible to the web console; its idle status file goes.
ExposePass ==
  /\ Goto(Main, "expose", "launch")
  /\ current' = entry
  /\ tracking' = TRUE
  /\ idleActive' = FALSE
  /\ idleFile' = FALSE
  /\ UNCHANGED <<now, passes, completed, presetBusy, shutdown, passEnd,
                 lockVars, recorder, idleVars, passVars, idleFor, arg, endKey>>

LaunchTracker ==
  /\ Goto(Main, "launch", "wait")
  /\ tracker' = TRUE /\ curTracker' = TRUE
  /\ UNCHANGED <<now, passes, appVars, shutdown, passEnd, lockVars, recorder,
                 idleVars, entry, taken, idleFor, arg, endKey>>

\* The log cannot be opened or the interpreter not started.
LaunchFails ==
  /\ MainMayFail /\ Goto(Main, "launch", "cAudio")
  /\ UNCHANGED <<now, passes, appVars, shutdown, passEnd, lockVars, recorder,
                 idleVars, passVars, idleFor, arg, endKey>>

\* Mutant: the wait has no deadline.
PassOverNoTimeout ==
  /\ Goto(Main, "wait", "ending")
  /\ shutdown \/ passEnd
  /\ UNCHANGED <<now, passes, appVars, shutdown, passEnd, lockVars, recorder,
                 idleVars, passVars, idleFor, arg, endKey>>

\* sleep_until_pass_end_or_timeout, or the end had already passed.
PassOver ==
  /\ Goto(Main, "wait", "ending")
  /\ shutdown \/ passEnd \/ now >= entry.end
  /\ UNCHANGED <<now, passes, appVars, shutdown, passEnd, lockVars, recorder,
                 idleVars, passVars, idleFor, arg, endKey>>

MarkEnded ==
  /\ Goto(Main, "ending", "stopWait")
  /\ passEnd' = TRUE
  /\ UNCHANGED <<now, passes, appVars, shutdown, lockVars, recorder, idleVars,
                 passVars, idleFor, arg, endKey>>

\* request_tracking_process_stop returns; the reference is dropped.
StopTracker ==
  /\ Goto(Main, "stopWait", "complete")
  /\ tracker' = FALSE /\ curTracker' = FALSE
  /\ UNCHANGED <<now, passes, appVars, shutdown, passEnd, lockVars, recorder,
                 idleVars, entry, taken, idleFor, arg, endKey>>

\* The key that is completed is the one the pass was started under, whatever
\* End Current Pass made of the entry meanwhile.
CompletePass ==
  /\ Goto(Main, "complete", "loop")
  /\ tracking' = FALSE
  /\ completed' = completed \cup {entry}
  /\ current' = NoPass
  /\ UNCHANGED <<now, passes, idleActive, presetBusy, idleFile, shutdown,
                 passEnd, lockVars, recorder, idleVars, passVars, idleFor, arg,
                 endKey>>

-----------------------------------------------------------------------------
\* The end of the program.  cleanup_helper_programs runs in the thread that
\* requested the shutdown and again in the main thread's finally block.

StopIdleAtExit ==
  /\ Goto(Main, "quit", "cAudio")
  /\ presetLock = NoOne
  /\ StopIdle(curIdle)
  /\ UNCHANGED <<now, passes, appVars, shutdown, passEnd, lockVars, recorder,
                 passVars, idleFor, arg, endKey>>

CleanRecorder(t) ==
  /\ Goto(t, "cAudio", "cTracker")
  /\ audioLock = NoOne
  /\ recorder' = FALSE
  /\ UNCHANGED <<now, passes, appVars, shutdown, passEnd, lockVars, idleVars,
                 passVars, idleFor, arg, endKey>>

CleanTracker(t) ==
  /\ Goto(t, "cTracker", IF curTracker /\ tracker THEN "cTrackWait"
                                                  ELSE "cTrackNone")
  /\ UNCHANGED <<now, passes, appVars, shutdown, passEnd, lockVars, recorder,
                 idleVars, passVars, idleFor, arg, endKey>>

CleanTrackerStopped(t) ==
  /\ Goto(t, "cTrackWait", "cTrackNone")
  /\ tracker' = FALSE
  /\ UNCHANGED <<now, passes, appVars, shutdown, passEnd, lockVars, recorder,
                 idleVars, curTracker, entry, taken, idleFor, arg, endKey>>

ForgetTracker(t) ==
  /\ Goto(t, "cTrackNone", "cIdle")
  /\ curTracker' = FALSE
  /\ UNCHANGED <<now, passes, appVars, shutdown, passEnd, lockVars, recorder,
                 idleVars, tracker, entry, taken, idleFor, arg, endKey>>

\* CURRENT_IDLE_PROCESS is read as an argument, before the lock is taken.
ReadIdle(t) ==
  /\ Goto(t, "cIdle", "cStopIdle")
  /\ arg' = [arg EXCEPT ![t] = curIdle]
  /\ UNCHANGED <<now, passes, appVars, shutdown, passEnd, lockVars, recorder,
                 idleVars, passVars, idleFor, endKey>>

CleanIdle(t) ==
  /\ Goto(t, "cStopIdle", "cIdleNone")
  /\ presetLock = NoOne
  /\ StopIdle(IF arg[t] = NoHelper THEN curIdle ELSE arg[t])
  /\ arg' = [arg EXCEPT ![t] = NoHelper]
  /\ UNCHANGED <<now, passes, appVars, shutdown, passEnd, lockVars, recorder,
                 passVars, idleFor, endKey>>

ForgetIdle(t) ==
  /\ Goto(t, "cIdleNone", "cPidFiles")
  /\ curIdle' = NoHelper
  /\ UNCHANGED <<now, passes, appVars, shutdown, passEnd, lockVars, recorder,
                 receivers, helpers, pidIdle, passVars, idleFor, arg, endKey>>

KillFromPidFile(t) ==
  /\ Goto(t, "cPidFiles", "cStatus")
  /\ helpers' = helpers \ {pidIdle}
  /\ pidIdle' = NoHelper
  /\ UNCHANGED <<now, passes, appVars, shutdown, passEnd, lockVars, recorder,
                 receivers, curIdle, passVars, idleFor, arg, endKey>>

CleanStatus(t) ==
  /\ Goto(t, "cStatus", IF t = Main THEN "reset" ELSE "ready")
  /\ idleActive' = FALSE
  /\ idleFile' = FALSE
  /\ UNCHANGED <<now, passes, completed, current, tracking, presetBusy,
                 shutdown, passEnd, lockVars, recorder, idleVars, passVars,
                 idleFor, arg, endKey>>

ResetState ==
  /\ Goto(Main, "reset", "linger")
  /\ tracking' = FALSE
  /\ current' = NoPass
  /\ UNCHANGED <<now, passes, completed, idleActive, presetBusy, idleFile,
                 shutdown, passEnd, lockVars, recorder, idleVars, passVars,
                 idleFor, arg, endKey>>

\* The web server answers until here; then the process is gone.
Exit ==
  /\ Goto(Main, "linger", "exited")
  /\ UNCHANGED <<now, passes, appVars, shutdown, passEnd, lockVars, recorder,
                 idleVars, passVars, idleFor, arg, endKey>>

-----------------------------------------------------------------------------
\* The other requests of the web console.

\* schedule_test_pass_from_web.
InsertTestPass(w) ==
  /\ Alive /\ pc[w] = "ready"
  /\ now + Lead + TestLength <= Horizon
  /\ \E i \in TestIds \ {p.id : p \in passes} :
       passes' = passes \cup {[id |-> i, start |-> now + Lead,
                               end |-> now + Lead + TestLength]}
  /\ UNCHANGED <<now, appVars, shutdown, passEnd, lockVars, recorder, idleVars,
                 passVars, pc, idleFor, arg, endKey>>

\* end_current_pass_from_web: read the key, shorten its entry, publish the
\* entry's new key, raise the event.
EndRequest(w) ==
  /\ Goto(w, "ready", "shorten")
  /\ tracking /\ current # NoPass
  /\ endKey' = [endKey EXCEPT ![w] = current]
  /\ UNCHANGED <<now, passes, appVars, shutdown, passEnd, lockVars, recorder,
                 idleVars, passVars, idleFor, arg>>

\* Mutant: the new end is rounded up.
ShortenRoundedUp(w) ==
  LET key == endKey[w]
      new == [key EXCEPT !.end = now + 1]
  IN /\ IF key \in passes
        THEN /\ Goto(w, "shorten", "newKey")
             /\ passes' = (passes \ {key}) \cup {new}
             /\ endKey' = [endKey EXCEPT ![w] = new]
        ELSE /\ Goto(w, "shorten", "endEvent")
             /\ UNCHANGED <<passes, endKey>>
     /\ UNCHANGED <<now, appVars, shutdown, passEnd, lockVars, recorder,
                    idleVars, passVars, idleFor, arg>>

Shorten(w) ==
  LET key == endKey[w]
      new == [key EXCEPT !.end = now]
  IN /\ IF key \in passes
        THEN /\ Goto(w, "shorten", "newKey")
             /\ passes' = (passes \ {key}) \cup {new}
             /\ endKey' = [endKey EXCEPT ![w] = new]
        ELSE /\ Goto(w, "shorten", "endEvent")
             /\ UNCHANGED <<passes, endKey>>
     /\ UNCHANGED <<now, appVars, shutdown, passEnd, lockVars, recorder,
                    idleVars, passVars, idleFor, arg>>

PublishNewKey(w) ==
  /\ Goto(w, "newKey", "endEvent")
  /\ current' = endKey[w]
  /\ UNCHANGED <<now, passes, completed, tracking, idleActive, presetBusy,
                 idleFile, shutdown, passEnd, lockVars, recorder, idleVars,
                 passVars, idleFor, arg, endKey>>

RaisePassEnd(w) ==
  /\ Goto(w, "endEvent", "ready")
  /\ passEnd' = TRUE
  /\ endKey' = [endKey EXCEPT ![w] = NoPass]
  /\ UNCHANGED <<now, passes, appVars, shutdown, lockVars, recorder, idleVars,
                 passVars, idleFor, arg>>

\* Mutant: a recording may start after the shutdown request.
RecordRequestDuringShutdown(w) ==
  /\ Goto(w, "ready", "record")
  /\ audioLock = NoOne
  /\ ~PassActive /\ ~recorder
  /\ audioLock' = w
  /\ UNCHANGED <<now, passes, appVars, shutdown, passEnd, presetLock, recorder,
                 idleVars, passVars, idleFor, arg, endKey>>

\* control_audio_recording holds the audio lock throughout.
RecordRequest(w) ==
  /\ Goto(w, "ready", "record")
  /\ audioLock = NoOne
  /\ ~shutdown /\ ~PassActive /\ ~recorder
  /\ audioLock' = w
  /\ UNCHANGED <<now, passes, appVars, shutdown, passEnd, presetLock, recorder,
                 idleVars, passVars, idleFor, arg, endKey>>

StartRecorder(w) ==
  /\ Goto(w, "record", "ready")
  /\ recorder' \in BOOLEAN
  /\ audioLock' = NoOne
  /\ UNCHANGED <<now, passes, appVars, shutdown, passEnd, presetLock, idleVars,
                 passVars, idleFor, arg, endKey>>

StopRecorder(w) ==
  /\ Alive /\ pc[w] = "ready"
  /\ audioLock = NoOne
  /\ recorder' = FALSE
  /\ UNCHANGED <<now, passes, appVars, shutdown, passEnd, lockVars, idleVars,
                 passVars, pc, idleFor, arg, endKey>>

\* request_shutdown (and request_restart): File > Exit, File > Restart.
ShutdownRequest(w) ==
  /\ Goto(w, "ready", "cAudio")
  /\ shutdown' = TRUE
  /\ UNCHANGED <<now, passes, appVars, passEnd, lockVars, recorder, idleVars,
                 passVars, idleFor, arg, endKey>>

-----------------------------------------------------------------------------
\* What happens around the program.

Tick ==
  /\ now < Horizon
  /\ now' = now + 1
  /\ UNCHANGED <<passes, appVars, shutdown, passEnd, lockVars, recorder,
                 idleVars, passVars, pc, idleFor, arg, endKey>>

\* The idle helper, the recorder's device or the tracker ends by itself.
HelperEnds ==
  /\ \E h \in helpers : helpers' = helpers \ {h}
  /\ UNCHANGED <<now, passes, appVars, shutdown, passEnd, lockVars, recorder,
                 receivers, curIdle, pidIdle, passVars, pc, idleFor, arg,
                 endKey>>

RecorderEnds ==
  /\ recorder /\ recorder' = FALSE
  /\ UNCHANGED <<now, passes, appVars, shutdown, passEnd, lockVars, idleVars,
                 passVars, pc, idleFor, arg, endKey>>

TrackerEnds ==
  /\ tracker /\ tracker' = FALSE
  /\ UNCHANGED <<now, passes, appVars, shutdown, passEnd, lockVars, recorder,
                 idleVars, curTracker, entry, taken, pc, idleFor, arg,
                 endKey>>

\* The script that searches for passes has run, perhaps while a pass is tracked.
\* It finds what is left of each pass that it keeps, under a new key, and no test
\* passes.
Reschedule ==
  /\ Alive
  /\ \E kept \in SUBSET InitPasses, s \in Searches :
       /\ s.at = now
       /\ passes' = {[p EXCEPT !.start = IF p.start + s.later < now THEN now ELSE p.start + s.later,
                               !.end = p.end + s.later] :
                       p \in {q \in kept : q.end + s.later \in now + 1 .. Horizon}}
  /\ taken' = {}
  /\ UNCHANGED <<now, appVars, shutdown, passEnd, lockVars, recorder, idleVars,
                 tracker, curTracker, entry, pc, idleFor, arg, endKey>>

Environment == Tick \/ HelperEnds \/ RecorderEnds \/ TrackerEnds \/ Reschedule

Apply(t) ==
  \/ TakePreset(t) \/ StopPrevious(t) \/ Program(t) \/ ProgramFails(t)
  \/ StartReceivers(t) \/ TuningDelay(t) \/ SpawnHelper(t)

Clean(t) ==
  \/ CleanRecorder(t) \/ CleanTracker(t) \/ CleanTrackerStopped(t)
  \/ ForgetTracker(t) \/ ReadIdle(t) \/ CleanIdle(t) \/ ForgetIdle(t)
  \/ KillFromPidFile(t) \/ CleanStatus(t)

MainStep ==
  \/ KeepWaiting \/ NewHead \/ PassDue \/ LeaveLoop \/ StopOldIdle \/ IdlePause
  \/ Apply(Main) \/ BeginIdleStatus
  \/ StopIdleForPass \/ EnterRunPass \/ ClaimStation \/ StopRecorderForPass
  \/ HandOver \/ ClearPassEnd \/ ExposePass \/ LaunchTracker \/ LaunchFails
  \/ PassOver \/ MarkEnded \/ StopTracker \/ CompletePass
  \/ StopIdleAtExit \/ Clean(Main) \/ ResetState \/ Exit

\* What a web thread does once its request is accepted.
WebWork(w) ==
  \/ Apply(w) \/ UpdateIdleStatus(w) \/ UpdateIdleStatusFails(w)
  \/ PresetFailed(w)
  \/ Shorten(w) \/ PublishNewKey(w) \/ RaisePassEnd(w)
  \/ StartRecorder(w) \/ Clean(w)

WebRequest(w) ==
  \/ PresetRequest(w) \/ InsertTestPass(w) \/ EndRequest(w)
  \/ RecordRequest(w) \/ StopRecorder(w) \/ ShutdownRequest(w)

\* A process that has exited stays so, with whatever it left running.
Exited == ~Alive /\ UNCHANGED vars

Next ==
  \/ MainStep
  \/ \E w \in Web : WebWork(w) \/ WebRequest(w)
  \/ Environment
  \/ Exited

Spec == Init /\ [][Next]_vars

\* Threads that can step do, and the main thread is not starved of a lock that
\* is released again and again (requests come from people clicking, seconds
\* apart).  No operator is obliged to ask for anything.
Fairness ==
  /\ SF_vars(MainStep)
  /\ \A w \in Web : WF_vars(WebWork(w))
  /\ WF_vars(Tick)

FairSpec == Spec /\ Fairness

-----------------------------------------------------------------------------
FlagType ==
  /\ tracking \in BOOLEAN /\ idleActive \in BOOLEAN /\ presetBusy \in BOOLEAN
  /\ idleFile \in BOOLEAN /\ shutdown \in BOOLEAN /\ passEnd \in BOOLEAN
  /\ recorder \in BOOLEAN /\ receivers \in BOOLEAN
  /\ tracker \in BOOLEAN /\ curTracker \in BOOLEAN

DataType ==
  /\ now \in Time
  /\ passes \subseteq Pass /\ completed \subseteq Pass /\ taken \subseteq PassIds
  /\ current \in Pass \cup {NoPass}
  /\ entry \in Pass \cup {NoPass} /\ idleFor \in Pass \cup {NoPass}
  /\ presetLock \in Threads \cup {NoOne} /\ audioLock \in Threads \cup {NoOne}
  /\ helpers \subseteq Helper
  /\ curIdle \in Helper \cup {NoHelper} /\ pidIdle \in Helper \cup {NoHelper}
  /\ arg \in [Threads -> Helper \cup {NoHelper}]
  /\ endKey \in [Web -> Pass \cup {NoPass}]

\* The type invariant.
TypeOK == FlagType /\ DataType /\ pc \in [Threads -> Label]

\* While a tracker runs nothing of the idle task is left: no helper, no idle
\* receiver on the SDR or the sound card, no preset being sent to the radio,
\* no menu recording, and no idle status shown (run_pass hands the station
\* over under PRESET_LIFECYCLE_LOCK and AUDIO_RECORDING_LOCK).
StationExclusive ==
  tracker =>
    /\ helpers = {} /\ ~receivers
    /\ \A t \in Threads : pc[t] \notin {"program", "start", "delay", "spawn"}
    /\ ~recorder /\ \A w \in Web : pc[w] # "record"
    /\ ~idleActive /\ ~idleFile

\* The station as Station.tla sees it: an idle preset uses the radio from the
\* first command it sends until its receivers and its helper are gone.
UsingRadio == {"program", "start", "delay", "spawn"}
radio ==
  IF tracker THEN "pass"
  ELSE IF receivers \/ helpers # {} \/ \E t \in Threads : pc[t] \in UsingRadio
       THEN "idle" ELSE "free"
sound == IF tracker THEN "pass" ELSE IF recorder THEN "menu" ELSE "free"

Devices == INSTANCE Station

\* The scheduler implements Station: a device is handed over only when free.
StationSpec == Devices!Spec

\* Every idle helper that is alive is the one CURRENT_IDLE_PROCESS and the pid
\* file name, so that there is at most one and the next stop reaches it.
HelperTraceable ==
  \A h \in helpers : curIdle = h /\ pidIdle = h

\* When the scheduler has exited it has left nothing running and no status
\* file (cleanup_helper_programs, run by the shutdown request and again by the
\* main thread's finally block).
CleanExit ==
  ~Alive => /\ helpers = {} /\ ~receivers /\ ~recorder /\ ~tracker
            /\ ~tracking /\ ~idleActive /\ ~idleFile

\* No pass is tracked twice by one schedule, although ending it early gives it a
\* new key and completes the old one only.
LaunchedOnce ==
  [][pc[Main] = "loop" /\ pc'[Main] = "passFirst" => entry'.id \notin taken]_vars

-----------------------------------------------------------------------------
\* Why StationExclusive holds: the inductive invariant.

Ended == {"reset", "linger", "exited"}
Final == Cleanup \cup Ended
HandedOver == {"clear", "expose", "launch", "wait", "ending", "stopWait",
               "complete"}
Exposed == {"launch", "wait", "ending", "stopWait", "complete"}

\* Once the main thread turns to a pass, it has one.
EntryInv ==
  pc[Main] \in {"passFirst", "enter", "claim"} \cup Entering \cup HandedOver
    => entry \in Pass

\* Each kind of thread keeps to its own labels.
LabelInv ==
  /\ pc[Main] \notin WebOnly
  /\ \A w \in Web : pc[w] \notin MainOnly

LockInv ==
  /\ \A t \in Threads : pc[t] \in Applying => presetLock = t
  /\ pc[Main] \in Entering => presetLock = Main
  /\ \A w \in Web : pc[w] = "record" => audioLock = w

\* A cleanup reads CURRENT_IDLE_PROCESS before it takes the lock.  What it read
\* cannot be replaced meanwhile: it follows a shutdown request, after which no
\* preset reaches the point where it starts a helper.
HelperInv ==
  /\ HelperTraceable
  /\ \A t \in Threads : pc[t] \in UsingRadio => helpers = {} /\ curIdle = NoHelper
  /\ \A t \in Threads : pc[t] \in Final \cup {"quit"} => shutdown
  /\ \A t, u \in Threads : pc[t] \in {"delay", "spawn"} => arg[u] = NoHelper
  /\ \A t \in Threads :
       arg[t] # NoHelper => pc[t] = "cStopIdle" /\ curIdle \in {arg[t], NoHelper}
  /\ \A t, u \in Threads : pc[t] \in {"cIdleNone", "cPidFiles"} =>
       helpers = {} /\ pc[u] \notin {"stop"} \cup UsingRadio

\* From the hand-over on the station is the pass's, and it stays so.
TrackInv ==
  /\ pc[Main] \in HandedOver \cup {"handover"} =>
       tracking /\ ~recorder /\ \A w \in Web : pc[w] # "record"
  /\ pc[Main] \in HandedOver =>
       /\ helpers = {} /\ ~receivers
       /\ \A t \in Threads : pc[t] \notin {"stop"} \cup UsingRadio
  /\ pc[Main] \in Exposed => ~idleActive /\ ~idleFile
  /\ tracker => pc[Main] \in {"wait", "ending", "stopWait"}

\* The inductive invariant.  Only when an exception has thrown the main thread
\* into its cleanup without a shutdown may helpers get lost; no pass follows.
IInv ==
  /\ TypeOK /\ EntryInv /\ LabelInv /\ LockInv /\ TrackInv
  /\ HelperInv \/ (MainMayFail /\ pc[Main] \in Final)

\* A pass taken up from the present schedule is under its key in completed when the
\* main thread is back in its loop, or it was ended early and has expired by then.
Underway == {"passFirst", "enter", "claim", "quit"} \cup Entering \cup HandedOver \cup Final

TakenInv ==
  /\ \A p, q \in passes : p.id = q.id => p = q
  /\ \A i \in taken : \E p \in passes : p.id = i
  /\ \A p \in passes : p.id \in taken =>
       p \in completed \/ p.end <= now \/ (pc[Main] \in Underway /\ p = entry)

\* What the main thread's cleanup has achieved by each of its labels, and no
\* web thread undoes: a new recording or preset is refused after the shutdown.
CleanInv ==
  /\ pc[Main] \in Final \ {"cAudio"} =>
       ~recorder /\ \A w \in Web : pc[w] # "record"
  /\ pc[Main] \in {"cIdleNone", "cPidFiles", "cStatus"} \cup Ended =>
       /\ helpers = {} /\ ~receivers
       /\ \A t \in Threads : pc[t] \notin {"stop"} \cup UsingRadio
  /\ pc[Main] \in Ended => ~idleActive /\ ~idleFile
  /\ pc[Main] \in {"linger", "exited"} => ~tracking

\* A requested shutdown is carried out, whatever the threads were doing.
ShutdownExits == shutdown ~> ~Alive

\* Every scheduled pass is served, expires or is dropped by a new schedule, as long
\* as the program runs; none holds the loop up for ever.
PassSettled ==
  \A i \in PassIds :
    (\E p \in passes : p.id = i)
      ~> (~Alive \/ \A p \in passes : p.id = i => p \in completed)

\* A pass in progress ends early only for a shutdown or for a request that
\* named this pass (end_current_pass_from_web).
EndsWhatItNamed ==
  [][(\E w \in Web : pc[w] = "endEvent" /\ pc'[w] = "ready"
                     /\ pc[Main] = "wait")
       => \E w \in Web : pc[w] = "endEvent" /\ pc'[w] = "ready"
                         /\ endKey[w].id = entry.id]_vars
=============================================================================
