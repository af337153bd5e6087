--------------------------- MODULE PassProcesses ---------------------------
(***************************************************************************)
(* The processes of a pass and how they end: the console, whose scheduler  *)
(* thread launches and stops a tracking process for each pass and whose    *)
(* web thread shuts everything down (bqe_wisp.py), and the trackers, each  *)
(* with its rigctld and its pass program (bqe_track_continuously.py).      *)
(*                                                                         *)
(* A tracker is asked to stop through one file, and its helpers are found  *)
(* through two pid files; every console and every tracker uses the same    *)
(* three.  The console may be killed and started again; its tracker        *)
(* outlives it.  SIGTERM ends a tracker at once: it installs no handler.   *)
(***************************************************************************)
EXTENDS Naturals, FiniteSets

CONSTANTS MaxPass,   \* bound: passes begun, each with a tracker of its own
          MaxCrash,  \* bound: times the console is killed
          Leftovers  \* bound: may a killed console leave processes behind?

ASSUME PassProcessesAssumption ==
    /\ MaxPass \in Nat
    /\ MaxCrash \in Nat
    /\ Leftovers \in BOOLEAN

VARIABLES
    pc,        \* what the scheduler and the web thread of the console do next
    target,    \* the process each of them is stopping, 0 for none
    quit,      \* the scheduler is in its final cleanup_helper_programs
    shutdown,  \* SHUTDOWN_EVENT
    cur,       \* CURRENT_TRACKING_PROCESS, 0 for None
    pass,      \* passes begun
    tracker,   \* where each pass's tracker is
    rigctld,   \* passes whose rigctld is alive
    program,   \* passes whose pass program is alive
    stopFile,  \* the tracking stop request exists
    rigPid,    \* whose rigctld its pid file names, 0 for no file
    progPid,   \* whose program the other pid file names
    asked,     \* history: trackers whose stop was requested
    heeded,    \* history: trackers that left because of the stop file
    unnamed,   \* history: trackers that died before they wrote a pid file
    orphaned,  \* history: a process, or a pid file, outlived its console
    crashes    \* times the console was killed

threadVars == <<pc, target, quit>>
consoleVars == <<shutdown, cur, pass>>
files == <<stopFile, rigPid, progPid>>
history == <<asked, heeded, unnamed, orphaned, crashes>>
vars == <<threadVars, consoleVars, tracker, rigctld, program, files, history>>

Thread == {"main", "web"}
Passes == 1 .. MaxPass
OrNone == 0 .. MaxPass

Stopping == {"read", "poll", "write", "await", "unask", "forget", "readRig", "killRig",
             "dropRig", "readProg", "killProg", "dropProg"}
Before == {"none", "start"}
Working == {"rig", "setup", "program", "loop"}
Leaving == {"leave", "stopProg", "dropProg", "stopRig", "dropRig", "unask"}

TypeOK ==
    /\ DOMAIN pc = Thread
    /\ pc["main"] \in Stopping \cup {"idle", "clear", "launch", "wait", "gone"}
    /\ pc["web"] \in Stopping \cup {"idle"}
    /\ target \in [Thread -> OrNone]
    /\ quit \in BOOLEAN
    /\ shutdown \in BOOLEAN
    /\ cur \in OrNone
    /\ pass \in OrNone
    /\ tracker \in [Passes -> Before \cup Working \cup Leaving \cup {"dead"}]
    /\ rigctld \subseteq Passes
    /\ program \subseteq Passes
    /\ stopFile \in BOOLEAN
    /\ rigPid \in OrNone
    /\ progPid \in OrNone
    /\ asked \subseteq Passes
    /\ heeded \subseteq Passes
    /\ unnamed \subseteq Passes
    /\ orphaned \in BOOLEAN
    /\ crashes \in 0 .. MaxCrash

Init ==
    /\ pc = [t \in Thread |-> "idle"]
    /\ target = [t \in Thread |-> 0]
    /\ quit = FALSE
    /\ shutdown = FALSE
    /\ cur = 0
    /\ pass = 0
    /\ tracker = [n \in Passes |-> "none"]
    /\ rigctld = {}
    /\ program = {}
    /\ stopFile = FALSE
    /\ rigPid = 0
    /\ progPid = 0
    /\ asked = {}
    /\ heeded = {}
    /\ unnamed = {}
    /\ orphaned = FALSE
    /\ crashes = 0

Alive(n) == tracker[n] \notin {"none", "dead"}

\* A thread of a console that has not exited goes on to another step.
Goto(t, from, to) ==
    /\ pc["main"] # "gone"
    /\ pc[t] = from
    /\ pc' = [pc EXCEPT ![t] = to]

\* Tracker n is over, and has left what it had started.
Dies(n) ==
    /\ tracker' = [tracker EXCEPT ![n] = "dead"]
    /\ unnamed' = IF tracker[n] \in {"rig", "program"} THEN unnamed \cup {n} ELSE unnamed
-----------------------------------------------------------------------------
(* The scheduler thread: run_pass. *)

\* The check at its head; then the station is handed over, which takes a while.
RunPass ==
    /\ Goto("main", "idle", "clear")
    /\ ~shutdown
    /\ pass < MaxPass
    /\ UNCHANGED <<target, quit, consoleVars, tracker, rigctld, program, files, history>>

\* Mutant: the stop request of a console that was killed is left in place.
ClearStopFileNot ==
    /\ Goto("main", "clear", "launch")
    /\ UNCHANGED <<target, quit, consoleVars, tracker, rigctld, program, files, history>>

ClearStopFile ==
    /\ Goto("main", "clear", "launch")
    /\ stopFile' = FALSE
    /\ UNCHANGED <<target, quit, consoleVars, tracker, rigctld, program, rigPid, progPid, history>>

Launch ==
    /\ Goto("main", "launch", "wait")
    /\ pass' = pass + 1
    /\ tracker' = [tracker EXCEPT ![pass + 1] = "start"]
    /\ cur' = pass + 1
    /\ UNCHANGED <<target, quit, shutdown, rigctld, program, files, history>>

\* Popen or the log file fails, which ends the scheduler.
LaunchFails ==
    /\ Goto("main", "launch", "read")
    /\ quit' = TRUE
    /\ UNCHANGED <<target, consoleVars, tracker, rigctld, program, files, history>>

\* The end time, End Current Pass or a shutdown ends the wait.
PassOver ==
    /\ Goto("main", "wait", "poll")
    /\ target' = [target EXCEPT !["main"] = pass]
    /\ UNCHANGED <<quit, consoleVars, tracker, rigctld, program, files, history>>

\* The main loop is left for the final cleanup.
LeaveMainLoop ==
    /\ Goto("main", "idle", "read")
    /\ shutdown
    /\ quit' = TRUE
    /\ UNCHANGED <<target, consoleVars, tracker, rigctld, program, files, history>>

\* request_shutdown, and request_restart.
RequestShutdown ==
    /\ Goto("web", "idle", "read")
    /\ shutdown' = TRUE
    /\ UNCHANGED <<target, quit, cur, pass, tracker, rigctld, program, files, history>>
-----------------------------------------------------------------------------
(* What both threads do to stop a pass: cleanup_helper_programs begins at    *)
(* "read", the end of run_pass at "poll".                                    *)

ReadCurrent(t) ==
    /\ Goto(t, "read", "poll")
    /\ target' = [target EXCEPT ![t] = cur]
    /\ UNCHANGED <<quit, consoleVars, tracker, rigctld, program, files, history>>

\* request_tracking_process_stop: nothing to do when the tracker is gone.
Poll(t) ==
    /\ Goto(t, "poll", IF target[t] # 0 /\ Alive(target[t]) THEN "write" ELSE "forget")
    /\ UNCHANGED <<target, quit, consoleVars, tracker, rigctld, program, files, history>>

WriteStopFile(t) ==
    /\ Goto(t, "write", "await")
    /\ stopFile' = TRUE
    /\ asked' = asked \cup {target[t]}
    /\ UNCHANGED <<target, quit, consoleVars, tracker, rigctld, program, rigPid, progPid,
                   heeded, unnamed, orphaned, crashes>>

\* process.wait returns.
Awaited(t) ==
    /\ Goto(t, "await", "unask")
    /\ ~Alive(target[t])
    /\ UNCHANGED <<target, quit, consoleVars, tracker, rigctld, program, files, history>>

\* Mutant: it waits for the tracker however long that takes.
TerminateNever(t) ==
    /\ Goto(t, "write", "unask")
    /\ Alive(target[t])
    /\ Dies(target[t])
    /\ UNCHANGED <<target, quit, consoleVars, rigctld, program, files,
                   asked, heeded, orphaned, crashes>>

\* Mutant: it gives up a tracker that takes too long.
TerminateNot(t) ==
    /\ Goto(t, "await", "unask") \/ Goto(t, "write", "unask")
    /\ Alive(target[t])
    /\ UNCHANGED <<target, quit, consoleVars, tracker, rigctld, program, files, history>>

\* It takes more than fifteen seconds, or the request could not be written:
\* terminate, and kill.
Terminate(t) ==
    /\ Goto(t, "await", "unask") \/ Goto(t, "write", "unask")
    /\ Alive(target[t])
    /\ Dies(target[t])
    /\ UNCHANGED <<target, quit, consoleVars, rigctld, program, files,
                   asked, heeded, orphaned, crashes>>

RemoveStopFile(t) ==
    /\ Goto(t, "unask", "forget")
    /\ stopFile' = FALSE
    /\ UNCHANGED <<target, quit, consoleVars, tracker, rigctld, program, rigPid, progPid, history>>

\* Then, in a cleanup, the idle helper is stopped, which may take a minute.
ForgetTracker(t) ==
    /\ Goto(t, "forget", "readRig")
    /\ cur' = 0
    /\ UNCHANGED <<target, quit, shutdown, pass, tracker, rigctld, program, files, history>>

\* terminate_rigctld_from_pid_file: read; SIGTERM, and SIGKILL two seconds
\* later; remove the file.
ReadRigPid(t) ==
    /\ Goto(t, "readRig", IF rigPid = 0 THEN "readProg" ELSE "killRig")
    /\ target' = [target EXCEPT ![t] = rigPid]
    /\ UNCHANGED <<quit, consoleVars, tracker, rigctld, program, files, history>>

KillRig(t) ==
    /\ Goto(t, "killRig", "dropRig")
    /\ rigctld' = rigctld \ {target[t]}
    /\ UNCHANGED <<target, quit, consoleVars, tracker, program, files, history>>

DropRigPid(t) ==
    /\ Goto(t, "dropRig", "readProg")
    /\ rigPid' = 0
    /\ UNCHANGED <<target, quit, consoleVars, tracker, rigctld, program, stopFile, progPid, history>>

\* Where a thread goes when it has done all this.
After(t) == IF t = "main" /\ quit THEN "gone" ELSE "idle"

\* terminate_process_from_pid_file, for the pass program.
ReadProgPid(t) ==
    /\ Goto(t, "readProg", IF progPid = 0 THEN After(t) ELSE "killProg")
    /\ target' = [target EXCEPT ![t] = progPid]
    /\ UNCHANGED <<quit, consoleVars, tracker, rigctld, program, files, history>>

KillProgram(t) ==
    /\ Goto(t, "killProg", "dropProg")
    /\ program' = program \ {target[t]}
    /\ UNCHANGED <<target, quit, consoleVars, tracker, rigctld, files, history>>

DropProgPid(t) ==
    /\ Goto(t, "dropProg", After(t))
    /\ progPid' = 0
    /\ UNCHANGED <<target, quit, consoleVars, tracker, rigctld, program, stopFile, rigPid, history>>

Stop(t) ==
    \/ ReadCurrent(t) \/ Poll(t) \/ WriteStopFile(t) \/ Awaited(t) \/ Terminate(t)
    \/ RemoveStopFile(t) \/ ForgetTracker(t)
    \/ ReadRigPid(t) \/ KillRig(t) \/ DropRigPid(t)
    \/ ReadProgPid(t) \/ KillProgram(t) \/ DropProgPid(t)

Main == ClearStopFile \/ Launch \/ LaunchFails \/ PassOver \/ LeaveMainLoop \/ Stop("main")
-----------------------------------------------------------------------------
(* The console as a process. *)

\* A new console knows nothing of the last one's threads and processes.
NewConsole ==
    /\ pc' = [t \in Thread |-> "idle"]
    /\ target' = [t \in Thread |-> 0]
    /\ quit' = FALSE
    /\ shutdown' = FALSE
    /\ cur' = 0
    /\ UNCHANGED <<pass, tracker, rigctld, program, files, asked, heeded, unnamed>>

\* The restart that was asked for (os.execv), or the operator's.
Restart ==
    /\ pc["main"] = "gone"
    /\ NewConsole
    /\ UNCHANGED <<orphaned, crashes>>

\* A process of a pass is alive, or a pid file names one.
Left ==
    \/ \E n \in Passes : Alive(n) \/ n \in rigctld \cup program
    \/ rigPid # 0 \/ progPid # 0

\* The console is killed, and started again.
Crash ==
    /\ crashes < MaxCrash
    /\ crashes' = crashes + 1
    /\ Leftovers \/ ~Left
    /\ orphaned' = (orphaned \/ Left)
    /\ NewConsole
-----------------------------------------------------------------------------
(* The tracker of pass n. *)

Becomes(n, from, to) ==
    /\ tracker[n] = from
    /\ tracker' = [tracker EXCEPT ![n] = to]

\* start_rigctld_process; while another rigctld holds the port, a second one
\* exits at once.  An SDR-only pass needs none.
StartRig(n) ==
    /\ \/ rigctld = {} /\ Becomes(n, "start", "rig") /\ rigctld' = {n}
       \/ Becomes(n, "start", "setup") /\ UNCHANGED rigctld
    /\ UNCHANGED <<threadVars, consoleVars, program, files, history>>

\* write_rigctld_pid_file, after the start-up delay.
NameRig(n) ==
    /\ Becomes(n, "rig", "setup")
    /\ rigPid' = n
    /\ UNCHANGED <<threadVars, consoleVars, rigctld, program, stopFile, progPid, history>>

\* start_pass_program, if the satellite has one: Popen, then the pid file.
StartProgram(n) ==
    /\ \/ Becomes(n, "setup", "program") /\ program' = program \cup {n}
       \/ Becomes(n, "setup", "loop") /\ UNCHANGED program
    /\ UNCHANGED <<threadVars, consoleVars, rigctld, files, history>>

NameProgram(n) ==
    /\ Becomes(n, "program", "loop")
    /\ progPid' = n
    /\ UNCHANGED <<threadVars, consoleVars, rigctld, program, stopFile, rigPid, history>>

\* The tracking loop, and the sleep in it, look for the stop file.
HeedStop(n) ==
    /\ stopFile
    /\ Becomes(n, "loop", "leave")
    /\ heeded' = heeded \cup {n}
    /\ UNCHANGED <<threadVars, consoleVars, rigctld, program, files,
                   asked, unnamed, orphaned, crashes>>

\* The satellite has set, or an exception in the try block.
LeaveLoop(n) ==
    /\ Becomes(n, "setup", "leave") \/ Becomes(n, "loop", "leave")
    /\ UNCHANGED <<threadVars, consoleVars, rigctld, program, files, history>>

\* Mutant: the pid file goes before the program it names.
DropProgramTooEarly(n) ==
    /\ Becomes(n, "leave", "stopProg")
    /\ progPid' = 0
    /\ UNCHANGED <<threadVars, consoleVars, rigctld, program, stopFile, rigPid, history>>

\* The finally block: fourteen receivers ...
StopReceivers(n) ==
    /\ Becomes(n, "leave", "stopProg")
    /\ UNCHANGED <<threadVars, consoleVars, rigctld, program, files, history>>

\* ... stop_pass_program, which tells a recorder to finish its file ...
StopProgram(n) ==
    /\ Becomes(n, "stopProg", "dropProg")
    /\ program' = program \ {n}
    /\ UNCHANGED <<threadVars, consoleVars, rigctld, files, history>>

\* ... remove_pid_file ...
DropProgram(n) ==
    /\ Becomes(n, "dropProg", "stopRig")
    /\ progPid' = 0
    /\ UNCHANGED <<threadVars, consoleVars, rigctld, program, stopFile, rigPid, history>>

\* ... the same for rigctld ...
StopRig(n) ==
    /\ Becomes(n, "stopRig", "dropRig")
    /\ rigctld' = rigctld \ {n}
    /\ UNCHANGED <<threadVars, consoleVars, program, files, history>>

DropRig(n) ==
    /\ Becomes(n, "dropRig", "unask")
    /\ rigPid' = 0
    /\ UNCHANGED <<threadVars, consoleVars, rigctld, program, stopFile, progPid, history>>

\* ... and the stop file.
Finish(n) ==
    /\ Becomes(n, "unask", "dead")
    /\ stopFile' = FALSE
    /\ UNCHANGED <<threadVars, consoleVars, rigctld, program, rigPid, progPid, history>>

\* A tracker dies before its work is done: a mistake in its configuration, a
\* rigctld that does not start, a receiver's stop that raises in the finally
\* block, or a signal.
TrackerDies(n) ==
    /\ Alive(n)
    /\ Dies(n)
    /\ UNCHANGED <<threadVars, consoleVars, rigctld, program, files,
                   asked, heeded, orphaned, crashes>>

\* So may its helpers, by themselves.
HelperEnds(n) ==
    /\ \/ n \in rigctld /\ rigctld' = rigctld \ {n} /\ UNCHANGED program
       \/ n \in program /\ program' = program \ {n} /\ UNCHANGED rigctld
    /\ UNCHANGED <<threadVars, consoleVars, tracker, files, history>>

Tracker(n) ==
    \/ StartRig(n) \/ NameRig(n) \/ StartProgram(n) \/ NameProgram(n)
    \/ HeedStop(n) \/ LeaveLoop(n) \/ StopReceivers(n) \/ StopProgram(n) \/ DropProgram(n)
    \/ StopRig(n) \/ DropRig(n) \/ Finish(n) \/ TrackerDies(n) \/ HelperEnds(n)

Next ==
    \/ RunPass \/ Main
    \/ RequestShutdown \/ Stop("web")
    \/ Restart \/ Crash
    \/ \E n \in Passes : Tracker(n)

Spec == Init /\ [][Next]_vars

\* The scheduler's thread goes on: its waits have timeouts.  Nothing is
\* assumed of the trackers.
FairSpec == Spec /\ WF_vars(Main)
-----------------------------------------------------------------------------
(***************************************************************************)
(* A tracker that leaves its loop for the stop file was asked to stop:     *)
(* neither the request for an earlier pass nor one that a killed console   *)
(* left behind ends it (run_pass, request_tracking_process_stop).          *)
(***************************************************************************)
NoStaleStop == ~orphaned => heeded \subseteq asked

(***************************************************************************)
(* A helper that its tracker left behind is named by its pid file, so that *)
(* a stop still finds it; unless the tracker died between the Popen and    *)
(* the pid file, or a killed console left a process or a pid file, which   *)
(* the next one does not look for (start_rigctld_process,                  *)
(* start_pass_program, the finally block, terminate_rigctld_from_pid_file).*)
(***************************************************************************)
Traceable ==
    ~orphaned => \A n \in Passes \ unnamed : tracker[n] = "dead" =>
        /\ n \in rigctld => rigPid = n
        /\ n \in program => progPid = n

(***************************************************************************)
(* When the scheduler goes on to another pass, or exits, no tracker is     *)
(* left, nor any helper that a pid file names (run_pass).                  *)
(***************************************************************************)
Released ==
    (~orphaned /\ pc["main"] \in {"idle", "clear", "launch", "gone"}) =>
        /\ \A n \in Passes : ~Alive(n)
        /\ rigctld \cup program \subseteq unnamed

(***************************************************************************)
(* A shutdown that is asked for is carried out: the console ends even      *)
(* when the tracker hangs (request_tracking_process_stop).                 *)
(***************************************************************************)
Exits == shutdown ~> (pc["main"] = "gone" \/ ~shutdown)
=============================================================================
