------------------------ MODULE PassProcessesProofs ------------------------
(***************************************************************************)
(* Theorems about PassProcesses: for any number of passes and of crashes,  *)
(* and for any process a killed console leaves behind, the types; and, as  *)
(* long as none did, the three safety invariants.                          *)
(***************************************************************************)
EXTENDS PassProcesses, TLAPS

\* A thread at these labels is stopping a tracker, or a helper.
AtTracker == {"write", "await", "unask"}
AtHelper == {"killRig", "dropRig", "killProg", "dropProg"}

HandleInv ==
    /\ \A t \in Thread : pc[t] \in AtTracker \cup AtHelper => target[t] \in Passes
    /\ pc["main"] \in {"clear", "launch"} => pass < MaxPass

\* Only the last tracker can be alive, and only while the scheduler waits for
\* the end of its pass or for the tracker's own end.
Waiting == {"wait", "poll", "write", "await"}

TrackerInv ==
    /\ \A n \in Passes : n < pass => tracker[n] = "dead"
    /\ \A n \in Passes : n > pass <=> tracker[n] = "none"
    /\ pc["main"] \notin Waiting \/ quit => \A n \in Passes : ~Alive(n)

\* Once a shutdown is requested the scheduler begins no other pass, so that what
\* the web thread has read stays true of the last one.
ThreadInv ==
    /\ pc["web"] # "idle" => shutdown
    /\ cur \in {0, pass}
    /\ pc["main"] \notin Waiting \cup {"unask", "forget"} => cur = 0
    /\ pc["main"] \in {"write", "await", "unask"} \cup AtHelper => target["main"] = pass
    /\ pc["main"] = "read" => quit
    /\ pc["main"] \in {"idle", "clear", "launch", "wait"} => ~quit
    /\ pc["main"] = "poll" /\ ~quit => target["main"] = pass
    /\ pc["web"] \notin {"idle", "read"} =>
          \/ target["web"] = 0
          \/ target["web"] = pass /\ pc["main"] \notin {"clear", "launch"}

\* A pid file names the last tracker's helper or none, and a helper that has no
\* pid file is being started, or its tracker died starting it.
PidInv ==
    /\ rigPid \in {0, pass} /\ progPid \in {0, pass}
    /\ \A n \in Passes :
          /\ n \in rigctld => tracker[n] \notin {"none", "start", "dropRig", "unask"}
          /\ n \in rigctld /\ tracker[n] # "rig" => n \in unnamed \/ rigPid = n
          /\ rigPid = n => tracker[n] \notin {"none", "start", "rig"}
          /\ n \in program => tracker[n] \notin {"none", "start", "rig", "setup", "dropProg",
                                                 "stopRig", "dropRig", "unask"}
          /\ n \in program /\ tracker[n] # "program" => n \in unnamed \/ progPid = n
          /\ progPid = n => tracker[n] \notin {"none", "start", "rig", "setup", "program"}

\* What a thread removes is no longer needed.
StopperInv ==
    \A t \in Thread :
        /\ pc[t] \in {"killRig", "dropRig"} => tracker[target[t]] \notin {"none", "start", "rig"}
        /\ pc[t] \in {"killProg", "dropProg"} =>
              tracker[target[t]] \notin {"none", "start", "rig", "setup", "program"}
        /\ pc[t] = "dropRig" => target[t] \notin rigctld
        /\ pc[t] = "dropProg" => target[t] \notin program

ReleasedInv ==
    /\ pc["main"] \in {"readProg", "killProg", "dropProg", "idle", "clear", "launch", "gone"} =>
          rigPid = 0
    /\ pc["main"] \in {"idle", "clear", "launch", "gone"} => progPid = 0

StopFileInv ==
    /\ heeded \subseteq asked
    /\ stopFile => \A n \in Passes : Alive(n) => n \in asked
    /\ pc["main"] = "launch" => ~stopFile

Tidy ==
    TrackerInv /\ ThreadInv /\ PidInv /\ StopperInv /\ ReleasedInv /\ StopFileInv

IInv == TypeOK /\ HandleInv /\ (~orphaned => Tidy)
-----------------------------------------------------------------------------
TypedInv == TypeOK /\ HandleInv

LEMMA Start == ASSUME Init PROVE IInv
<1> USE PassProcessesAssumption DEF Init, Passes, OrNone, Alive
<1>1. TypeOK
  <2>1. 0 \in OrNone /\ 0 \in 0 .. MaxCrash
    OBVIOUS
  <2> HIDE DEF OrNone
  <2> QED
    BY <2>1 DEF TypeOK, Thread, Stopping, Before
<1>2. HandleInv
  BY DEF HandleInv, Thread, AtTracker, AtHelper
<1>3. TrackerInv
  BY DEF TrackerInv
<1>4. ThreadInv
  <2>1. \A t \in Thread : pc[t] = "idle" /\ target[t] = 0
    OBVIOUS
  <2> QED
    BY <2>1 DEF ThreadInv, Waiting, AtHelper, Thread
<1>5. PidInv
  BY DEF PidInv
<1>6. StopperInv
  BY DEF StopperInv, Thread
<1>7. ReleasedInv /\ StopFileInv
  BY DEF ReleasedInv, StopFileInv
<1> QED
  BY <1>1, <1>2, <1>3, <1>4, <1>5, <1>6, <1>7 DEF IInv, Tidy

LEMMA StopTypes == ASSUME TypedInv, NEW t \in Thread, Stop(t) PROVE TypedInv'
<1> USE PassProcessesAssumption DEF TypedInv, TypeOK, HandleInv, Goto, threadVars, consoleVars, files, history,
      Thread, Stopping, Before, Working, Leaving, AtTracker, AtHelper, Passes, OrNone
<1>1. CASE ReadCurrent(t)
  BY <1>1 DEF ReadCurrent
<1>2. CASE Poll(t)
  BY <1>2 DEF Poll
<1>3. CASE WriteStopFile(t)
  BY <1>3 DEF WriteStopFile
<1>4. CASE Awaited(t)
  BY <1>4 DEF Awaited
<1>5. CASE Terminate(t)
  BY <1>5, ZenonT(60) DEF Terminate, Dies
<1>6. CASE RemoveStopFile(t)
  BY <1>6 DEF RemoveStopFile
<1>7. CASE ForgetTracker(t)
  BY <1>7 DEF ForgetTracker
<1>8. CASE ReadRigPid(t)
  BY <1>8 DEF ReadRigPid
<1>9. CASE KillRig(t)
  BY <1>9, ZenonT(60) DEF KillRig
<1>10. CASE DropRigPid(t)
  BY <1>10 DEF DropRigPid
<1>11. CASE ReadProgPid(t)
  BY <1>11 DEF ReadProgPid, After
<1>12. CASE KillProgram(t)
  BY <1>12 DEF KillProgram
<1>13. CASE DropProgPid(t)
  BY <1>13 DEF DropProgPid, After
<1> QED
  BY <1>1, <1>2, <1>3, <1>4, <1>5, <1>6, <1>7, <1>8, <1>9, <1>10, <1>11, <1>12, <1>13 DEF Stop

LEMMA TrackerTypes == ASSUME TypedInv, NEW n \in Passes, Tracker(n) PROVE TypedInv'
<1> USE PassProcessesAssumption DEF TypedInv, Becomes, TypeOK, HandleInv, Goto, threadVars, consoleVars, files, history,
      Thread, Stopping, Before, Working, Leaving, AtTracker, AtHelper, Passes, OrNone
<1>1. CASE StartRig(n)
  <2>1. rigctld' \subseteq Passes /\ program' \subseteq Passes
    BY ONLY <1>1, TypeOK, n \in Passes DEF StartRig, TypeOK, Becomes
  <2>2. tracker' \in [Passes -> Before \cup Working \cup Leaving \cup {"dead"}]
    BY <1>1 DEF StartRig
  <2> QED
    BY <1>1, <2>1, <2>2 DEF StartRig
<1>2. CASE NameRig(n)
  BY <1>2 DEF NameRig
<1>3. CASE StartProgram(n)
  <2>1. rigctld' \subseteq Passes /\ program' \subseteq Passes
    BY ONLY <1>3, TypeOK, n \in Passes DEF StartProgram, TypeOK, Becomes
  <2>2. tracker' \in [Passes -> Before \cup Working \cup Leaving \cup {"dead"}]
    BY <1>3 DEF StartProgram
  <2> QED
    BY <1>3, <2>1, <2>2 DEF StartProgram
<1>4. CASE NameProgram(n)
  BY <1>4 DEF NameProgram
<1>5. CASE HeedStop(n)
  BY <1>5 DEF HeedStop
<1>6. CASE LeaveLoop(n)
  BY <1>6 DEF LeaveLoop
<1>7. CASE StopReceivers(n)
  BY <1>7 DEF StopReceivers
<1>8. CASE StopProgram(n)
  BY <1>8 DEF StopProgram
<1>9. CASE DropProgram(n)
  BY <1>9 DEF DropProgram
<1>10. CASE StopRig(n)
  BY <1>10 DEF StopRig
<1>11. CASE DropRig(n)
  BY <1>11 DEF DropRig
<1>12. CASE Finish(n)
  BY <1>12, ZenonT(60) DEF Finish
<1>13. CASE TrackerDies(n)
  BY <1>13 DEF TrackerDies, Dies
<1>14. CASE HelperEnds(n)
  <2>1. rigctld' \subseteq Passes /\ program' \subseteq Passes
    BY ONLY <1>14, TypeOK, n \in Passes DEF HelperEnds, TypeOK, Becomes
  <2>2. tracker' \in [Passes -> Before \cup Working \cup Leaving \cup {"dead"}]
    BY <1>14 DEF HelperEnds
  <2> QED
    BY <1>14, <2>1, <2>2 DEF HelperEnds
<1> QED
  BY <1>1, <1>2, <1>3, <1>4, <1>5, <1>6, <1>7, <1>8, <1>9, <1>10, <1>11, <1>12, <1>13, <1>14 DEF Tracker

LEMMA MainTypes ==
  ASSUME TypedInv,
         \/ RunPass
         \/ ClearStopFile
         \/ Launch
         \/ LaunchFails
         \/ PassOver
         \/ LeaveMainLoop
         \/ RequestShutdown
         \/ Restart
         \/ Crash
  PROVE  TypedInv'
<1> USE PassProcessesAssumption DEF TypedInv, TypeOK, HandleInv, Goto, threadVars, consoleVars, files, history,
      Thread, Stopping, Before, Working, Leaving, AtTracker, AtHelper, Passes, OrNone
<1>1. CASE RunPass
  BY <1>1 DEF RunPass
<1>2. CASE ClearStopFile
  BY <1>2 DEF ClearStopFile
<1>3. CASE Launch
  BY <1>3 DEF Launch
<1>4. CASE LaunchFails
  BY <1>4 DEF LaunchFails
<1>5. CASE PassOver
  BY <1>5 DEF PassOver
<1>6. CASE LeaveMainLoop
  BY <1>6 DEF LeaveMainLoop
<1>7. CASE RequestShutdown
  BY <1>7 DEF RequestShutdown
<1>8. CASE Restart
  <2>1. DOMAIN pc' = Thread /\ \A t \in Thread : pc'[t] = "idle"
    BY <1>8 DEF Restart, NewConsole
  <2>2. target' \in [Thread -> OrNone]
    BY <1>8 DEF Restart, NewConsole
  <2>3. orphaned' \in BOOLEAN /\ crashes' \in 0 .. MaxCrash
    BY <1>8 DEF Restart, Left
  <2>4. UNCHANGED <<pass, tracker, rigctld, program, stopFile, rigPid, progPid, asked, heeded, unnamed>>
    BY <1>8 DEF Restart, NewConsole
  <2>5. quit' = FALSE /\ shutdown' = FALSE /\ cur' = 0
    BY <1>8 DEF Restart, NewConsole
  <2>6. HandleInv'
    BY <2>1 DEF HandleInv
  <2>7. pc'["main"] = "idle" /\ pc'["web"] = "idle"
    BY <2>1
  <2>8. TypeOK'
    <3>1. 0 \in OrNone
      OBVIOUS
    <3> HIDE DEF Thread, Passes, OrNone, Stopping, Before, Working, Leaving, HandleInv
    <3> QED
      BY ONLY TypedInv, <2>1, <2>2, <2>3, <2>4, <2>5, <2>7, <3>1 DEF TypeOK
  <2> QED
    BY <2>6, <2>8
<1>9. CASE Crash
  <2>1. DOMAIN pc' = Thread /\ \A t \in Thread : pc'[t] = "idle"
    BY <1>9 DEF Crash, NewConsole
  <2>2. target' \in [Thread -> OrNone]
    BY <1>9 DEF Crash, NewConsole
  <2>3. orphaned' \in BOOLEAN /\ crashes' \in 0 .. MaxCrash
    BY <1>9 DEF Crash, Left
  <2>4. UNCHANGED <<pass, tracker, rigctld, program, stopFile, rigPid, progPid, asked, heeded, unnamed>>
    BY <1>9 DEF Crash, NewConsole
  <2>5. quit' = FALSE /\ shutdown' = FALSE /\ cur' = 0
    BY <1>9 DEF Crash, NewConsole
  <2>6. HandleInv'
    BY <2>1 DEF HandleInv
  <2>7. pc'["main"] = "idle" /\ pc'["web"] = "idle"
    BY <2>1
  <2>8. TypeOK'
    <3>1. 0 \in OrNone
      OBVIOUS
    <3> HIDE DEF Thread, Passes, OrNone, Stopping, Before, Working, Leaving, HandleInv
    <3> QED
      BY ONLY TypedInv, <2>1, <2>2, <2>3, <2>4, <2>5, <2>7, <3>1 DEF TypeOK
  <2> QED
    BY <2>6, <2>8
<1> QED
  BY <1>1, <1>2, <1>3, <1>4, <1>5, <1>6, <1>7, <1>8, <1>9

LEMMA StopTidy ==
  ASSUME TypedInv, Tidy, NEW t \in Thread, Stop(t)
  PROVE  Tidy'
<1> USE PassProcessesAssumption DEF Tidy, TypedInv, TypeOK, HandleInv, Goto, threadVars, consoleVars, files, history,
      Thread, AtTracker, AtHelper, Passes, OrNone, Waiting, Alive
<1>1. CASE ReadCurrent(t)
  <2> USE <1>1 DEF ReadCurrent
  <2>1. TrackerInv'
    BY DEF TrackerInv
  <2>2. ThreadInv'
    BY DEF ThreadInv
  <2>3. PidInv'
    BY DEF PidInv
  <2>4. StopperInv'
    BY DEF StopperInv
  <2>5. ReleasedInv'
    BY DEF ReleasedInv
  <2>6. StopFileInv'
    BY DEF StopFileInv
  <2> QED
    BY <2>1, <2>2, <2>3, <2>4, <2>5, <2>6
<1>2. CASE Poll(t)
  <2> USE <1>2 DEF Poll
  <2>1. TrackerInv'
    BY DEF ThreadInv, TrackerInv
  <2>2. ThreadInv'
    BY DEF ThreadInv, TrackerInv
  <2>3. PidInv'
    BY DEF PidInv
  <2>4. StopperInv'
    BY DEF StopperInv
  <2>5. ReleasedInv'
    BY DEF ReleasedInv
  <2>6. StopFileInv'
    BY DEF StopFileInv
  <2> QED
    BY <2>1, <2>2, <2>3, <2>4, <2>5, <2>6
<1>3. CASE WriteStopFile(t)
  <2> USE <1>3 DEF WriteStopFile
  <2>1. TrackerInv'
    BY DEF TrackerInv
  <2>2. ThreadInv'
    BY DEF ThreadInv
  <2>3. PidInv'
    BY DEF PidInv
  <2>4. StopperInv'
    BY DEF StopperInv
  <2>5. ReleasedInv'
    BY DEF ReleasedInv
  <2>6. StopFileInv'
    BY DEF StopFileInv, ThreadInv, TrackerInv
  <2> QED
    BY <2>1, <2>2, <2>3, <2>4, <2>5, <2>6
<1>4. CASE Awaited(t)
  <2> USE <1>4 DEF Awaited
  <2>1. TrackerInv'
    BY DEF ThreadInv, TrackerInv
  <2>2. ThreadInv'
    BY DEF ThreadInv
  <2>3. PidInv'
    BY DEF PidInv
  <2>4. StopperInv'
    BY DEF StopperInv
  <2>5. ReleasedInv'
    BY DEF ReleasedInv
  <2>6. StopFileInv'
    BY DEF StopFileInv
  <2> QED
    BY <2>1, <2>2, <2>3, <2>4, <2>5, <2>6
<1>5. CASE Terminate(t)
  <2> USE <1>5 DEF Terminate, Dies
  <2>1. TrackerInv'
    BY DEF TrackerInv
  <2>2. ThreadInv'
    BY DEF ThreadInv
  <2>3. PidInv'
    BY DEF PidInv
  <2>4. StopperInv'
    BY DEF StopperInv
  <2>5. ReleasedInv'
    BY DEF ReleasedInv
  <2>6. StopFileInv'
    BY DEF StopFileInv
  <2> QED
    BY <2>1, <2>2, <2>3, <2>4, <2>5, <2>6
<1>6. CASE RemoveStopFile(t)
  <2> USE <1>6 DEF RemoveStopFile
  <2>1. TrackerInv'
    BY DEF TrackerInv
  <2>2. ThreadInv'
    BY DEF ThreadInv
  <2>3. PidInv'
    BY DEF PidInv
  <2>4. StopperInv'
    BY DEF StopperInv
  <2>5. ReleasedInv'
    BY DEF ReleasedInv
  <2>6. StopFileInv'
    BY DEF StopFileInv
  <2> QED
    BY <2>1, <2>2, <2>3, <2>4, <2>5, <2>6
<1>7. CASE ForgetTracker(t)
  <2> USE <1>7 DEF ForgetTracker
  <2>1. TrackerInv'
    BY DEF TrackerInv
  <2>2. ThreadInv'
    BY DEF ThreadInv
  <2>3. PidInv'
    BY DEF PidInv
  <2>4. StopperInv'
    BY DEF StopperInv
  <2>5. ReleasedInv'
    BY DEF ReleasedInv
  <2>6. StopFileInv'
    BY DEF StopFileInv
  <2> QED
    BY <2>1, <2>2, <2>3, <2>4, <2>5, <2>6
<1>8. CASE ReadRigPid(t)
  <2> USE <1>8 DEF ReadRigPid
  <2>1. TrackerInv'
    BY DEF TrackerInv
  <2>2. ThreadInv'
    BY DEF PidInv, ReleasedInv, ThreadInv
  <2>3. PidInv'
    BY DEF PidInv
  <2>4. StopperInv'
    BY DEF PidInv, StopperInv
  <2>5. ReleasedInv'
    BY DEF PidInv, ReleasedInv
  <2>6. StopFileInv'
    BY DEF StopFileInv
  <2> QED
    BY <2>1, <2>2, <2>3, <2>4, <2>5, <2>6
<1>9. CASE KillRig(t)
  <2> USE <1>9 DEF KillRig
  <2>1. TrackerInv'
    BY DEF TrackerInv
  <2>2. ThreadInv'
    BY DEF ThreadInv
  <2>3. PidInv'
    BY DEF PidInv
  <2>4. StopperInv'
    BY DEF StopperInv
  <2>5. ReleasedInv'
    BY DEF ReleasedInv
  <2>6. StopFileInv'
    BY DEF StopFileInv
  <2> QED
    BY <2>1, <2>2, <2>3, <2>4, <2>5, <2>6
<1>10. CASE DropRigPid(t)
  <2> USE <1>10 DEF DropRigPid
  <2>1. TrackerInv'
    BY DEF TrackerInv
  <2>2. ThreadInv'
    BY DEF ThreadInv
  <2>3. PidInv'
    BY DEF PidInv, StopperInv, ThreadInv, TrackerInv
  <2>4. StopperInv'
    BY DEF StopperInv
  <2>5. ReleasedInv'
    BY DEF ReleasedInv
  <2>6. StopFileInv'
    BY DEF StopFileInv
  <2> QED
    BY <2>1, <2>2, <2>3, <2>4, <2>5, <2>6
<1>11. CASE ReadProgPid(t)
  <2> USE <1>11 DEF ReadProgPid, After
  <2>1. TrackerInv'
    BY DEF TrackerInv
  <2>2. ThreadInv'
    BY DEF PidInv, ReleasedInv, ThreadInv
  <2>3. PidInv'
    BY DEF PidInv
  <2>4. StopperInv'
    BY DEF PidInv, StopperInv
  <2>5. ReleasedInv'
    BY DEF ReleasedInv
  <2>6. StopFileInv'
    BY DEF StopFileInv
  <2> QED
    BY <2>1, <2>2, <2>3, <2>4, <2>5, <2>6
<1>12. CASE KillProgram(t)
  <2> USE <1>12 DEF KillProgram
  <2>1. TrackerInv'
    BY DEF TrackerInv
  <2>2. ThreadInv'
    BY DEF ThreadInv
  <2>3. PidInv'
    BY DEF PidInv
  <2>4. StopperInv'
    BY DEF StopperInv
  <2>5. ReleasedInv'
    BY DEF ReleasedInv
  <2>6. StopFileInv'
    BY DEF StopFileInv
  <2> QED
    BY <2>1, <2>2, <2>3, <2>4, <2>5, <2>6
<1>13. CASE DropProgPid(t)
  <2> USE <1>13 DEF DropProgPid, After
  <2>1. TrackerInv'
    BY DEF TrackerInv
  <2>2. ThreadInv'
    BY DEF ThreadInv
  <2>3. PidInv'
    BY DEF PidInv, StopperInv, ThreadInv, TrackerInv
  <2>4. StopperInv'
    BY DEF StopperInv
  <2>5. ReleasedInv'
    BY DEF ReleasedInv
  <2>6. StopFileInv'
    BY DEF StopFileInv
  <2> QED
    BY <2>1, <2>2, <2>3, <2>4, <2>5, <2>6
<1> QED
  BY <1>1, <1>2, <1>3, <1>4, <1>5, <1>6, <1>7, <1>8, <1>9, <1>10, <1>11, <1>12, <1>13 DEF Stop

LEMMA TrackerTidy ==
  ASSUME TypedInv, Tidy, NEW n \in Passes, Tracker(n)
  PROVE  Tidy'
<1> USE PassProcessesAssumption DEF Tidy, TypedInv, TypeOK, HandleInv, Goto, threadVars, consoleVars, files, history,
      Thread, AtTracker, AtHelper, Passes, OrNone, Waiting, Alive, Becomes
<1>1. CASE StartRig(n)
  <2> USE <1>1 DEF StartRig
  <2>1. TrackerInv'
    BY DEF TrackerInv
  <2>2. ThreadInv'
    BY DEF ThreadInv
  <2>3. PidInv'
    BY DEF PidInv
  <2>4. StopperInv'
    BY DEF StopperInv
  <2>5. ReleasedInv'
    BY DEF ReleasedInv
  <2>6. StopFileInv'
    BY DEF StopFileInv
  <2> QED
    BY <2>1, <2>2, <2>3, <2>4, <2>5, <2>6
<1>2. CASE NameRig(n)
  <2> USE <1>2 DEF NameRig
  <2>1. TrackerInv'
    BY DEF TrackerInv
  <2>2. ThreadInv'
    BY DEF ThreadInv
  <2>3. PidInv'
    BY DEF PidInv, TrackerInv
  <2>4. StopperInv'
    BY DEF StopperInv
  <2>5. ReleasedInv'
    BY DEF ReleasedInv, TrackerInv
  <2>6. StopFileInv'
    BY DEF StopFileInv
  <2> QED
    BY <2>1, <2>2, <2>3, <2>4, <2>5, <2>6
<1>3. CASE StartProgram(n)
  <2> USE <1>3 DEF StartProgram
  <2>1. TrackerInv'
    BY DEF TrackerInv
  <2>2. ThreadInv'
    BY DEF ThreadInv
  <2>3. PidInv'
    BY DEF PidInv
  <2>4. StopperInv'
    BY DEF StopperInv
  <2>5. ReleasedInv'
    BY DEF ReleasedInv
  <2>6. StopFileInv'
    BY DEF StopFileInv
  <2> QED
    BY <2>1, <2>2, <2>3, <2>4, <2>5, <2>6
<1>4. CASE NameProgram(n)
  <2> USE <1>4 DEF NameProgram
  <2>1. TrackerInv'
    BY DEF TrackerInv
  <2>2. ThreadInv'
    BY DEF ThreadInv
  <2>3. PidInv'
    BY DEF PidInv, TrackerInv
  <2>4. StopperInv'
    BY DEF StopperInv
  <2>5. ReleasedInv'
    BY DEF ReleasedInv, TrackerInv
  <2>6. StopFileInv'
    BY DEF StopFileInv
  <2> QED
    BY <2>1, <2>2, <2>3, <2>4, <2>5, <2>6
<1>5. CASE HeedStop(n)
  <2> USE <1>5 DEF HeedStop
  <2>1. TrackerInv'
    BY DEF TrackerInv
  <2>2. ThreadInv'
    BY DEF ThreadInv
  <2>3. PidInv'
    BY DEF PidInv
  <2>4. StopperInv'
    BY DEF StopperInv
  <2>5. ReleasedInv'
    BY DEF ReleasedInv
  <2>6. StopFileInv'
    BY DEF StopFileInv
  <2> QED
    BY <2>1, <2>2, <2>3, <2>4, <2>5, <2>6
<1>6. CASE LeaveLoop(n)
  <2> USE <1>6 DEF LeaveLoop
  <2>1. TrackerInv'
    BY DEF TrackerInv
  <2>2. ThreadInv'
    BY DEF ThreadInv
  <2>3. PidInv'
    BY DEF PidInv
  <2>4. StopperInv'
    BY DEF StopperInv
  <2>5. ReleasedInv'
    BY DEF ReleasedInv
  <2>6. StopFileInv'
    BY DEF StopFileInv
  <2> QED
    BY <2>1, <2>2, <2>3, <2>4, <2>5, <2>6
<1>7. CASE StopReceivers(n)
  <2> USE <1>7 DEF StopReceivers
  <2>1. TrackerInv'
    BY DEF TrackerInv
  <2>2. ThreadInv'
    BY DEF ThreadInv
  <2>3. PidInv'
    BY DEF PidInv
  <2>4. StopperInv'
    BY DEF StopperInv
  <2>5. ReleasedInv'
    BY DEF ReleasedInv
  <2>6. StopFileInv'
    BY DEF StopFileInv
  <2> QED
    BY <2>1, <2>2, <2>3, <2>4, <2>5, <2>6
<1>8. CASE StopProgram(n)
  <2> USE <1>8 DEF StopProgram
  <2>1. TrackerInv'
    BY DEF TrackerInv
  <2>2. ThreadInv'
    BY DEF ThreadInv
  <2>3. PidInv'
    BY DEF PidInv
  <2>4. StopperInv'
    BY DEF StopperInv
  <2>5. ReleasedInv'
    BY DEF ReleasedInv
  <2>6. StopFileInv'
    BY DEF StopFileInv
  <2> QED
    BY <2>1, <2>2, <2>3, <2>4, <2>5, <2>6
<1>9. CASE DropProgram(n)
  <2> USE <1>9 DEF DropProgram
  <2>1. TrackerInv'
    BY DEF TrackerInv
  <2>2. ThreadInv'
    BY DEF ThreadInv
  <2>3. PidInv'
    BY DEF PidInv, TrackerInv
  <2>4. StopperInv'
    BY DEF StopperInv
  <2>5. ReleasedInv'
    BY DEF ReleasedInv
  <2>6. StopFileInv'
    BY DEF StopFileInv
  <2> QED
    BY <2>1, <2>2, <2>3, <2>4, <2>5, <2>6
<1>10. CASE StopRig(n)
  <2> USE <1>10 DEF StopRig
  <2>1. TrackerInv'
    BY DEF TrackerInv
  <2>2. ThreadInv'
    BY DEF ThreadInv
  <2>3. PidInv'
    BY DEF PidInv
  <2>4. StopperInv'
    BY DEF StopperInv
  <2>5. ReleasedInv'
    BY DEF ReleasedInv
  <2>6. StopFileInv'
    BY DEF StopFileInv
  <2> QED
    BY <2>1, <2>2, <2>3, <2>4, <2>5, <2>6
<1>11. CASE DropRig(n)
  <2> USE <1>11 DEF DropRig
  <2>1. TrackerInv'
    BY DEF TrackerInv
  <2>2. ThreadInv'
    BY DEF ThreadInv
  <2>3. PidInv'
    BY DEF PidInv, TrackerInv
  <2>4. StopperInv'
    BY DEF StopperInv
  <2>5. ReleasedInv'
    BY DEF ReleasedInv
  <2>6. StopFileInv'
    BY DEF StopFileInv
  <2> QED
    BY <2>1, <2>2, <2>3, <2>4, <2>5, <2>6
<1>12. CASE Finish(n)
  <2> USE <1>12 DEF Finish
  <2>1. TrackerInv'
    BY DEF TrackerInv
  <2>2. ThreadInv'
    BY DEF ThreadInv
  <2>3. PidInv'
    BY DEF PidInv
  <2>4. StopperInv'
    BY DEF StopperInv
  <2>5. ReleasedInv'
    BY DEF ReleasedInv
  <2>6. StopFileInv'
    BY DEF StopFileInv
  <2> QED
    BY <2>1, <2>2, <2>3, <2>4, <2>5, <2>6
<1>13. CASE TrackerDies(n)
  <2> USE <1>13 DEF TrackerDies, Dies
  <2>1. TrackerInv'
    BY DEF TrackerInv
  <2>2. ThreadInv'
    BY DEF ThreadInv
  <2>3. PidInv'
    BY DEF PidInv
  <2>4. StopperInv'
    BY DEF StopperInv
  <2>5. ReleasedInv'
    BY DEF ReleasedInv
  <2>6. StopFileInv'
    BY DEF StopFileInv
  <2> QED
    BY <2>1, <2>2, <2>3, <2>4, <2>5, <2>6
<1>14. CASE HelperEnds(n)
  <2> USE <1>14 DEF HelperEnds
  <2>1. TrackerInv'
    BY DEF TrackerInv
  <2>2. ThreadInv'
    BY DEF ThreadInv
  <2>3. PidInv'
    BY DEF PidInv
  <2>4. StopperInv'
    BY DEF StopperInv
  <2>5. ReleasedInv'
    BY DEF ReleasedInv
  <2>6. StopFileInv'
    BY DEF StopFileInv
  <2> QED
    BY <2>1, <2>2, <2>3, <2>4, <2>5, <2>6
<1> QED
  BY <1>1, <1>2, <1>3, <1>4, <1>5, <1>6, <1>7, <1>8, <1>9, <1>10, <1>11, <1>12, <1>13, <1>14 DEF Tracker

LEMMA MainTidy ==
  ASSUME TypedInv, Tidy, 
         \/ RunPass
         \/ ClearStopFile
         \/ Launch
         \/ LaunchFails
         \/ PassOver
         \/ LeaveMainLoop
         \/ RequestShutdown
         \/ Restart
  PROVE  Tidy'
<1> USE PassProcessesAssumption DEF Tidy, TypedInv, TypeOK, HandleInv, Goto, threadVars, consoleVars, files, history,
      Thread, AtTracker, AtHelper, Passes, OrNone, Waiting, Alive
<1>1. CASE RunPass
  <2> USE <1>1 DEF RunPass
  <2>1. TrackerInv'
    BY DEF TrackerInv
  <2>2. ThreadInv'
    BY DEF ThreadInv
  <2>3. PidInv'
    BY DEF PidInv
  <2>4. StopperInv'
    BY DEF StopperInv
  <2>5. ReleasedInv'
    BY DEF ReleasedInv
  <2>6. StopFileInv'
    BY DEF StopFileInv
  <2> QED
    BY <2>1, <2>2, <2>3, <2>4, <2>5, <2>6
<1>2. CASE ClearStopFile
  <2> USE <1>2 DEF ClearStopFile
  <2>1. TrackerInv'
    BY DEF TrackerInv
  <2>2. ThreadInv'
    BY DEF ThreadInv
  <2>3. PidInv'
    BY DEF PidInv
  <2>4. StopperInv'
    BY DEF StopperInv
  <2>5. ReleasedInv'
    BY DEF ReleasedInv
  <2>6. StopFileInv'
    BY DEF StopFileInv
  <2> QED
    BY <2>1, <2>2, <2>3, <2>4, <2>5, <2>6
<1>3. CASE Launch
  <2> USE <1>3 DEF Launch
  <2>1. TrackerInv'
    BY DEF ThreadInv, TrackerInv
  <2>2. ThreadInv'
    BY DEF ThreadInv
  <2>3. PidInv'
    BY DEF PidInv, ReleasedInv, TrackerInv
  <2>4. StopperInv'
    BY DEF StopperInv, ThreadInv
  <2>5. ReleasedInv'
    BY DEF ReleasedInv
  <2>6. StopFileInv'
    BY DEF StopFileInv
  <2> QED
    BY <2>1, <2>2, <2>3, <2>4, <2>5, <2>6
<1>4. CASE LaunchFails
  <2> USE <1>4 DEF LaunchFails
  <2>1. TrackerInv'
    BY DEF TrackerInv
  <2>2. ThreadInv'
    BY DEF ThreadInv
  <2>3. PidInv'
    BY DEF PidInv
  <2>4. StopperInv'
    BY DEF StopperInv
  <2>5. ReleasedInv'
    BY DEF ReleasedInv
  <2>6. StopFileInv'
    BY DEF StopFileInv
  <2> QED
    BY <2>1, <2>2, <2>3, <2>4, <2>5, <2>6
<1>5. CASE PassOver
  <2> USE <1>5 DEF PassOver
  <2>1. TrackerInv'
    BY DEF TrackerInv
  <2>2. ThreadInv'
    BY DEF ThreadInv
  <2>3. PidInv'
    BY DEF PidInv
  <2>4. StopperInv'
    BY DEF StopperInv
  <2>5. ReleasedInv'
    BY DEF ReleasedInv
  <2>6. StopFileInv'
    BY DEF StopFileInv
  <2> QED
    BY <2>1, <2>2, <2>3, <2>4, <2>5, <2>6
<1>6. CASE LeaveMainLoop
  <2> USE <1>6 DEF LeaveMainLoop
  <2>1. TrackerInv'
    BY DEF TrackerInv
  <2>2. ThreadInv'
    BY DEF ThreadInv
  <2>3. PidInv'
    BY DEF PidInv
  <2>4. StopperInv'
    BY DEF StopperInv
  <2>5. ReleasedInv'
    BY DEF ReleasedInv
  <2>6. StopFileInv'
    BY DEF StopFileInv
  <2> QED
    BY <2>1, <2>2, <2>3, <2>4, <2>5, <2>6
<1>7. CASE RequestShutdown
  <2> USE <1>7 DEF RequestShutdown
  <2>1. TrackerInv'
    BY DEF TrackerInv
  <2>2. ThreadInv'
    BY DEF ThreadInv
  <2>3. PidInv'
    BY DEF PidInv
  <2>4. StopperInv'
    BY DEF StopperInv
  <2>5. ReleasedInv'
    BY DEF ReleasedInv
  <2>6. StopFileInv'
    BY DEF StopFileInv
  <2> QED
    BY <2>1, <2>2, <2>3, <2>4, <2>5, <2>6
<1>8. CASE Restart
  <2> USE <1>8 DEF Restart, NewConsole
  <2>1. TrackerInv'
    BY DEF TrackerInv
  <2>2. ThreadInv'
    BY DEF ThreadInv
  <2>3. PidInv'
    BY DEF PidInv
  <2>4. StopperInv'
    BY DEF StopperInv
  <2>5. ReleasedInv'
    BY DEF ReleasedInv
  <2>6. StopFileInv'
    BY DEF StopFileInv
  <2> QED
    BY <2>1, <2>2, <2>3, <2>4, <2>5, <2>6
<1> QED
  BY <1>1, <1>2, <1>3, <1>4, <1>5, <1>6, <1>7, <1>8

\* A killed console that leaves nothing: the next one begins as the first did,
\* but for the stop file.
LEMMA CrashTidy == ASSUME TypedInv, Tidy, Crash, ~orphaned' PROVE Tidy'
<1> USE DEF TypedInv, TypeOK, Crash, NewConsole, Thread, Alive, files
<1>1. /\ ~Left
      /\ UNCHANGED <<pass, tracker, rigctld, program, files, asked, heeded, unnamed>>
      /\ \A t \in Thread : pc'[t] = "idle" /\ target'[t] = 0
      /\ quit' = FALSE /\ cur' = 0
  OBVIOUS
<1>2. /\ \A n \in Passes : ~Alive(n) /\ n \notin rigctld /\ n \notin program
      /\ rigPid = 0 /\ progPid = 0
  BY <1>1 DEF Left
<1>3. TrackerInv' /\ StopFileInv'
  BY <1>1, <1>2 DEF Tidy, TrackerInv, StopFileInv
<1>4. ThreadInv' /\ ReleasedInv'
  BY <1>1, <1>2 DEF ThreadInv, ReleasedInv, AtHelper, Waiting
<1>5. PidInv'
  BY <1>1, <1>2 DEF PidInv, Passes
<1>6. StopperInv'
  BY <1>1 DEF StopperInv
<1> QED
  BY <1>3, <1>4, <1>5, <1>6 DEF Tidy

LEMMA IdleStep == ASSUME IInv, UNCHANGED vars PROVE IInv'
<1> USE DEF vars, threadVars, consoleVars, files, history
<1>1. TypeOK' /\ HandleInv' /\ orphaned' = orphaned
  BY DEF IInv, TypeOK, HandleInv
<1>2. ASSUME Tidy PROVE Tidy'
  BY <1>2 DEF Tidy, TrackerInv, ThreadInv, PidInv, StopperInv, ReleasedInv, StopFileInv, Alive
<1> QED
  BY <1>1, <1>2 DEF IInv

THEOREM Invariant == Spec => []IInv
<1>1. Init => IInv
  BY Start
<1>2. IInv /\ [Next]_vars => IInv'
  <2> SUFFICES ASSUME IInv, [Next]_vars PROVE IInv'
    OBVIOUS
  <2>1. TypedInv
    BY DEF IInv, TypedInv
  <2>2. ASSUME NEW t \in Thread, Stop(t) PROVE IInv'
    <3>1. TypedInv'
      BY <2>1, <2>2, StopTypes
    <3>2. orphaned' = orphaned
      BY <2>2 DEF Stop, ReadCurrent, Poll, WriteStopFile, Awaited, Terminate, RemoveStopFile,
         ForgetTracker, ReadRigPid, KillRig, DropRigPid, ReadProgPid, KillProgram,
         DropProgPid, history
    <3>3. Tidy => Tidy'
      BY <2>1, <2>2, StopTidy
    <3> QED
      BY <3>1, <3>2, <3>3 DEF IInv, TypedInv
  <2>3. ASSUME NEW n \in Passes, Tracker(n) PROVE IInv'
    <3>1. TypedInv'
      BY <2>1, <2>3, TrackerTypes
    <3>2. orphaned' = orphaned
      BY <2>3 DEF Tracker, StartRig, NameRig, StartProgram, NameProgram, HeedStop, LeaveLoop,
         StopReceivers, StopProgram, DropProgram, StopRig, DropRig, Finish, TrackerDies,
         HelperEnds, history
    <3>3. Tidy => Tidy'
      BY <2>1, <2>3, TrackerTidy
    <3> QED
      BY <3>1, <3>2, <3>3 DEF IInv, TypedInv
  <2>4. CASE \/ RunPass \/ ClearStopFile \/ Launch \/ LaunchFails \/ PassOver
             \/ LeaveMainLoop \/ RequestShutdown \/ Restart
    <3>1. TypedInv'
      BY <2>1, <2>4, MainTypes
    <3>2. orphaned' = orphaned
      BY <2>4 DEF RunPass, ClearStopFile, Launch, LaunchFails, PassOver, LeaveMainLoop,
         RequestShutdown, Restart, history
    <3>3. Tidy => Tidy'
      BY <2>1, <2>4, MainTidy
    <3> QED
      BY <3>1, <3>2, <3>3 DEF IInv, TypedInv
  <2>5. CASE Crash
    <3>1. TypedInv'
      BY <2>1, <2>5, MainTypes
    <3>2. ~orphaned' => ~orphaned
      BY <2>1, <2>5 DEF Crash, TypedInv, TypeOK
    <3>3. ~orphaned' => Tidy'
      BY <2>1, <2>5, <3>2, CrashTidy DEF IInv
    <3> QED
      BY <3>1, <3>3 DEF IInv, TypedInv
  <2>6. CASE UNCHANGED vars
    BY <2>6, IdleStep
  <2>7. "main" \in Thread /\ "web" \in Thread
    BY DEF Thread
  <2> QED
    BY <2>2, <2>3, <2>4, <2>5, <2>6, <2>7 DEF Next, Main
<1> QED
  BY <1>1, <1>2, PTL DEF Spec

\* Every variable keeps its type, whatever a killed console left behind.
THEOREM TypeCorrect == Spec => []TypeOK
<1>1. IInv => TypeOK
  BY DEF IInv
<1> QED
  BY <1>1, Invariant, PTL

\* No tracker leaves its loop for a stop file that was not written for it: a
\* web thread that has found a tracker to stop keeps the scheduler from
\* launching the next one, since shutdown is set before it looks.
THEOREM StaleSafe == Spec => []NoStaleStop
<1>1. IInv => NoStaleStop
  BY DEF IInv, Tidy, StopFileInv, NoStaleStop
<1> QED
  BY <1>1, Invariant, PTL

\* What a dead tracker left alive is named by a pid file: the two threads that
\* remove the files only ever remove the name of what they have killed.
THEOREM TraceSafe == Spec => []Traceable
<1>1. IInv => Traceable
  BY DEF IInv, Tidy, PidInv, Traceable
<1> QED
  BY <1>1, Invariant, PTL

\* Between passes and after an exit no tracker is alive and no named helper.
THEOREM ReleaseSafe == Spec => []Released
<1>1. ASSUME IInv, ~orphaned, pc["main"] \in {"idle", "clear", "launch", "gone"}
      PROVE  (\A n \in Passes : ~Alive(n)) /\ rigctld \cup program \subseteq unnamed
  <2>1. \A n \in Passes : ~Alive(n)
    BY <1>1 DEF IInv, Tidy, TrackerInv, Waiting
  <2>2. rigPid = 0 /\ progPid = 0
    BY <1>1 DEF IInv, Tidy, ReleasedInv
  <2>3. \A n \in Passes : n \in rigctld \/ n \in program => n \in unnamed
    BY <1>1, <2>1, <2>2 DEF IInv, Tidy, PidInv, Alive, Passes
  <2>4. rigctld \subseteq Passes /\ program \subseteq Passes
    BY <1>1 DEF IInv, TypeOK
  <2> QED
    BY <2>1, <2>3, <2>4
<1>2. IInv => Released
  BY <1>1 DEF Released
<1> QED
  BY <1>2, Invariant, PTL

\* No two trackers are alive, and what a thread of the console is stopping, tracker
\* or helper, is the last pass's, however long ago it read which one that was.
StopsItsOwn ==
    ~orphaned =>
        /\ \A m, n \in Passes : Alive(m) /\ Alive(n) => m = n
        /\ \A t \in Thread : pc[t] \in AtTracker \cup AtHelper => target[t] = pass

\* A pass's processes are stopped by whoever is told to, and never the next pass's:
\* neither by the end of run_pass nor by request_shutdown's own cleanup.
THEOREM OwnSafe == Spec => []StopsItsOwn
<1>1. ASSUME IInv, ~orphaned, NEW m \in Passes, NEW n \in Passes, Alive(m), Alive(n)
      PROVE  m = n
  <2>1. m \in Nat /\ n \in Nat /\ pass \in Nat
    BY <1>1, PassProcessesAssumption DEF IInv, TypeOK, Passes, OrNone
  <2>2. \A k \in Passes : Alive(k) => ~(k < pass) /\ ~(k > pass)
    BY <1>1 DEF IInv, Tidy, TrackerInv, Alive
  <2> QED
    BY <1>1, <2>1, <2>2
<1>2. ASSUME IInv, ~orphaned, NEW t \in Thread, pc[t] \in AtTracker \cup AtHelper
      PROVE  target[t] = pass
  <2>1. target[t] \in Passes /\ target[t] # 0
    BY <1>2, PassProcessesAssumption DEF IInv, HandleInv, Passes
  <2>2. CASE t = "main"
    BY <1>2, <2>2 DEF IInv, Tidy, ThreadInv, AtTracker
  <2>3. CASE t = "web"
    BY <1>2, <2>1, <2>3 DEF IInv, Tidy, ThreadInv, AtTracker, AtHelper
  <2> QED
    BY <2>2, <2>3 DEF Thread
<1>3. IInv => StopsItsOwn
  BY <1>1, <1>2 DEF StopsItsOwn
<1> QED
  BY <1>3, Invariant, PTL
=============================================================================
