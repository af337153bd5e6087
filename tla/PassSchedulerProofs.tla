------------------------ MODULE PassSchedulerProofs ------------------------
(***************************************************************************)
(* For any number of web threads, passes and helpers, and whether or not   *)
(* an exception may escape from the main loop.                             *)
(***************************************************************************)
EXTENDS PassScheduler, TLAPS

LEMMA ThreadKinds == Main \in Threads /\ Web \subseteq Threads
BY DEF Threads


LEMMA FlagStep == FlagType /\ [Next]_vars => FlagType'
<1> SUFFICES ASSUME FlagType, [Next]_vars PROVE FlagType'
  OBVIOUS
<1> USE DEF FlagType, StopIdle, appVars, lockVars, idleVars, passVars
<1>1. CASE KeepWaiting
  BY <1>1 DEF KeepWaiting
<1>2. CASE NewHead
  BY <1>2 DEF NewHead
<1>3. CASE PassDue
  BY <1>3 DEF PassDue
<1>4. CASE LeaveLoop
  BY <1>4 DEF LeaveLoop
<1>5. CASE StopOldIdle
  BY <1>5 DEF StopOldIdle
<1>6. CASE IdlePause
  BY <1>6 DEF IdlePause
<1>7. CASE BeginIdleStatus
  BY <1>7 DEF BeginIdleStatus
<1>8. CASE StopIdleForPass
  BY <1>8 DEF StopIdleForPass
<1>9. CASE EnterRunPass
  BY <1>9 DEF EnterRunPass
<1>10. CASE ClaimStation
  BY <1>10 DEF ClaimStation
<1>11. CASE StopRecorderForPass
  BY <1>11 DEF StopRecorderForPass
<1>12. CASE HandOver
  BY <1>12 DEF HandOver
<1>13. CASE ClearPassEnd
  BY <1>13 DEF ClearPassEnd
<1>14. CASE ExposePass
  BY <1>14 DEF ExposePass
<1>15. CASE LaunchTracker
  BY <1>15 DEF LaunchTracker
<1>16. CASE LaunchFails
  BY <1>16 DEF LaunchFails
<1>17. CASE PassOver
  BY <1>17 DEF PassOver
<1>18. CASE MarkEnded
  BY <1>18 DEF MarkEnded
<1>19. CASE StopTracker
  BY <1>19 DEF StopTracker
<1>20. CASE CompletePass
  BY <1>20 DEF CompletePass
<1>21. CASE StopIdleAtExit
  BY <1>21 DEF StopIdleAtExit
<1>22. CASE ResetState
  BY <1>22 DEF ResetState
<1>23. CASE Exit
  BY <1>23 DEF Exit
<1>24. CASE Tick
  BY <1>24 DEF Tick
<1>25. CASE HelperEnds
  BY <1>25 DEF HelperEnds
<1>26. CASE RecorderEnds
  BY <1>26 DEF RecorderEnds
<1>27. CASE TrackerEnds
  BY <1>27 DEF TrackerEnds
<1>28. ASSUME NEW t \in Threads, TakePreset(t) PROVE FlagType'
  BY <1>28 DEF TakePreset
<1>29. ASSUME NEW t \in Threads, StopPrevious(t) PROVE FlagType'
  BY <1>29 DEF StopPrevious
<1>30. ASSUME NEW t \in Threads, Program(t) PROVE FlagType'
  BY <1>30 DEF Program
<1>31. ASSUME NEW t \in Threads, ProgramFails(t) PROVE FlagType'
  BY <1>31 DEF ProgramFails
<1>32. ASSUME NEW t \in Threads, StartReceivers(t) PROVE FlagType'
  BY <1>32 DEF StartReceivers
<1>33. ASSUME NEW t \in Threads, TuningDelay(t) PROVE FlagType'
  BY <1>33 DEF TuningDelay
<1>34. ASSUME NEW t \in Threads, SpawnHelper(t) PROVE FlagType'
  BY <1>34 DEF SpawnHelper
<1>35. ASSUME NEW t \in Threads, CleanRecorder(t) PROVE FlagType'
  BY <1>35 DEF CleanRecorder
<1>36. ASSUME NEW t \in Threads, CleanTracker(t) PROVE FlagType'
  BY <1>36 DEF CleanTracker
<1>37. ASSUME NEW t \in Threads, CleanTrackerStopped(t) PROVE FlagType'
  BY <1>37 DEF CleanTrackerStopped
<1>38. ASSUME NEW t \in Threads, ForgetTracker(t) PROVE FlagType'
  BY <1>38 DEF ForgetTracker
<1>39. ASSUME NEW t \in Threads, ReadIdle(t) PROVE FlagType'
  BY <1>39 DEF ReadIdle
<1>40. ASSUME NEW t \in Threads, CleanIdle(t) PROVE FlagType'
  BY <1>40 DEF CleanIdle
<1>41. ASSUME NEW t \in Threads, ForgetIdle(t) PROVE FlagType'
  BY <1>41 DEF ForgetIdle
<1>42. ASSUME NEW t \in Threads, KillFromPidFile(t) PROVE FlagType'
  BY <1>42 DEF KillFromPidFile
<1>43. ASSUME NEW t \in Threads, CleanStatus(t) PROVE FlagType'
  BY <1>43 DEF CleanStatus
<1>44. ASSUME NEW w \in Web, UpdateIdleStatus(w) PROVE FlagType'
  BY <1>44 DEF UpdateIdleStatus
<1>45. ASSUME NEW w \in Web, UpdateIdleStatusFails(w) PROVE FlagType'
  BY <1>45 DEF UpdateIdleStatusFails
<1>46. ASSUME NEW w \in Web, PresetFailed(w) PROVE FlagType'
  BY <1>46 DEF PresetFailed
<1>47. ASSUME NEW w \in Web, Shorten(w) PROVE FlagType'
  BY <1>47 DEF Shorten
<1>48. ASSUME NEW w \in Web, PublishNewKey(w) PROVE FlagType'
  BY <1>48 DEF PublishNewKey
<1>49. ASSUME NEW w \in Web, RaisePassEnd(w) PROVE FlagType'
  BY <1>49 DEF RaisePassEnd
<1>50. ASSUME NEW w \in Web, StartRecorder(w) PROVE FlagType'
  BY <1>50 DEF StartRecorder
<1>51. ASSUME NEW w \in Web, PresetRequest(w) PROVE FlagType'
  BY <1>51 DEF PresetRequest
<1>52. ASSUME NEW w \in Web, InsertTestPass(w) PROVE FlagType'
  BY <1>52 DEF InsertTestPass
<1>53. ASSUME NEW w \in Web, EndRequest(w) PROVE FlagType'
  BY <1>53 DEF EndRequest
<1>54. ASSUME NEW w \in Web, RecordRequest(w) PROVE FlagType'
  BY <1>54 DEF RecordRequest
<1>55. ASSUME NEW w \in Web, StopRecorder(w) PROVE FlagType'
  BY <1>55 DEF StopRecorder
<1>56. ASSUME NEW w \in Web, ShutdownRequest(w) PROVE FlagType'
  BY <1>56 DEF ShutdownRequest
<1>57. CASE UNCHANGED vars
  BY <1>57 DEF vars
<1>58. CASE Reschedule
  BY <1>58 DEF Reschedule
<1> QED
  BY <1>1, <1>2, <1>3, <1>4, <1>5, <1>6, <1>7, <1>8, <1>9, <1>10, <1>11, <1>12, <1>13, <1>14, <1>15, <1>16, <1>17, <1>18, <1>19, <1>20, <1>21, <1>22, <1>23, <1>24, <1>25, <1>26, <1>27, <1>28, <1>29, <1>30, <1>31, <1>32, <1>33, <1>34, <1>35, <1>36, <1>37, <1>38, <1>39, <1>40, <1>41, <1>42, <1>43, <1>44, <1>45, <1>46, <1>47, <1>48, <1>49, <1>50, <1>51, <1>52, <1>53, <1>54, <1>55, <1>56, <1>57, <1>58 DEF Next, MainStep, WebWork, WebRequest, Environment, Apply, Clean, Exited, Threads

LEMMA DataStep == DataType /\ EntryInv /\ [Next]_vars => DataType'
<1> SUFFICES ASSUME DataType, EntryInv, [Next]_vars PROVE DataType'
  OBVIOUS
<1> USE ThreadKinds, PassAssumption DEF DataType, StopIdle, appVars, lockVars, idleVars, passVars
<1>1. CASE KeepWaiting
  BY <1>1 DEF KeepWaiting, Expired
<1>2. CASE NewHead
  BY <1>2 DEF NewHead, Expired, Heads, Pending
<1>3. CASE PassDue
  <2>1. PICK p \in passes : entry' = p
    BY <1>3 DEF PassDue, Heads, Pending
  <2>2. entry' \in Pass /\ entry'.id \in PassIds
    BY <2>1 DEF Pass
  <2> QED
    BY <1>3, <2>2 DEF PassDue, Expired
<1>4. CASE LeaveLoop
  BY <1>4 DEF LeaveLoop
<1>5. CASE StopOldIdle
  BY <1>5 DEF StopOldIdle
<1>6. CASE IdlePause
  BY <1>6 DEF IdlePause
<1>7. CASE BeginIdleStatus
  BY <1>7 DEF BeginIdleStatus
<1>8. CASE StopIdleForPass
  BY <1>8 DEF StopIdleForPass
<1>9. CASE EnterRunPass
  BY <1>9 DEF EnterRunPass
<1>10. CASE ClaimStation
  BY <1>10 DEF ClaimStation
<1>11. CASE StopRecorderForPass
  BY <1>11 DEF StopRecorderForPass
<1>12. CASE HandOver
  BY <1>12 DEF HandOver
<1>13. CASE ClearPassEnd
  BY <1>13 DEF ClearPassEnd
<1>14. CASE ExposePass
  BY <1>14 DEF ExposePass
<1>15. CASE LaunchTracker
  BY <1>15 DEF LaunchTracker, EntryInv, HandedOver, Goto
<1>16. CASE LaunchFails
  BY <1>16 DEF LaunchFails
<1>17. CASE PassOver
  BY <1>17 DEF PassOver
<1>18. CASE MarkEnded
  BY <1>18 DEF MarkEnded
<1>19. CASE StopTracker
  BY <1>19 DEF StopTracker
<1>20. CASE CompletePass
  BY <1>20 DEF CompletePass, EntryInv, HandedOver, Goto
<1>21. CASE StopIdleAtExit
  BY <1>21 DEF StopIdleAtExit
<1>22. CASE ResetState
  BY <1>22 DEF ResetState
<1>23. CASE Exit
  BY <1>23 DEF Exit
<1>24. CASE Tick
  BY <1>24 DEF Tick, Time
<1>25. CASE HelperEnds
  BY <1>25 DEF HelperEnds
<1>26. CASE RecorderEnds
  BY <1>26 DEF RecorderEnds
<1>27. CASE TrackerEnds
  BY <1>27 DEF TrackerEnds
<1>28. ASSUME NEW t \in Threads, TakePreset(t) PROVE DataType'
  BY <1>28 DEF TakePreset
<1>29. ASSUME NEW t \in Threads, StopPrevious(t) PROVE DataType'
  BY <1>29 DEF StopPrevious
<1>30. ASSUME NEW t \in Threads, Program(t) PROVE DataType'
  BY <1>30 DEF Program
<1>31. ASSUME NEW t \in Threads, ProgramFails(t) PROVE DataType'
  BY <1>31 DEF ProgramFails
<1>32. ASSUME NEW t \in Threads, StartReceivers(t) PROVE DataType'
  BY <1>32 DEF StartReceivers
<1>33. ASSUME NEW t \in Threads, TuningDelay(t) PROVE DataType'
  BY <1>33 DEF TuningDelay
<1>34. ASSUME NEW t \in Threads, SpawnHelper(t) PROVE DataType'
  BY <1>34 DEF SpawnHelper
<1>35. ASSUME NEW t \in Threads, CleanRecorder(t) PROVE DataType'
  BY <1>35 DEF CleanRecorder
<1>36. ASSUME NEW t \in Threads, CleanTracker(t) PROVE DataType'
  BY <1>36 DEF CleanTracker
<1>37. ASSUME NEW t \in Threads, CleanTrackerStopped(t) PROVE DataType'
  BY <1>37 DEF CleanTrackerStopped
<1>38. ASSUME NEW t \in Threads, ForgetTracker(t) PROVE DataType'
  BY <1>38 DEF ForgetTracker
<1>39. ASSUME NEW t \in Threads, ReadIdle(t) PROVE DataType'
  BY <1>39 DEF ReadIdle
<1>40. ASSUME NEW t \in Threads, CleanIdle(t) PROVE DataType'
  BY <1>40 DEF CleanIdle
<1>41. ASSUME NEW t \in Threads, ForgetIdle(t) PROVE DataType'
  BY <1>41 DEF ForgetIdle
<1>42. ASSUME NEW t \in Threads, KillFromPidFile(t) PROVE DataType'
  BY <1>42 DEF KillFromPidFile
<1>43. ASSUME NEW t \in Threads, CleanStatus(t) PROVE DataType'
  BY <1>43 DEF CleanStatus
<1>44. ASSUME NEW w \in Web, UpdateIdleStatus(w) PROVE DataType'
  BY <1>44 DEF UpdateIdleStatus
<1>45. ASSUME NEW w \in Web, UpdateIdleStatusFails(w) PROVE DataType'
  BY <1>45 DEF UpdateIdleStatusFails
<1>46. ASSUME NEW w \in Web, PresetFailed(w) PROVE DataType'
  BY <1>46 DEF PresetFailed
<1>47. ASSUME NEW w \in Web, Shorten(w) PROVE DataType'
  BY <1>47 DEF Shorten, Pass
<1>48. ASSUME NEW w \in Web, PublishNewKey(w) PROVE DataType'
  BY <1>48 DEF PublishNewKey
<1>49. ASSUME NEW w \in Web, RaisePassEnd(w) PROVE DataType'
  BY <1>49 DEF RaisePassEnd
<1>50. ASSUME NEW w \in Web, StartRecorder(w) PROVE DataType'
  BY <1>50 DEF StartRecorder
<1>51. ASSUME NEW w \in Web, PresetRequest(w) PROVE DataType'
  BY <1>51 DEF PresetRequest
<1>52. ASSUME NEW w \in Web, InsertTestPass(w) PROVE DataType'
  BY <1>52 DEF InsertTestPass, Pass, Time, PassIds
<1>53. ASSUME NEW w \in Web, EndRequest(w) PROVE DataType'
  BY <1>53 DEF EndRequest
<1>54. ASSUME NEW w \in Web, RecordRequest(w) PROVE DataType'
  BY <1>54 DEF RecordRequest
<1>55. ASSUME NEW w \in Web, StopRecorder(w) PROVE DataType'
  BY <1>55 DEF StopRecorder
<1>56. ASSUME NEW w \in Web, ShutdownRequest(w) PROVE DataType'
  BY <1>56 DEF ShutdownRequest
<1>57. CASE UNCHANGED vars
  BY <1>57 DEF vars
<1>58. CASE Reschedule
  <2>1. PICK kept \in SUBSET InitPasses, s \in Searches :
          passes' = {[p EXCEPT !.start = IF p.start + s.later < now THEN now ELSE p.start + s.later,
                               !.end = p.end + s.later] :
                       p \in {q \in kept : q.end + s.later \in now + 1 .. Horizon}}
    BY ONLY <1>58, Zenon DEF Reschedule
  <2>2. ASSUME NEW p \in kept, p.end + s.later \in now + 1 .. Horizon, p.start <= p.end
        PROVE  [p EXCEPT !.start = IF p.start + s.later < now THEN now ELSE p.start + s.later,
                         !.end = p.end + s.later] \in Pass
    <3>1. p \in [id : PassIds, start : Time, end : Time] /\ s.later \in Nat
      BY DEF Pass
    <3>2. p.start + s.later \in Time /\ p.end + s.later \in Time
      BY <2>2, <3>1 DEF Time
    <3> QED
      BY <3>1, <3>2 DEF Pass
  <2>3. \A p \in kept : p.start <= p.end
    OBVIOUS
  <2>4. passes' \subseteq Pass
    BY ONLY <2>1, <2>2, <2>3
  <2> QED
    BY <1>58, <2>4 DEF Reschedule
<1> QED
  BY <1>1, <1>2, <1>3, <1>4, <1>5, <1>6, <1>7, <1>8, <1>9, <1>10, <1>11, <1>12, <1>13, <1>14, <1>15, <1>16, <1>17, <1>18, <1>19, <1>20, <1>21, <1>22, <1>23, <1>24, <1>25, <1>26, <1>27, <1>28, <1>29, <1>30, <1>31, <1>32, <1>33, <1>34, <1>35, <1>36, <1>37, <1>38, <1>39, <1>40, <1>41, <1>42, <1>43, <1>44, <1>45, <1>46, <1>47, <1>48, <1>49, <1>50, <1>51, <1>52, <1>53, <1>54, <1>55, <1>56, <1>57, <1>58 DEF Next, MainStep, WebWork, WebRequest, Environment, Apply, Clean, Exited, Threads

LEMMA LabelStep == pc \in [Threads -> Label] /\ [Next]_vars => pc' \in [Threads -> Label]
<1> SUFFICES ASSUME pc \in [Threads -> Label], [Next]_vars PROVE pc' \in [Threads -> Label]
  OBVIOUS
<1> USE ThreadKinds DEF Goto, Label, MainOnly, WebOnly, Cleanup, Applying, Entering
<1>1. CASE KeepWaiting
  BY <1>1 DEF KeepWaiting
<1>2. CASE NewHead
  BY <1>2 DEF NewHead
<1>3. CASE PassDue
  BY <1>3 DEF PassDue
<1>4. CASE LeaveLoop
  BY <1>4 DEF LeaveLoop
<1>5. CASE StopOldIdle
  BY <1>5 DEF StopOldIdle
<1>6. CASE IdlePause
  BY <1>6 DEF IdlePause
<1>7. CASE BeginIdleStatus
  BY <1>7 DEF BeginIdleStatus
<1>8. CASE StopIdleForPass
  BY <1>8 DEF StopIdleForPass
<1>9. CASE EnterRunPass
  BY <1>9 DEF EnterRunPass
<1>10. CASE ClaimStation
  BY <1>10 DEF ClaimStation
<1>11. CASE StopRecorderForPass
  BY <1>11 DEF StopRecorderForPass
<1>12. CASE HandOver
  BY <1>12 DEF HandOver
<1>13. CASE ClearPassEnd
  BY <1>13 DEF ClearPassEnd
<1>14. CASE ExposePass
  BY <1>14 DEF ExposePass
<1>15. CASE LaunchTracker
  BY <1>15 DEF LaunchTracker
<1>16. CASE LaunchFails
  BY <1>16 DEF LaunchFails
<1>17. CASE PassOver
  BY <1>17 DEF PassOver
<1>18. CASE MarkEnded
  BY <1>18 DEF MarkEnded
<1>19. CASE StopTracker
  BY <1>19 DEF StopTracker
<1>20. CASE CompletePass
  BY <1>20 DEF CompletePass
<1>21. CASE StopIdleAtExit
  BY <1>21 DEF StopIdleAtExit
<1>22. CASE ResetState
  BY <1>22 DEF ResetState
<1>23. CASE Exit
  BY <1>23 DEF Exit
<1>24. CASE Tick
  BY <1>24 DEF Tick
<1>25. CASE HelperEnds
  BY <1>25 DEF HelperEnds
<1>26. CASE RecorderEnds
  BY <1>26 DEF RecorderEnds
<1>27. CASE TrackerEnds
  BY <1>27 DEF TrackerEnds
<1>28. ASSUME NEW t \in Threads, TakePreset(t) PROVE pc' \in [Threads -> Label]
  BY <1>28 DEF TakePreset
<1>29. ASSUME NEW t \in Threads, StopPrevious(t) PROVE pc' \in [Threads -> Label]
  BY <1>29 DEF StopPrevious
<1>30. ASSUME NEW t \in Threads, Program(t) PROVE pc' \in [Threads -> Label]
  BY <1>30 DEF Program
<1>31. ASSUME NEW t \in Threads, ProgramFails(t) PROVE pc' \in [Threads -> Label]
  BY <1>31 DEF ProgramFails
<1>32. ASSUME NEW t \in Threads, StartReceivers(t) PROVE pc' \in [Threads -> Label]
  BY <1>32 DEF StartReceivers
<1>33. ASSUME NEW t \in Threads, TuningDelay(t) PROVE pc' \in [Threads -> Label]
  BY <1>33 DEF TuningDelay
<1>34. ASSUME NEW t \in Threads, SpawnHelper(t) PROVE pc' \in [Threads -> Label]
  BY <1>34 DEF SpawnHelper
<1>35. ASSUME NEW t \in Threads, CleanRecorder(t) PROVE pc' \in [Threads -> Label]
  BY <1>35 DEF CleanRecorder
<1>36. ASSUME NEW t \in Threads, CleanTracker(t) PROVE pc' \in [Threads -> Label]
  BY <1>36 DEF CleanTracker
<1>37. ASSUME NEW t \in Threads, CleanTrackerStopped(t) PROVE pc' \in [Threads -> Label]
  BY <1>37 DEF CleanTrackerStopped
<1>38. ASSUME NEW t \in Threads, ForgetTracker(t) PROVE pc' \in [Threads -> Label]
  BY <1>38 DEF ForgetTracker
<1>39. ASSUME NEW t \in Threads, ReadIdle(t) PROVE pc' \in [Threads -> Label]
  BY <1>39 DEF ReadIdle
<1>40. ASSUME NEW t \in Threads, CleanIdle(t) PROVE pc' \in [Threads -> Label]
  BY <1>40 DEF CleanIdle
<1>41. ASSUME NEW t \in Threads, ForgetIdle(t) PROVE pc' \in [Threads -> Label]
  BY <1>41 DEF ForgetIdle
<1>42. ASSUME NEW t \in Threads, KillFromPidFile(t) PROVE pc' \in [Threads -> Label]
  BY <1>42 DEF KillFromPidFile
<1>43. ASSUME NEW t \in Threads, CleanStatus(t) PROVE pc' \in [Threads -> Label]
  BY <1>43 DEF CleanStatus
<1>44. ASSUME NEW w \in Web, UpdateIdleStatus(w) PROVE pc' \in [Threads -> Label]
  BY <1>44 DEF UpdateIdleStatus
<1>45. ASSUME NEW w \in Web, UpdateIdleStatusFails(w) PROVE pc' \in [Threads -> Label]
  BY <1>45 DEF UpdateIdleStatusFails
<1>46. ASSUME NEW w \in Web, PresetFailed(w) PROVE pc' \in [Threads -> Label]
  BY <1>46 DEF PresetFailed
<1>47. ASSUME NEW w \in Web, Shorten(w) PROVE pc' \in [Threads -> Label]
  BY <1>47 DEF Shorten
<1>48. ASSUME NEW w \in Web, PublishNewKey(w) PROVE pc' \in [Threads -> Label]
  BY <1>48 DEF PublishNewKey
<1>49. ASSUME NEW w \in Web, RaisePassEnd(w) PROVE pc' \in [Threads -> Label]
  BY <1>49 DEF RaisePassEnd
<1>50. ASSUME NEW w \in Web, StartRecorder(w) PROVE pc' \in [Threads -> Label]
  BY <1>50 DEF StartRecorder
<1>51. ASSUME NEW w \in Web, PresetRequest(w) PROVE pc' \in [Threads -> Label]
  BY <1>51 DEF PresetRequest
<1>52. ASSUME NEW w \in Web, InsertTestPass(w) PROVE pc' \in [Threads -> Label]
  BY <1>52 DEF InsertTestPass
<1>53. ASSUME NEW w \in Web, EndRequest(w) PROVE pc' \in [Threads -> Label]
  BY <1>53 DEF EndRequest
<1>54. ASSUME NEW w \in Web, RecordRequest(w) PROVE pc' \in [Threads -> Label]
  BY <1>54 DEF RecordRequest
<1>55. ASSUME NEW w \in Web, StopRecorder(w) PROVE pc' \in [Threads -> Label]
  BY <1>55 DEF StopRecorder
<1>56. ASSUME NEW w \in Web, ShutdownRequest(w) PROVE pc' \in [Threads -> Label]
  BY <1>56 DEF ShutdownRequest
<1>57. CASE UNCHANGED vars
  BY <1>57 DEF vars
<1>58. CASE Reschedule
  BY <1>58 DEF Reschedule
<1> QED
  BY <1>1, <1>2, <1>3, <1>4, <1>5, <1>6, <1>7, <1>8, <1>9, <1>10, <1>11, <1>12, <1>13, <1>14, <1>15, <1>16, <1>17, <1>18, <1>19, <1>20, <1>21, <1>22, <1>23, <1>24, <1>25, <1>26, <1>27, <1>28, <1>29, <1>30, <1>31, <1>32, <1>33, <1>34, <1>35, <1>36, <1>37, <1>38, <1>39, <1>40, <1>41, <1>42, <1>43, <1>44, <1>45, <1>46, <1>47, <1>48, <1>49, <1>50, <1>51, <1>52, <1>53, <1>54, <1>55, <1>56, <1>57, <1>58 DEF Next, MainStep, WebWork, WebRequest, Environment, Apply, Clean, Exited, Threads

LEMMA EntryStep == TypeOK /\ EntryInv /\ [Next]_vars => EntryInv'
<1> SUFFICES ASSUME TypeOK, EntryInv, [Next]_vars PROVE EntryInv'
  OBVIOUS
<1> USE ThreadKinds, PassAssumption, ThreadsAssumption DEF TypeOK, DataType, EntryInv, Goto, Entering, HandedOver, appVars, lockVars, idleVars, passVars
<1>1. CASE KeepWaiting
  BY <1>1 DEF KeepWaiting
<1>2. CASE NewHead
  BY <1>2 DEF NewHead
<1>3. CASE PassDue
  BY <1>3 DEF PassDue, Heads, Pending
<1>4. CASE LeaveLoop
  BY <1>4 DEF LeaveLoop
<1>5. CASE StopOldIdle
  BY <1>5 DEF StopOldIdle
<1>6. CASE IdlePause
  BY <1>6 DEF IdlePause
<1>7. CASE BeginIdleStatus
  BY <1>7 DEF BeginIdleStatus
<1>8. CASE StopIdleForPass
  BY <1>8 DEF StopIdleForPass
<1>9. CASE EnterRunPass
  BY <1>9 DEF EnterRunPass
<1>10. CASE ClaimStation
  BY <1>10 DEF ClaimStation
<1>11. CASE StopRecorderForPass
  BY <1>11 DEF StopRecorderForPass
<1>12. CASE HandOver
  BY <1>12 DEF HandOver
<1>13. CASE ClearPassEnd
  BY <1>13 DEF ClearPassEnd
<1>14. CASE ExposePass
  BY <1>14 DEF ExposePass
<1>15. CASE LaunchTracker
  BY <1>15 DEF LaunchTracker
<1>16. CASE LaunchFails
  BY <1>16 DEF LaunchFails
<1>17. CASE PassOver
  BY <1>17 DEF PassOver
<1>18. CASE MarkEnded
  BY <1>18 DEF MarkEnded
<1>19. CASE StopTracker
  BY <1>19 DEF StopTracker
<1>20. CASE CompletePass
  BY <1>20 DEF CompletePass
<1>21. CASE StopIdleAtExit
  BY <1>21 DEF StopIdleAtExit
<1>22. CASE ResetState
  BY <1>22 DEF ResetState
<1>23. CASE Exit
  BY <1>23 DEF Exit
<1>24. CASE Tick
  BY <1>24 DEF Tick
<1>25. CASE HelperEnds
  BY <1>25 DEF HelperEnds
<1>26. CASE RecorderEnds
  BY <1>26 DEF RecorderEnds
<1>27. CASE TrackerEnds
  BY <1>27 DEF TrackerEnds
<1>28. ASSUME NEW t \in Threads, TakePreset(t) PROVE EntryInv'
  BY <1>28 DEF TakePreset
<1>29. ASSUME NEW t \in Threads, StopPrevious(t) PROVE EntryInv'
  BY <1>29 DEF StopPrevious
<1>30. ASSUME NEW t \in Threads, Program(t) PROVE EntryInv'
  BY <1>30 DEF Program
<1>31. ASSUME NEW t \in Threads, ProgramFails(t) PROVE EntryInv'
  BY <1>31 DEF ProgramFails
<1>32. ASSUME NEW t \in Threads, StartReceivers(t) PROVE EntryInv'
  BY <1>32 DEF StartReceivers
<1>33. ASSUME NEW t \in Threads, TuningDelay(t) PROVE EntryInv'
  BY <1>33 DEF TuningDelay
<1>34. ASSUME NEW t \in Threads, SpawnHelper(t) PROVE EntryInv'
  BY <1>34 DEF SpawnHelper
<1>35. ASSUME NEW t \in Threads, CleanRecorder(t) PROVE EntryInv'
  BY <1>35 DEF CleanRecorder
<1>36. ASSUME NEW t \in Threads, CleanTracker(t) PROVE EntryInv'
  BY <1>36 DEF CleanTracker
<1>37. ASSUME NEW t \in Threads, CleanTrackerStopped(t) PROVE EntryInv'
  BY <1>37 DEF CleanTrackerStopped
<1>38. ASSUME NEW t \in Threads, ForgetTracker(t) PROVE EntryInv'
  BY <1>38 DEF ForgetTracker
<1>39. ASSUME NEW t \in Threads, ReadIdle(t) PROVE EntryInv'
  BY <1>39 DEF ReadIdle
<1>40. ASSUME NEW t \in Threads, CleanIdle(t) PROVE EntryInv'
  BY <1>40 DEF CleanIdle
<1>41. ASSUME NEW t \in Threads, ForgetIdle(t) PROVE EntryInv'
  BY <1>41 DEF ForgetIdle
<1>42. ASSUME NEW t \in Threads, KillFromPidFile(t) PROVE EntryInv'
  BY <1>42 DEF KillFromPidFile
<1>43. ASSUME NEW t \in Threads, CleanStatus(t) PROVE EntryInv'
  BY <1>43 DEF CleanStatus
<1>44. ASSUME NEW w \in Web, UpdateIdleStatus(w) PROVE EntryInv'
  BY <1>44 DEF UpdateIdleStatus
<1>45. ASSUME NEW w \in Web, UpdateIdleStatusFails(w) PROVE EntryInv'
  BY <1>45 DEF UpdateIdleStatusFails
<1>46. ASSUME NEW w \in Web, PresetFailed(w) PROVE EntryInv'
  BY <1>46 DEF PresetFailed
<1>47. ASSUME NEW w \in Web, Shorten(w) PROVE EntryInv'
  BY <1>47 DEF Shorten
<1>48. ASSUME NEW w \in Web, PublishNewKey(w) PROVE EntryInv'
  BY <1>48 DEF PublishNewKey
<1>49. ASSUME NEW w \in Web, RaisePassEnd(w) PROVE EntryInv'
  BY <1>49 DEF RaisePassEnd
<1>50. ASSUME NEW w \in Web, StartRecorder(w) PROVE EntryInv'
  BY <1>50 DEF StartRecorder
<1>51. ASSUME NEW w \in Web, PresetRequest(w) PROVE EntryInv'
  BY <1>51 DEF PresetRequest
<1>52. ASSUME NEW w \in Web, InsertTestPass(w) PROVE EntryInv'
  BY <1>52 DEF InsertTestPass
<1>53. ASSUME NEW w \in Web, EndRequest(w) PROVE EntryInv'
  BY <1>53 DEF EndRequest
<1>54. ASSUME NEW w \in Web, RecordRequest(w) PROVE EntryInv'
  BY <1>54 DEF RecordRequest
<1>55. ASSUME NEW w \in Web, StopRecorder(w) PROVE EntryInv'
  BY <1>55 DEF StopRecorder
<1>56. ASSUME NEW w \in Web, ShutdownRequest(w) PROVE EntryInv'
  BY <1>56 DEF ShutdownRequest
<1>57. CASE UNCHANGED vars
  BY <1>57 DEF vars
<1>58. CASE Reschedule
  BY <1>58 DEF Reschedule
<1> QED
  BY <1>1, <1>2, <1>3, <1>4, <1>5, <1>6, <1>7, <1>8, <1>9, <1>10, <1>11, <1>12, <1>13, <1>14, <1>15, <1>16, <1>17, <1>18, <1>19, <1>20, <1>21, <1>22, <1>23, <1>24, <1>25, <1>26, <1>27, <1>28, <1>29, <1>30, <1>31, <1>32, <1>33, <1>34, <1>35, <1>36, <1>37, <1>38, <1>39, <1>40, <1>41, <1>42, <1>43, <1>44, <1>45, <1>46, <1>47, <1>48, <1>49, <1>50, <1>51, <1>52, <1>53, <1>54, <1>55, <1>56, <1>57, <1>58 DEF Next, MainStep, WebWork, WebRequest, Environment, Apply, Clean, Exited, Threads

LEMMA LabelInvStep == TypeOK /\ LabelInv /\ [Next]_vars => LabelInv'
<1> SUFFICES ASSUME TypeOK, LabelInv, [Next]_vars PROVE LabelInv'
  OBVIOUS
<1> USE ThreadKinds, ThreadsAssumption DEF TypeOK, LabelInv, Goto, Entering, MainOnly, WebOnly
<1>1. CASE KeepWaiting
  BY <1>1 DEF KeepWaiting
<1>2. CASE NewHead
  BY <1>2 DEF NewHead
<1>3. CASE PassDue
  BY <1>3 DEF PassDue
<1>4. CASE LeaveLoop
  BY <1>4 DEF LeaveLoop
<1>5. CASE StopOldIdle
  BY <1>5 DEF StopOldIdle
<1>6. CASE IdlePause
  BY <1>6 DEF IdlePause
<1>7. CASE BeginIdleStatus
  BY <1>7 DEF BeginIdleStatus
<1>8. CASE StopIdleForPass
  BY <1>8 DEF StopIdleForPass
<1>9. CASE EnterRunPass
  BY <1>9 DEF EnterRunPass
<1>10. CASE ClaimStation
  BY <1>10 DEF ClaimStation
<1>11. CASE StopRecorderForPass
  BY <1>11 DEF StopRecorderForPass
<1>12. CASE HandOver
  BY <1>12 DEF HandOver
<1>13. CASE ClearPassEnd
  BY <1>13 DEF ClearPassEnd
<1>14. CASE ExposePass
  BY <1>14 DEF ExposePass
<1>15. CASE LaunchTracker
  BY <1>15 DEF LaunchTracker
<1>16. CASE LaunchFails
  BY <1>16 DEF LaunchFails
<1>17. CASE PassOver
  BY <1>17 DEF PassOver
<1>18. CASE MarkEnded
  BY <1>18 DEF MarkEnded
<1>19. CASE StopTracker
  BY <1>19 DEF StopTracker
<1>20. CASE CompletePass
  BY <1>20 DEF CompletePass
<1>21. CASE StopIdleAtExit
  BY <1>21 DEF StopIdleAtExit
<1>22. CASE ResetState
  BY <1>22 DEF ResetState
<1>23. CASE Exit
  BY <1>23 DEF Exit
<1>24. CASE Tick
  BY <1>24 DEF Tick
<1>25. CASE HelperEnds
  BY <1>25 DEF HelperEnds
<1>26. CASE RecorderEnds
  BY <1>26 DEF RecorderEnds
<1>27. CASE TrackerEnds
  BY <1>27 DEF TrackerEnds
<1>28. ASSUME NEW t \in Threads, TakePreset(t) PROVE LabelInv'
  BY <1>28 DEF TakePreset
<1>29. ASSUME NEW t \in Threads, StopPrevious(t) PROVE LabelInv'
  BY <1>29 DEF StopPrevious
<1>30. ASSUME NEW t \in Threads, Program(t) PROVE LabelInv'
  BY <1>30 DEF Program
<1>31. ASSUME NEW t \in Threads, ProgramFails(t) PROVE LabelInv'
  BY <1>31 DEF ProgramFails
<1>32. ASSUME NEW t \in Threads, StartReceivers(t) PROVE LabelInv'
  BY <1>32 DEF StartReceivers
<1>33. ASSUME NEW t \in Threads, TuningDelay(t) PROVE LabelInv'
  BY <1>33 DEF TuningDelay
<1>34. ASSUME NEW t \in Threads, SpawnHelper(t) PROVE LabelInv'
  BY <1>34 DEF SpawnHelper
<1>35. ASSUME NEW t \in Threads, CleanRecorder(t) PROVE LabelInv'
  BY <1>35 DEF CleanRecorder
<1>36. ASSUME NEW t \in Threads, CleanTracker(t) PROVE LabelInv'
  BY <1>36 DEF CleanTracker
<1>37. ASSUME NEW t \in Threads, CleanTrackerStopped(t) PROVE LabelInv'
  BY <1>37 DEF CleanTrackerStopped
<1>38. ASSUME NEW t \in Threads, ForgetTracker(t) PROVE LabelInv'
  BY <1>38 DEF ForgetTracker
<1>39. ASSUME NEW t \in Threads, ReadIdle(t) PROVE LabelInv'
  BY <1>39 DEF ReadIdle
<1>40. ASSUME NEW t \in Threads, CleanIdle(t) PROVE LabelInv'
  BY <1>40 DEF CleanIdle
<1>41. ASSUME NEW t \in Threads, ForgetIdle(t) PROVE LabelInv'
  BY <1>41 DEF ForgetIdle
<1>42. ASSUME NEW t \in Threads, KillFromPidFile(t) PROVE LabelInv'
  BY <1>42 DEF KillFromPidFile
<1>43. ASSUME NEW t \in Threads, CleanStatus(t) PROVE LabelInv'
  BY <1>43 DEF CleanStatus
<1>44. ASSUME NEW w \in Web, UpdateIdleStatus(w) PROVE LabelInv'
  BY <1>44 DEF UpdateIdleStatus
<1>45. ASSUME NEW w \in Web, UpdateIdleStatusFails(w) PROVE LabelInv'
  BY <1>45 DEF UpdateIdleStatusFails
<1>46. ASSUME NEW w \in Web, PresetFailed(w) PROVE LabelInv'
  BY <1>46 DEF PresetFailed
<1>47. ASSUME NEW w \in Web, Shorten(w) PROVE LabelInv'
  BY <1>47 DEF Shorten
<1>48. ASSUME NEW w \in Web, PublishNewKey(w) PROVE LabelInv'
  BY <1>48 DEF PublishNewKey
<1>49. ASSUME NEW w \in Web, RaisePassEnd(w) PROVE LabelInv'
  BY <1>49 DEF RaisePassEnd
<1>50. ASSUME NEW w \in Web, StartRecorder(w) PROVE LabelInv'
  BY <1>50 DEF StartRecorder
<1>51. ASSUME NEW w \in Web, PresetRequest(w) PROVE LabelInv'
  BY <1>51 DEF PresetRequest
<1>52. ASSUME NEW w \in Web, InsertTestPass(w) PROVE LabelInv'
  BY <1>52 DEF InsertTestPass
<1>53. ASSUME NEW w \in Web, EndRequest(w) PROVE LabelInv'
  BY <1>53 DEF EndRequest
<1>54. ASSUME NEW w \in Web, RecordRequest(w) PROVE LabelInv'
  BY <1>54 DEF RecordRequest
<1>55. ASSUME NEW w \in Web, StopRecorder(w) PROVE LabelInv'
  BY <1>55 DEF StopRecorder
<1>56. ASSUME NEW w \in Web, ShutdownRequest(w) PROVE LabelInv'
  BY <1>56 DEF ShutdownRequest
<1>57. CASE UNCHANGED vars
  BY <1>57 DEF vars
<1>58. CASE Reschedule
  BY <1>58 DEF Reschedule
<1> QED
  BY <1>1, <1>2, <1>3, <1>4, <1>5, <1>6, <1>7, <1>8, <1>9, <1>10, <1>11, <1>12, <1>13, <1>14, <1>15, <1>16, <1>17, <1>18, <1>19, <1>20, <1>21, <1>22, <1>23, <1>24, <1>25, <1>26, <1>27, <1>28, <1>29, <1>30, <1>31, <1>32, <1>33, <1>34, <1>35, <1>36, <1>37, <1>38, <1>39, <1>40, <1>41, <1>42, <1>43, <1>44, <1>45, <1>46, <1>47, <1>48, <1>49, <1>50, <1>51, <1>52, <1>53, <1>54, <1>55, <1>56, <1>57, <1>58 DEF Next, MainStep, WebWork, WebRequest, Environment, Apply, Clean, Exited, Threads

LEMMA LockStep == TypeOK /\ LabelInv /\ LockInv /\ [Next]_vars => LockInv'
<1> SUFFICES ASSUME TypeOK, LabelInv, LockInv, [Next]_vars PROVE LockInv'
  OBVIOUS
<1> USE ThreadKinds, ThreadsAssumption DEF TypeOK, LabelInv, LockInv, Goto, Entering, Applying, Threads, MainOnly, WebOnly, appVars, lockVars, idleVars, passVars
<1>1. CASE KeepWaiting
  BY <1>1 DEF KeepWaiting
<1>2. CASE NewHead
  BY <1>2 DEF NewHead
<1>3. CASE PassDue
  BY <1>3 DEF PassDue
<1>4. CASE LeaveLoop
  BY <1>4 DEF LeaveLoop
<1>5. CASE StopOldIdle
  BY <1>5 DEF StopOldIdle
<1>6. CASE IdlePause
  BY <1>6 DEF IdlePause
<1>7. CASE BeginIdleStatus
  BY <1>7 DEF BeginIdleStatus
<1>8. CASE StopIdleForPass
  BY <1>8 DEF StopIdleForPass
<1>9. CASE EnterRunPass
  BY <1>9 DEF EnterRunPass
<1>10. CASE ClaimStation
  BY <1>10 DEF ClaimStation
<1>11. CASE StopRecorderForPass
  BY <1>11 DEF StopRecorderForPass
<1>12. CASE HandOver
  BY <1>12 DEF HandOver
<1>13. CASE ClearPassEnd
  BY <1>13 DEF ClearPassEnd
<1>14. CASE ExposePass
  BY <1>14 DEF ExposePass
<1>15. CASE LaunchTracker
  BY <1>15 DEF LaunchTracker
<1>16. CASE LaunchFails
  BY <1>16 DEF LaunchFails
<1>17. CASE PassOver
  BY <1>17 DEF PassOver
<1>18. CASE MarkEnded
  BY <1>18 DEF MarkEnded
<1>19. CASE StopTracker
  BY <1>19 DEF StopTracker
<1>20. CASE CompletePass
  BY <1>20 DEF CompletePass
<1>21. CASE StopIdleAtExit
  BY <1>21 DEF StopIdleAtExit
<1>22. CASE ResetState
  BY <1>22 DEF ResetState
<1>23. CASE Exit
  BY <1>23 DEF Exit
<1>24. CASE Tick
  BY <1>24 DEF Tick
<1>25. CASE HelperEnds
  BY <1>25 DEF HelperEnds
<1>26. CASE RecorderEnds
  BY <1>26 DEF RecorderEnds
<1>27. CASE TrackerEnds
  BY <1>27 DEF TrackerEnds
<1>28. ASSUME NEW t \in Threads, TakePreset(t) PROVE LockInv'
  BY <1>28 DEF TakePreset
<1>29. ASSUME NEW t \in Threads, StopPrevious(t) PROVE LockInv'
  BY <1>29 DEF StopPrevious
<1>30. ASSUME NEW t \in Threads, Program(t) PROVE LockInv'
  BY <1>30 DEF Program
<1>31. ASSUME NEW t \in Threads, ProgramFails(t) PROVE LockInv'
  BY <1>31 DEF ProgramFails
<1>32. ASSUME NEW t \in Threads, StartReceivers(t) PROVE LockInv'
  BY <1>32 DEF StartReceivers
<1>33. ASSUME NEW t \in Threads, TuningDelay(t) PROVE LockInv'
  BY <1>33 DEF TuningDelay
<1>34. ASSUME NEW t \in Threads, SpawnHelper(t) PROVE LockInv'
  BY <1>34 DEF SpawnHelper
<1>35. ASSUME NEW t \in Threads, CleanRecorder(t) PROVE LockInv'
  BY <1>35 DEF CleanRecorder
<1>36. ASSUME NEW t \in Threads, CleanTracker(t) PROVE LockInv'
  BY <1>36 DEF CleanTracker
<1>37. ASSUME NEW t \in Threads, CleanTrackerStopped(t) PROVE LockInv'
  BY <1>37 DEF CleanTrackerStopped
<1>38. ASSUME NEW t \in Threads, ForgetTracker(t) PROVE LockInv'
  BY <1>38 DEF ForgetTracker
<1>39. ASSUME NEW t \in Threads, ReadIdle(t) PROVE LockInv'
  BY <1>39 DEF ReadIdle
<1>40. ASSUME NEW t \in Threads, CleanIdle(t) PROVE LockInv'
  BY <1>40 DEF CleanIdle
<1>41. ASSUME NEW t \in Threads, ForgetIdle(t) PROVE LockInv'
  BY <1>41 DEF ForgetIdle
<1>42. ASSUME NEW t \in Threads, KillFromPidFile(t) PROVE LockInv'
  BY <1>42 DEF KillFromPidFile
<1>43. ASSUME NEW t \in Threads, CleanStatus(t) PROVE LockInv'
  BY <1>43 DEF CleanStatus
<1>44. ASSUME NEW w \in Web, UpdateIdleStatus(w) PROVE LockInv'
  BY <1>44 DEF UpdateIdleStatus
<1>45. ASSUME NEW w \in Web, UpdateIdleStatusFails(w) PROVE LockInv'
  BY <1>45 DEF UpdateIdleStatusFails
<1>46. ASSUME NEW w \in Web, PresetFailed(w) PROVE LockInv'
  BY <1>46 DEF PresetFailed
<1>47. ASSUME NEW w \in Web, Shorten(w) PROVE LockInv'
  BY <1>47 DEF Shorten
<1>48. ASSUME NEW w \in Web, PublishNewKey(w) PROVE LockInv'
  BY <1>48 DEF PublishNewKey
<1>49. ASSUME NEW w \in Web, RaisePassEnd(w) PROVE LockInv'
  BY <1>49 DEF RaisePassEnd
<1>50. ASSUME NEW w \in Web, StartRecorder(w) PROVE LockInv'
  BY <1>50 DEF StartRecorder
<1>51. ASSUME NEW w \in Web, PresetRequest(w) PROVE LockInv'
  BY <1>51 DEF PresetRequest
<1>52. ASSUME NEW w \in Web, InsertTestPass(w) PROVE LockInv'
  BY <1>52 DEF InsertTestPass
<1>53. ASSUME NEW w \in Web, EndRequest(w) PROVE LockInv'
  BY <1>53 DEF EndRequest
<1>54. ASSUME NEW w \in Web, RecordRequest(w) PROVE LockInv'
  BY <1>54 DEF RecordRequest
<1>55. ASSUME NEW w \in Web, StopRecorder(w) PROVE LockInv'
  BY <1>55 DEF StopRecorder
<1>56. ASSUME NEW w \in Web, ShutdownRequest(w) PROVE LockInv'
  BY <1>56 DEF ShutdownRequest
<1>57. CASE UNCHANGED vars
  BY <1>57 DEF vars
<1>58. CASE Reschedule
  BY <1>58 DEF Reschedule
<1> QED
  BY <1>1, <1>2, <1>3, <1>4, <1>5, <1>6, <1>7, <1>8, <1>9, <1>10, <1>11, <1>12, <1>13, <1>14, <1>15, <1>16, <1>17, <1>18, <1>19, <1>20, <1>21, <1>22, <1>23, <1>24, <1>25, <1>26, <1>27, <1>28, <1>29, <1>30, <1>31, <1>32, <1>33, <1>34, <1>35, <1>36, <1>37, <1>38, <1>39, <1>40, <1>41, <1>42, <1>43, <1>44, <1>45, <1>46, <1>47, <1>48, <1>49, <1>50, <1>51, <1>52, <1>53, <1>54, <1>55, <1>56, <1>57, <1>58 DEF Next, MainStep, WebWork, WebRequest, Environment, Apply, Clean, Exited, Threads

LEMMA TrackStep == IInv /\ [Next]_vars => TrackInv'
<1> SUFFICES ASSUME IInv, [Next]_vars PROVE TrackInv'
  OBVIOUS
<1> USE ThreadKinds, ThreadsAssumption DEF IInv, TypeOK, LabelInv, LockInv, TrackInv, HelperInv, HelperTraceable, Final, Ended, HandedOver, Exposed, Goto, Entering, Applying, Cleanup, UsingRadio, Threads, MainOnly, WebOnly, StopIdle, PassActive, appVars, lockVars, idleVars, passVars
<1>1. CASE KeepWaiting
  BY <1>1 DEF KeepWaiting
<1>2. CASE NewHead
  BY <1>2 DEF NewHead
<1>3. CASE PassDue
  BY <1>3 DEF PassDue
<1>4. CASE LeaveLoop
  BY <1>4 DEF LeaveLoop
<1>5. CASE StopOldIdle
  BY <1>5 DEF StopOldIdle
<1>6. CASE IdlePause
  BY <1>6 DEF IdlePause
<1>7. CASE BeginIdleStatus
  BY <1>7 DEF BeginIdleStatus
<1>8. CASE StopIdleForPass
  BY <1>8 DEF StopIdleForPass
<1>9. CASE EnterRunPass
  BY <1>9 DEF EnterRunPass
<1>10. CASE ClaimStation
  BY <1>10 DEF ClaimStation
<1>11. CASE StopRecorderForPass
  BY <1>11 DEF StopRecorderForPass
<1>12. CASE HandOver
  BY <1>12 DEF HandOver
<1>13. CASE ClearPassEnd
  BY <1>13 DEF ClearPassEnd
<1>14. CASE ExposePass
  BY <1>14 DEF ExposePass
<1>15. CASE LaunchTracker
  BY <1>15 DEF LaunchTracker
<1>16. CASE LaunchFails
  BY <1>16 DEF LaunchFails
<1>17. CASE PassOver
  BY <1>17 DEF PassOver
<1>18. CASE MarkEnded
  BY <1>18 DEF MarkEnded
<1>19. CASE StopTracker
  BY <1>19 DEF StopTracker
<1>20. CASE CompletePass
  BY <1>20 DEF CompletePass
<1>21. CASE StopIdleAtExit
  BY <1>21 DEF StopIdleAtExit
<1>22. CASE ResetState
  BY <1>22 DEF ResetState
<1>23. CASE Exit
  BY <1>23 DEF Exit
<1>24. CASE Tick
  BY <1>24 DEF Tick
<1>25. CASE HelperEnds
  BY <1>25 DEF HelperEnds
<1>26. CASE RecorderEnds
  BY <1>26 DEF RecorderEnds
<1>27. CASE TrackerEnds
  BY <1>27 DEF TrackerEnds
<1>28. ASSUME NEW t \in Threads, TakePreset(t) PROVE TrackInv'
  BY <1>28 DEF TakePreset
<1>29. ASSUME NEW t \in Threads, StopPrevious(t) PROVE TrackInv'
  BY <1>29 DEF StopPrevious
<1>30. ASSUME NEW t \in Threads, Program(t) PROVE TrackInv'
  BY <1>30 DEF Program
<1>31. ASSUME NEW t \in Threads, ProgramFails(t) PROVE TrackInv'
  BY <1>31 DEF ProgramFails
<1>32. ASSUME NEW t \in Threads, StartReceivers(t) PROVE TrackInv'
  BY <1>32 DEF StartReceivers
<1>33. ASSUME NEW t \in Threads, TuningDelay(t) PROVE TrackInv'
  BY <1>33 DEF TuningDelay
<1>34. ASSUME NEW t \in Threads, SpawnHelper(t) PROVE TrackInv'
  BY <1>34 DEF SpawnHelper
<1>35. ASSUME NEW t \in Threads, CleanRecorder(t) PROVE TrackInv'
  BY <1>35 DEF CleanRecorder
<1>36. ASSUME NEW t \in Threads, CleanTracker(t) PROVE TrackInv'
  BY <1>36 DEF CleanTracker
<1>37. ASSUME NEW t \in Threads, CleanTrackerStopped(t) PROVE TrackInv'
  BY <1>37 DEF CleanTrackerStopped
<1>38. ASSUME NEW t \in Threads, ForgetTracker(t) PROVE TrackInv'
  BY <1>38 DEF ForgetTracker
<1>39. ASSUME NEW t \in Threads, ReadIdle(t) PROVE TrackInv'
  BY <1>39 DEF ReadIdle
<1>40. ASSUME NEW t \in Threads, CleanIdle(t) PROVE TrackInv'
  BY <1>40 DEF CleanIdle
<1>41. ASSUME NEW t \in Threads, ForgetIdle(t) PROVE TrackInv'
  BY <1>41 DEF ForgetIdle
<1>42. ASSUME NEW t \in Threads, KillFromPidFile(t) PROVE TrackInv'
  BY <1>42 DEF KillFromPidFile
<1>43. ASSUME NEW t \in Threads, CleanStatus(t) PROVE TrackInv'
  BY <1>43 DEF CleanStatus
<1>44. ASSUME NEW w \in Web, UpdateIdleStatus(w) PROVE TrackInv'
  BY <1>44 DEF UpdateIdleStatus
<1>45. ASSUME NEW w \in Web, UpdateIdleStatusFails(w) PROVE TrackInv'
  BY <1>45 DEF UpdateIdleStatusFails
<1>46. ASSUME NEW w \in Web, PresetFailed(w) PROVE TrackInv'
  BY <1>46 DEF PresetFailed
<1>47. ASSUME NEW w \in Web, Shorten(w) PROVE TrackInv'
  BY <1>47 DEF Shorten
<1>48. ASSUME NEW w \in Web, PublishNewKey(w) PROVE TrackInv'
  BY <1>48 DEF PublishNewKey
<1>49. ASSUME NEW w \in Web, RaisePassEnd(w) PROVE TrackInv'
  BY <1>49 DEF RaisePassEnd
<1>50. ASSUME NEW w \in Web, StartRecorder(w) PROVE TrackInv'
  BY <1>50 DEF StartRecorder
<1>51. ASSUME NEW w \in Web, PresetRequest(w) PROVE TrackInv'
  BY <1>51 DEF PresetRequest
<1>52. ASSUME NEW w \in Web, InsertTestPass(w) PROVE TrackInv'
  BY <1>52 DEF InsertTestPass
<1>53. ASSUME NEW w \in Web, EndRequest(w) PROVE TrackInv'
  BY <1>53 DEF EndRequest
<1>54. ASSUME NEW w \in Web, RecordRequest(w) PROVE TrackInv'
  BY <1>54 DEF RecordRequest
<1>55. ASSUME NEW w \in Web, StopRecorder(w) PROVE TrackInv'
  BY <1>55 DEF StopRecorder
<1>56. ASSUME NEW w \in Web, ShutdownRequest(w) PROVE TrackInv'
  BY <1>56 DEF ShutdownRequest
<1>57. CASE UNCHANGED vars
  BY <1>57 DEF vars
<1>58. CASE Reschedule
  BY <1>58 DEF Reschedule
<1> QED
  BY <1>1, <1>2, <1>3, <1>4, <1>5, <1>6, <1>7, <1>8, <1>9, <1>10, <1>11, <1>12, <1>13, <1>14, <1>15, <1>16, <1>17, <1>18, <1>19, <1>20, <1>21, <1>22, <1>23, <1>24, <1>25, <1>26, <1>27, <1>28, <1>29, <1>30, <1>31, <1>32, <1>33, <1>34, <1>35, <1>36, <1>37, <1>38, <1>39, <1>40, <1>41, <1>42, <1>43, <1>44, <1>45, <1>46, <1>47, <1>48, <1>49, <1>50, <1>51, <1>52, <1>53, <1>54, <1>55, <1>56, <1>57, <1>58 DEF Next, MainStep, WebWork, WebRequest, Environment, Apply, Clean, Exited, Threads

LEMMA HelperStep == IInv /\ [Next]_vars => (HelperInv \/ (MainMayFail /\ pc[Main] \in Final))'
<1> SUFFICES ASSUME IInv, [Next]_vars PROVE (HelperInv \/ (MainMayFail /\ pc[Main] \in Final))'
  OBVIOUS
<1> USE ThreadKinds, ThreadsAssumption, HelperAssumption DEF IInv, TypeOK, DataType, LabelInv, LockInv, HelperInv, HelperTraceable, Final, Ended, Goto, Entering, Applying, Cleanup, UsingRadio, Threads, MainOnly, WebOnly, StopIdle, appVars, lockVars, idleVars, passVars
<1>1. CASE KeepWaiting
  BY <1>1 DEF KeepWaiting
<1>2. CASE NewHead
  BY <1>2 DEF NewHead
<1>3. CASE PassDue
  BY <1>3 DEF PassDue
<1>4. CASE LeaveLoop
  BY <1>4 DEF LeaveLoop
<1>5. CASE StopOldIdle
  BY <1>5 DEF StopOldIdle
<1>6. CASE IdlePause
  BY <1>6 DEF IdlePause
<1>7. CASE BeginIdleStatus
  BY <1>7 DEF BeginIdleStatus
<1>8. CASE StopIdleForPass
  BY <1>8 DEF StopIdleForPass
<1>9. CASE EnterRunPass
  BY <1>9 DEF EnterRunPass
<1>10. CASE ClaimStation
  BY <1>10 DEF ClaimStation
<1>11. CASE StopRecorderForPass
  BY <1>11 DEF StopRecorderForPass
<1>12. CASE HandOver
  BY <1>12 DEF HandOver
<1>13. CASE ClearPassEnd
  BY <1>13 DEF ClearPassEnd
<1>14. CASE ExposePass
  BY <1>14 DEF ExposePass
<1>15. CASE LaunchTracker
  BY <1>15 DEF LaunchTracker
<1>16. CASE LaunchFails
  BY <1>16 DEF LaunchFails
<1>17. CASE PassOver
  BY <1>17 DEF PassOver
<1>18. CASE MarkEnded
  BY <1>18 DEF MarkEnded
<1>19. CASE StopTracker
  BY <1>19 DEF StopTracker
<1>20. CASE CompletePass
  BY <1>20 DEF CompletePass
<1>21. CASE StopIdleAtExit
  BY <1>21 DEF StopIdleAtExit
<1>22. CASE ResetState
  BY <1>22 DEF ResetState
<1>23. CASE Exit
  BY <1>23 DEF Exit
<1>24. CASE Tick
  BY <1>24 DEF Tick
<1>25. CASE HelperEnds
  BY <1>25 DEF HelperEnds
<1>26. CASE RecorderEnds
  BY <1>26 DEF RecorderEnds
<1>27. CASE TrackerEnds
  BY <1>27 DEF TrackerEnds
<1>28. ASSUME NEW t \in Threads, TakePreset(t) PROVE (HelperInv \/ (MainMayFail /\ pc[Main] \in Final))'
  BY <1>28 DEF TakePreset
<1>29. ASSUME NEW t \in Threads, StopPrevious(t) PROVE (HelperInv \/ (MainMayFail /\ pc[Main] \in Final))'
  BY <1>29 DEF StopPrevious
<1>30. ASSUME NEW t \in Threads, Program(t) PROVE (HelperInv \/ (MainMayFail /\ pc[Main] \in Final))'
  BY <1>30 DEF Program
<1>31. ASSUME NEW t \in Threads, ProgramFails(t) PROVE (HelperInv \/ (MainMayFail /\ pc[Main] \in Final))'
  BY <1>31 DEF ProgramFails
<1>32. ASSUME NEW t \in Threads, StartReceivers(t) PROVE (HelperInv \/ (MainMayFail /\ pc[Main] \in Final))'
  BY <1>32 DEF StartReceivers
<1>33. ASSUME NEW t \in Threads, TuningDelay(t) PROVE (HelperInv \/ (MainMayFail /\ pc[Main] \in Final))'
  BY <1>33 DEF TuningDelay
<1>34. ASSUME NEW t \in Threads, SpawnHelper(t) PROVE (HelperInv \/ (MainMayFail /\ pc[Main] \in Final))'
  BY <1>34 DEF SpawnHelper
<1>35. ASSUME NEW t \in Threads, CleanRecorder(t) PROVE (HelperInv \/ (MainMayFail /\ pc[Main] \in Final))'
  BY <1>35 DEF CleanRecorder
<1>36. ASSUME NEW t \in Threads, CleanTracker(t) PROVE (HelperInv \/ (MainMayFail /\ pc[Main] \in Final))'
  BY <1>36 DEF CleanTracker
<1>37. ASSUME NEW t \in Threads, CleanTrackerStopped(t) PROVE (HelperInv \/ (MainMayFail /\ pc[Main] \in Final))'
  BY <1>37 DEF CleanTrackerStopped
<1>38. ASSUME NEW t \in Threads, ForgetTracker(t) PROVE (HelperInv \/ (MainMayFail /\ pc[Main] \in Final))'
  BY <1>38 DEF ForgetTracker
<1>39. ASSUME NEW t \in Threads, ReadIdle(t) PROVE (HelperInv \/ (MainMayFail /\ pc[Main] \in Final))'
  BY <1>39 DEF ReadIdle
<1>40. ASSUME NEW t \in Threads, CleanIdle(t) PROVE (HelperInv \/ (MainMayFail /\ pc[Main] \in Final))'
  BY <1>40 DEF CleanIdle
<1>41. ASSUME NEW t \in Threads, ForgetIdle(t) PROVE (HelperInv \/ (MainMayFail /\ pc[Main] \in Final))'
  BY <1>41 DEF ForgetIdle
<1>42. ASSUME NEW t \in Threads, KillFromPidFile(t) PROVE (HelperInv \/ (MainMayFail /\ pc[Main] \in Final))'
  BY <1>42 DEF KillFromPidFile
<1>43. ASSUME NEW t \in Threads, CleanStatus(t) PROVE (HelperInv \/ (MainMayFail /\ pc[Main] \in Final))'
  BY <1>43 DEF CleanStatus
<1>44. ASSUME NEW w \in Web, UpdateIdleStatus(w) PROVE (HelperInv \/ (MainMayFail /\ pc[Main] \in Final))'
  BY <1>44 DEF UpdateIdleStatus
<1>45. ASSUME NEW w \in Web, UpdateIdleStatusFails(w) PROVE (HelperInv \/ (MainMayFail /\ pc[Main] \in Final))'
  BY <1>45 DEF UpdateIdleStatusFails
<1>46. ASSUME NEW w \in Web, PresetFailed(w) PROVE (HelperInv \/ (MainMayFail /\ pc[Main] \in Final))'
  BY <1>46 DEF PresetFailed
<1>47. ASSUME NEW w \in Web, Shorten(w) PROVE (HelperInv \/ (MainMayFail /\ pc[Main] \in Final))'
  BY <1>47 DEF Shorten
<1>48. ASSUME NEW w \in Web, PublishNewKey(w) PROVE (HelperInv \/ (MainMayFail /\ pc[Main] \in Final))'
  BY <1>48 DEF PublishNewKey
<1>49. ASSUME NEW w \in Web, RaisePassEnd(w) PROVE (HelperInv \/ (MainMayFail /\ pc[Main] \in Final))'
  BY <1>49 DEF RaisePassEnd
<1>50. ASSUME NEW w \in Web, StartRecorder(w) PROVE (HelperInv \/ (MainMayFail /\ pc[Main] \in Final))'
  BY <1>50 DEF StartRecorder
<1>51. ASSUME NEW w \in Web, PresetRequest(w) PROVE (HelperInv \/ (MainMayFail /\ pc[Main] \in Final))'
  BY <1>51 DEF PresetRequest
<1>52. ASSUME NEW w \in Web, InsertTestPass(w) PROVE (HelperInv \/ (MainMayFail /\ pc[Main] \in Final))'
  BY <1>52 DEF InsertTestPass
<1>53. ASSUME NEW w \in Web, EndRequest(w) PROVE (HelperInv \/ (MainMayFail /\ pc[Main] \in Final))'
  BY <1>53 DEF EndRequest
<1>54. ASSUME NEW w \in Web, RecordRequest(w) PROVE (HelperInv \/ (MainMayFail /\ pc[Main] \in Final))'
  BY <1>54 DEF RecordRequest
<1>55. ASSUME NEW w \in Web, StopRecorder(w) PROVE (HelperInv \/ (MainMayFail /\ pc[Main] \in Final))'
  BY <1>55 DEF StopRecorder
<1>56. ASSUME NEW w \in Web, ShutdownRequest(w) PROVE (HelperInv \/ (MainMayFail /\ pc[Main] \in Final))'
  BY <1>56 DEF ShutdownRequest
<1>57. CASE UNCHANGED vars
  BY <1>57 DEF vars
<1>58. CASE Reschedule
  BY <1>58 DEF Reschedule
<1> QED
  BY <1>1, <1>2, <1>3, <1>4, <1>5, <1>6, <1>7, <1>8, <1>9, <1>10, <1>11, <1>12, <1>13, <1>14, <1>15, <1>16, <1>17, <1>18, <1>19, <1>20, <1>21, <1>22, <1>23, <1>24, <1>25, <1>26, <1>27, <1>28, <1>29, <1>30, <1>31, <1>32, <1>33, <1>34, <1>35, <1>36, <1>37, <1>38, <1>39, <1>40, <1>41, <1>42, <1>43, <1>44, <1>45, <1>46, <1>47, <1>48, <1>49, <1>50, <1>51, <1>52, <1>53, <1>54, <1>55, <1>56, <1>57, <1>58 DEF Next, MainStep, WebWork, WebRequest, Environment, Apply, Clean, Exited, Threads

LEMMA InitInvariant == Init => IInv
<1> SUFFICES ASSUME Init PROVE IInv
  OBVIOUS
<1> USE ThreadKinds, ThreadsAssumption, PassAssumption DEF Init, Threads
<1>1. FlagType
  BY DEF FlagType
<1>2. DataType
  BY DEF DataType, Time
<1>3. pc \in [Threads -> Label]
  BY DEF Label, MainOnly, WebOnly
<1>4. EntryInv /\ LabelInv /\ LockInv
  BY <1>3 DEF EntryInv, LabelInv, LockInv, MainOnly, WebOnly, Entering, Applying, HandedOver
<1>5. TrackInv
  BY <1>3 DEF TrackInv, HandedOver, Exposed
<1>6. HelperInv
  BY <1>3 DEF HelperInv, HelperTraceable, UsingRadio, Cleanup, Final, Ended
<1> QED
  BY <1>1, <1>2, <1>3, <1>4, <1>5, <1>6 DEF IInv, TypeOK

LEMMA Step == IInv /\ [Next]_vars => IInv'
BY FlagStep, DataStep, LabelStep, EntryStep, LabelInvStep, LockStep, TrackStep,
   HelperStep DEF IInv, TypeOK

\* The inductive invariant holds in every reachable state.
THEOREM Invariant == Spec => []IInv
BY InitInvariant, Step, PTL DEF Spec

\* Every variable of the scheduler keeps its type.
THEOREM TypeCorrect == Spec => []TypeOK
<1>1. IInv => TypeOK
  BY DEF IInv
<1> QED
  BY <1>1, Invariant, PTL

LEMMA PassOwnsStation == IInv => StationExclusive
BY DEF IInv, TypeOK, TrackInv, HandedOver, Exposed, UsingRadio, StationExclusive

\* A pass in progress has the radio, the sound input and the idle status to
\* itself (run_pass), even when an exception escapes from the main loop.
THEOREM StationSafe == Spec => []StationExclusive
BY Invariant, PassOwnsStation, PTL

LEMMA HelperStaysTraceable == IInv => (MainMayFail \/ HelperTraceable)
BY DEF IInv, HelperInv

\* Unless an exception escapes from the main loop, CURRENT_IDLE_PROCESS and the
\* pid file name the idle helper that is alive (stop_idle_wait_program).
THEOREM HelperSafe == ASSUME ~MainMayFail PROVE Spec => []HelperTraceable
<1>1. IInv => HelperTraceable
  BY HelperStaysTraceable
<1> QED
  BY <1>1, Invariant, PTL

LEMMA CleanInit == Init => CleanInv
BY ThreadKinds DEF Init, CleanInv, Final, Ended, Cleanup


LEMMA CleanStep == IInv /\ HelperInv /\ CleanInv /\ [Next]_vars => CleanInv'
<1> SUFFICES ASSUME IInv, HelperInv, CleanInv, [Next]_vars PROVE CleanInv'
  OBVIOUS
<1> USE ThreadKinds, ThreadsAssumption, HelperAssumption DEF IInv, TypeOK, DataType, LabelInv, LockInv, HelperInv, HelperTraceable, CleanInv, Final, Ended, Goto, Entering, Applying, Cleanup, UsingRadio, Threads, MainOnly, WebOnly, StopIdle, appVars, lockVars, idleVars, passVars
<1>1. CASE KeepWaiting
  BY <1>1 DEF KeepWaiting
<1>2. CASE NewHead
  BY <1>2 DEF NewHead
<1>3. CASE PassDue
  BY <1>3 DEF PassDue
<1>4. CASE LeaveLoop
  BY <1>4 DEF LeaveLoop
<1>5. CASE StopOldIdle
  BY <1>5 DEF StopOldIdle
<1>6. CASE IdlePause
  BY <1>6 DEF IdlePause
<1>7. CASE BeginIdleStatus
  BY <1>7 DEF BeginIdleStatus
<1>8. CASE StopIdleForPass
  BY <1>8 DEF StopIdleForPass
<1>9. CASE EnterRunPass
  BY <1>9 DEF EnterRunPass
<1>10. CASE ClaimStation
  BY <1>10 DEF ClaimStation
<1>11. CASE StopRecorderForPass
  BY <1>11 DEF StopRecorderForPass
<1>12. CASE HandOver
  BY <1>12 DEF HandOver
<1>13. CASE ClearPassEnd
  BY <1>13 DEF ClearPassEnd
<1>14. CASE ExposePass
  BY <1>14 DEF ExposePass
<1>15. CASE LaunchTracker
  BY <1>15 DEF LaunchTracker
<1>16. CASE LaunchFails
  BY <1>16 DEF LaunchFails
<1>17. CASE PassOver
  BY <1>17 DEF PassOver
<1>18. CASE MarkEnded
  BY <1>18 DEF MarkEnded
<1>19. CASE StopTracker
  BY <1>19 DEF StopTracker
<1>20. CASE CompletePass
  BY <1>20 DEF CompletePass
<1>21. CASE StopIdleAtExit
  BY <1>21 DEF StopIdleAtExit
<1>22. CASE ResetState
  BY <1>22 DEF ResetState
<1>23. CASE Exit
  BY <1>23 DEF Exit
<1>24. CASE Tick
  BY <1>24 DEF Tick
<1>25. CASE HelperEnds
  BY <1>25 DEF HelperEnds
<1>26. CASE RecorderEnds
  BY <1>26 DEF RecorderEnds
<1>27. CASE TrackerEnds
  BY <1>27 DEF TrackerEnds
<1>28. ASSUME NEW t \in Threads, TakePreset(t) PROVE CleanInv'
  BY <1>28 DEF TakePreset
<1>29. ASSUME NEW t \in Threads, StopPrevious(t) PROVE CleanInv'
  BY <1>29 DEF StopPrevious
<1>30. ASSUME NEW t \in Threads, Program(t) PROVE CleanInv'
  BY <1>30 DEF Program
<1>31. ASSUME NEW t \in Threads, ProgramFails(t) PROVE CleanInv'
  BY <1>31 DEF ProgramFails
<1>32. ASSUME NEW t \in Threads, StartReceivers(t) PROVE CleanInv'
  BY <1>32 DEF StartReceivers
<1>33. ASSUME NEW t \in Threads, TuningDelay(t) PROVE CleanInv'
  BY <1>33 DEF TuningDelay
<1>34. ASSUME NEW t \in Threads, SpawnHelper(t) PROVE CleanInv'
  BY <1>34 DEF SpawnHelper
<1>35. ASSUME NEW t \in Threads, CleanRecorder(t) PROVE CleanInv'
  BY <1>35 DEF CleanRecorder
<1>36. ASSUME NEW t \in Threads, CleanTracker(t) PROVE CleanInv'
  BY <1>36 DEF CleanTracker
<1>37. ASSUME NEW t \in Threads, CleanTrackerStopped(t) PROVE CleanInv'
  BY <1>37 DEF CleanTrackerStopped
<1>38. ASSUME NEW t \in Threads, ForgetTracker(t) PROVE CleanInv'
  BY <1>38 DEF ForgetTracker
<1>39. ASSUME NEW t \in Threads, ReadIdle(t) PROVE CleanInv'
  BY <1>39 DEF ReadIdle
<1>40. ASSUME NEW t \in Threads, CleanIdle(t) PROVE CleanInv'
  BY <1>40 DEF CleanIdle
<1>41. ASSUME NEW t \in Threads, ForgetIdle(t) PROVE CleanInv'
  BY <1>41 DEF ForgetIdle
<1>42. ASSUME NEW t \in Threads, KillFromPidFile(t) PROVE CleanInv'
  BY <1>42 DEF KillFromPidFile
<1>43. ASSUME NEW t \in Threads, CleanStatus(t) PROVE CleanInv'
  BY <1>43 DEF CleanStatus
<1>44. ASSUME NEW w \in Web, UpdateIdleStatus(w) PROVE CleanInv'
  BY <1>44 DEF UpdateIdleStatus
<1>45. ASSUME NEW w \in Web, UpdateIdleStatusFails(w) PROVE CleanInv'
  BY <1>45 DEF UpdateIdleStatusFails
<1>46. ASSUME NEW w \in Web, PresetFailed(w) PROVE CleanInv'
  BY <1>46 DEF PresetFailed
<1>47. ASSUME NEW w \in Web, Shorten(w) PROVE CleanInv'
  BY <1>47 DEF Shorten
<1>48. ASSUME NEW w \in Web, PublishNewKey(w) PROVE CleanInv'
  BY <1>48 DEF PublishNewKey
<1>49. ASSUME NEW w \in Web, RaisePassEnd(w) PROVE CleanInv'
  BY <1>49 DEF RaisePassEnd
<1>50. ASSUME NEW w \in Web, StartRecorder(w) PROVE CleanInv'
  BY <1>50 DEF StartRecorder
<1>51. ASSUME NEW w \in Web, PresetRequest(w) PROVE CleanInv'
  BY <1>51 DEF PresetRequest
<1>52. ASSUME NEW w \in Web, InsertTestPass(w) PROVE CleanInv'
  BY <1>52 DEF InsertTestPass
<1>53. ASSUME NEW w \in Web, EndRequest(w) PROVE CleanInv'
  BY <1>53 DEF EndRequest
<1>54. ASSUME NEW w \in Web, RecordRequest(w) PROVE CleanInv'
  BY <1>54 DEF RecordRequest
<1>55. ASSUME NEW w \in Web, StopRecorder(w) PROVE CleanInv'
  BY <1>55 DEF StopRecorder
<1>56. ASSUME NEW w \in Web, ShutdownRequest(w) PROVE CleanInv'
  BY <1>56 DEF ShutdownRequest
<1>57. CASE UNCHANGED vars
  BY <1>57 DEF vars
<1>58. CASE Reschedule
  BY <1>58 DEF Reschedule
<1> QED
  BY <1>1, <1>2, <1>3, <1>4, <1>5, <1>6, <1>7, <1>8, <1>9, <1>10, <1>11, <1>12, <1>13, <1>14, <1>15, <1>16, <1>17, <1>18, <1>19, <1>20, <1>21, <1>22, <1>23, <1>24, <1>25, <1>26, <1>27, <1>28, <1>29, <1>30, <1>31, <1>32, <1>33, <1>34, <1>35, <1>36, <1>37, <1>38, <1>39, <1>40, <1>41, <1>42, <1>43, <1>44, <1>45, <1>46, <1>47, <1>48, <1>49, <1>50, <1>51, <1>52, <1>53, <1>54, <1>55, <1>56, <1>57, <1>58 DEF Next, MainStep, WebWork, WebRequest, Environment, Apply, Clean, Exited, Threads

\* Unless an exception escapes from the main loop, a scheduler that has exited
\* has left nothing running and no status file (cleanup_helper_programs).
THEOREM ExitSafe == ASSUME ~MainMayFail PROVE Spec => []CleanExit
<1>1. IInv => HelperInv
  BY DEF IInv
<1>2. IInv /\ CleanInv => CleanExit
  BY DEF IInv, TypeOK, TrackInv, CleanInv, CleanExit, Alive, Final, Ended
<1>3. Spec => []CleanInv
  BY <1>1, CleanInit, CleanStep, Invariant, PTL DEF Spec
<1> QED
  BY <1>2, <1>3, Invariant, PTL

LEMMA StationInit == Init => Devices!Init
BY DEF Init, Devices!Init, radio, sound, UsingRadio

LEMMA StationStep == IInv /\ [Next]_vars => [Devices!Next]_<<radio, sound>>
<1> SUFFICES ASSUME IInv, [Next]_vars PROVE [Devices!Next]_<<radio, sound>>
  OBVIOUS
<1> USE ThreadKinds, ThreadsAssumption DEF IInv, TypeOK, DataType, LabelInv, LockInv, TrackInv, HelperTraceable, HandedOver, Exposed, Goto, Entering, Applying, Threads, MainOnly, WebOnly, UsingRadio, StopIdle, Devices!Next, Devices!UseRadio, Devices!LeaveRadio, Devices!UseSound, Devices!LeaveSound, Devices!BeginPass, Devices!EndPass, radio, sound, appVars, lockVars, idleVars, passVars
<1>1. CASE KeepWaiting
  BY <1>1 DEF KeepWaiting
<1>2. CASE NewHead
  BY <1>2 DEF NewHead
<1>3. CASE PassDue
  BY <1>3 DEF PassDue
<1>4. CASE LeaveLoop
  BY <1>4 DEF LeaveLoop
<1>5. CASE StopOldIdle
  BY <1>5 DEF StopOldIdle
<1>6. CASE IdlePause
  BY <1>6 DEF IdlePause
<1>7. CASE BeginIdleStatus
  BY <1>7 DEF BeginIdleStatus
<1>8. CASE StopIdleForPass
  BY <1>8 DEF StopIdleForPass
<1>9. CASE EnterRunPass
  BY <1>9 DEF EnterRunPass
<1>10. CASE ClaimStation
  BY <1>10 DEF ClaimStation
<1>11. CASE StopRecorderForPass
  BY <1>11 DEF StopRecorderForPass
<1>12. CASE HandOver
  BY <1>12 DEF HandOver
<1>13. CASE ClearPassEnd
  BY <1>13 DEF ClearPassEnd
<1>14. CASE ExposePass
  BY <1>14 DEF ExposePass
<1>15. CASE LaunchTracker
  BY <1>15 DEF LaunchTracker
<1>16. CASE LaunchFails
  BY <1>16 DEF LaunchFails
<1>17. CASE PassOver
  BY <1>17 DEF PassOver
<1>18. CASE MarkEnded
  BY <1>18 DEF MarkEnded
<1>19. CASE StopTracker
  BY <1>19 DEF StopTracker
<1>20. CASE CompletePass
  BY <1>20 DEF CompletePass
<1>21. CASE StopIdleAtExit
  BY <1>21 DEF StopIdleAtExit
<1>22. CASE ResetState
  BY <1>22 DEF ResetState
<1>23. CASE Exit
  BY <1>23 DEF Exit
<1>24. CASE Tick
  BY <1>24 DEF Tick
<1>25. CASE HelperEnds
  BY <1>25 DEF HelperEnds
<1>26. CASE RecorderEnds
  BY <1>26 DEF RecorderEnds
<1>27. CASE TrackerEnds
  BY <1>27 DEF TrackerEnds
<1>28. ASSUME NEW t \in Threads, TakePreset(t) PROVE [Devices!Next]_<<radio, sound>>
  BY <1>28 DEF TakePreset
<1>29. ASSUME NEW t \in Threads, StopPrevious(t) PROVE [Devices!Next]_<<radio, sound>>
  BY <1>29 DEF StopPrevious
<1>30. ASSUME NEW t \in Threads, Program(t) PROVE [Devices!Next]_<<radio, sound>>
  BY <1>30 DEF Program
<1>31. ASSUME NEW t \in Threads, ProgramFails(t) PROVE [Devices!Next]_<<radio, sound>>
  BY <1>31 DEF ProgramFails
<1>32. ASSUME NEW t \in Threads, StartReceivers(t) PROVE [Devices!Next]_<<radio, sound>>
  BY <1>32 DEF StartReceivers
<1>33. ASSUME NEW t \in Threads, TuningDelay(t) PROVE [Devices!Next]_<<radio, sound>>
  BY <1>33 DEF TuningDelay
<1>34. ASSUME NEW t \in Threads, SpawnHelper(t) PROVE [Devices!Next]_<<radio, sound>>
  BY <1>34 DEF SpawnHelper
<1>35. ASSUME NEW t \in Threads, CleanRecorder(t) PROVE [Devices!Next]_<<radio, sound>>
  BY <1>35 DEF CleanRecorder
<1>36. ASSUME NEW t \in Threads, CleanTracker(t) PROVE [Devices!Next]_<<radio, sound>>
  BY <1>36 DEF CleanTracker
<1>37. ASSUME NEW t \in Threads, CleanTrackerStopped(t) PROVE [Devices!Next]_<<radio, sound>>
  BY <1>37 DEF CleanTrackerStopped
<1>38. ASSUME NEW t \in Threads, ForgetTracker(t) PROVE [Devices!Next]_<<radio, sound>>
  BY <1>38 DEF ForgetTracker
<1>39. ASSUME NEW t \in Threads, ReadIdle(t) PROVE [Devices!Next]_<<radio, sound>>
  BY <1>39 DEF ReadIdle
<1>40. ASSUME NEW t \in Threads, CleanIdle(t) PROVE [Devices!Next]_<<radio, sound>>
  BY <1>40 DEF CleanIdle
<1>41. ASSUME NEW t \in Threads, ForgetIdle(t) PROVE [Devices!Next]_<<radio, sound>>
  BY <1>41 DEF ForgetIdle
<1>42. ASSUME NEW t \in Threads, KillFromPidFile(t) PROVE [Devices!Next]_<<radio, sound>>
  BY <1>42 DEF KillFromPidFile
<1>43. ASSUME NEW t \in Threads, CleanStatus(t) PROVE [Devices!Next]_<<radio, sound>>
  BY <1>43 DEF CleanStatus
<1>44. ASSUME NEW w \in Web, UpdateIdleStatus(w) PROVE [Devices!Next]_<<radio, sound>>
  BY <1>44 DEF UpdateIdleStatus
<1>45. ASSUME NEW w \in Web, UpdateIdleStatusFails(w) PROVE [Devices!Next]_<<radio, sound>>
  BY <1>45 DEF UpdateIdleStatusFails
<1>46. ASSUME NEW w \in Web, PresetFailed(w) PROVE [Devices!Next]_<<radio, sound>>
  BY <1>46 DEF PresetFailed
<1>47. ASSUME NEW w \in Web, Shorten(w) PROVE [Devices!Next]_<<radio, sound>>
  BY <1>47 DEF Shorten
<1>48. ASSUME NEW w \in Web, PublishNewKey(w) PROVE [Devices!Next]_<<radio, sound>>
  BY <1>48 DEF PublishNewKey
<1>49. ASSUME NEW w \in Web, RaisePassEnd(w) PROVE [Devices!Next]_<<radio, sound>>
  BY <1>49 DEF RaisePassEnd
<1>50. ASSUME NEW w \in Web, StartRecorder(w) PROVE [Devices!Next]_<<radio, sound>>
  BY <1>50 DEF StartRecorder
<1>51. ASSUME NEW w \in Web, PresetRequest(w) PROVE [Devices!Next]_<<radio, sound>>
  BY <1>51 DEF PresetRequest
<1>52. ASSUME NEW w \in Web, InsertTestPass(w) PROVE [Devices!Next]_<<radio, sound>>
  BY <1>52 DEF InsertTestPass
<1>53. ASSUME NEW w \in Web, EndRequest(w) PROVE [Devices!Next]_<<radio, sound>>
  BY <1>53 DEF EndRequest
<1>54. ASSUME NEW w \in Web, RecordRequest(w) PROVE [Devices!Next]_<<radio, sound>>
  BY <1>54 DEF RecordRequest
<1>55. ASSUME NEW w \in Web, StopRecorder(w) PROVE [Devices!Next]_<<radio, sound>>
  BY <1>55 DEF StopRecorder
<1>56. ASSUME NEW w \in Web, ShutdownRequest(w) PROVE [Devices!Next]_<<radio, sound>>
  BY <1>56 DEF ShutdownRequest
<1>57. CASE UNCHANGED vars
  BY <1>57 DEF vars
<1>58. CASE Reschedule
  BY <1>58 DEF Reschedule
<1> QED
  BY <1>1, <1>2, <1>3, <1>4, <1>5, <1>6, <1>7, <1>8, <1>9, <1>10, <1>11, <1>12, <1>13, <1>14, <1>15, <1>16, <1>17, <1>18, <1>19, <1>20, <1>21, <1>22, <1>23, <1>24, <1>25, <1>26, <1>27, <1>28, <1>29, <1>30, <1>31, <1>32, <1>33, <1>34, <1>35, <1>36, <1>37, <1>38, <1>39, <1>40, <1>41, <1>42, <1>43, <1>44, <1>45, <1>46, <1>47, <1>48, <1>49, <1>50, <1>51, <1>52, <1>53, <1>54, <1>55, <1>56, <1>57, <1>58 DEF Next, MainStep, WebWork, WebRequest, Environment, Apply, Clean, Exited, Threads

\* The scheduler implements Station: the radio and the sound input change
\* hands between presets, menu recordings and passes only when free.
THEOREM ImplementsStation == Spec => StationSpec
BY StationInit, StationStep, Invariant, PTL DEF Spec, StationSpec, Devices!Spec

-----------------------------------------------------------------------------
LEMMA TakenStep == TypeOK /\ LabelInv /\ TakenInv /\ [Next]_vars => TakenInv'
<1> SUFFICES ASSUME TypeOK, LabelInv, TakenInv, [Next]_vars PROVE TakenInv'
  OBVIOUS
<1> USE ThreadKinds, ThreadsAssumption DEF TypeOK, DataType, LabelInv, TakenInv, Goto, Underway, HandedOver, Exposed, Entering, Applying, Final, Ended, Cleanup, MainOnly, WebOnly, Threads, appVars, lockVars, idleVars, passVars
<1>1. CASE KeepWaiting
  BY <1>1 DEF KeepWaiting
<1>2. CASE NewHead
  BY <1>2 DEF NewHead
<1>3. CASE PassDue
  <2>1. PICK p \in passes : p.end > now /\ p \notin completed /\ entry' = p
    BY <1>3 DEF PassDue, Heads, Pending
  <2>2. /\ pc[Main] = "loop" /\ pc'[Main] = "passFirst"
        /\ passes' = passes /\ taken' = taken \cup {p.id} /\ completed \subseteq completed'
        /\ now' = now
    BY <1>3, <2>1 DEF PassDue
  <2>3. p.id \notin taken
    <3>1. ~(p.end <= now)
      BY <2>1 DEF Pass, Time
    <3> QED
      BY <2>1, <2>2, <3>1
  <2> QED
    BY <2>1, <2>2, <2>3
<1>4. CASE LeaveLoop
  BY <1>4 DEF LeaveLoop
<1>5. CASE StopOldIdle
  BY <1>5 DEF StopOldIdle
<1>6. CASE IdlePause
  BY <1>6 DEF IdlePause
<1>7. CASE BeginIdleStatus
  BY <1>7 DEF BeginIdleStatus
<1>8. CASE StopIdleForPass
  BY <1>8 DEF StopIdleForPass
<1>9. CASE EnterRunPass
  BY <1>9 DEF EnterRunPass
<1>10. CASE ClaimStation
  BY <1>10 DEF ClaimStation
<1>11. CASE StopRecorderForPass
  BY <1>11 DEF StopRecorderForPass
<1>12. CASE HandOver
  BY <1>12 DEF HandOver
<1>13. CASE ClearPassEnd
  BY <1>13 DEF ClearPassEnd
<1>14. CASE ExposePass
  BY <1>14 DEF ExposePass
<1>15. CASE LaunchTracker
  BY <1>15 DEF LaunchTracker
<1>16. CASE LaunchFails
  BY <1>16 DEF LaunchFails
<1>17. CASE PassOver
  BY <1>17 DEF PassOver
<1>18. CASE MarkEnded
  BY <1>18 DEF MarkEnded
<1>19. CASE StopTracker
  BY <1>19 DEF StopTracker
<1>20. CASE CompletePass
  BY <1>20 DEF CompletePass
<1>21. CASE StopIdleAtExit
  BY <1>21 DEF StopIdleAtExit
<1>22. CASE ResetState
  BY <1>22 DEF ResetState
<1>23. CASE Exit
  BY <1>23 DEF Exit
<1>24. CASE Tick
  <2>1. \A p \in passes : p.end <= now => p.end <= now'
    BY <1>24 DEF Tick, Pass, Time
  <2> QED
    BY <1>24, <2>1 DEF Tick
<1>25. CASE HelperEnds
  BY <1>25 DEF HelperEnds
<1>26. CASE RecorderEnds
  BY <1>26 DEF RecorderEnds
<1>27. CASE TrackerEnds
  BY <1>27 DEF TrackerEnds
<1>28. ASSUME NEW t \in Threads, TakePreset(t) PROVE TakenInv'
  BY <1>28 DEF TakePreset
<1>29. ASSUME NEW t \in Threads, StopPrevious(t) PROVE TakenInv'
  BY <1>29 DEF StopPrevious
<1>30. ASSUME NEW t \in Threads, Program(t) PROVE TakenInv'
  BY <1>30 DEF Program
<1>31. ASSUME NEW t \in Threads, ProgramFails(t) PROVE TakenInv'
  BY <1>31 DEF ProgramFails
<1>32. ASSUME NEW t \in Threads, StartReceivers(t) PROVE TakenInv'
  BY <1>32 DEF StartReceivers
<1>33. ASSUME NEW t \in Threads, TuningDelay(t) PROVE TakenInv'
  BY <1>33 DEF TuningDelay
<1>34. ASSUME NEW t \in Threads, SpawnHelper(t) PROVE TakenInv'
  BY <1>34 DEF SpawnHelper
<1>35. ASSUME NEW t \in Threads, CleanRecorder(t) PROVE TakenInv'
  BY <1>35 DEF CleanRecorder
<1>36. ASSUME NEW t \in Threads, CleanTracker(t) PROVE TakenInv'
  BY <1>36 DEF CleanTracker
<1>37. ASSUME NEW t \in Threads, CleanTrackerStopped(t) PROVE TakenInv'
  BY <1>37 DEF CleanTrackerStopped
<1>38. ASSUME NEW t \in Threads, ForgetTracker(t) PROVE TakenInv'
  BY <1>38 DEF ForgetTracker
<1>39. ASSUME NEW t \in Threads, ReadIdle(t) PROVE TakenInv'
  BY <1>39 DEF ReadIdle
<1>40. ASSUME NEW t \in Threads, CleanIdle(t) PROVE TakenInv'
  BY <1>40 DEF CleanIdle
<1>41. ASSUME NEW t \in Threads, ForgetIdle(t) PROVE TakenInv'
  BY <1>41 DEF ForgetIdle
<1>42. ASSUME NEW t \in Threads, KillFromPidFile(t) PROVE TakenInv'
  BY <1>42 DEF KillFromPidFile
<1>43. ASSUME NEW t \in Threads, CleanStatus(t) PROVE TakenInv'
  BY <1>43 DEF CleanStatus
<1>44. ASSUME NEW w \in Web, UpdateIdleStatus(w) PROVE TakenInv'
  BY <1>44 DEF UpdateIdleStatus
<1>45. ASSUME NEW w \in Web, UpdateIdleStatusFails(w) PROVE TakenInv'
  BY <1>45 DEF UpdateIdleStatusFails
<1>46. ASSUME NEW w \in Web, PresetFailed(w) PROVE TakenInv'
  BY <1>46 DEF PresetFailed
<1>47. ASSUME NEW w \in Web, Shorten(w) PROVE TakenInv'
  <2> DEFINE key == endKey[w]
             new == [key EXCEPT !.end = now]
  <2>1. CASE key \in passes
    <3>1. passes' = (passes \ {key}) \cup {new}
      BY <1>47, <2>1 DEF Shorten
    <3>2. UNCHANGED <<taken, completed, entry, now>> /\ pc'[Main] = pc[Main]
      BY <1>47, <2>1 DEF Shorten
    <3>3. new.id = key.id /\ new.end = now /\ now <= now
      BY <2>1 DEF Pass, Time
    <3> HIDE DEF key, new
    <3> QED
      BY <2>1, <3>1, <3>2, <3>3
  <2>2. CASE key \notin passes
    BY <1>47, <2>2 DEF Shorten
  <2> QED
    BY <2>1, <2>2
<1>48. ASSUME NEW w \in Web, PublishNewKey(w) PROVE TakenInv'
  BY <1>48 DEF PublishNewKey
<1>49. ASSUME NEW w \in Web, RaisePassEnd(w) PROVE TakenInv'
  BY <1>49 DEF RaisePassEnd
<1>50. ASSUME NEW w \in Web, StartRecorder(w) PROVE TakenInv'
  BY <1>50 DEF StartRecorder
<1>51. ASSUME NEW w \in Web, PresetRequest(w) PROVE TakenInv'
  BY <1>51 DEF PresetRequest
<1>52. ASSUME NEW w \in Web, InsertTestPass(w) PROVE TakenInv'
  BY <1>52 DEF InsertTestPass
<1>53. ASSUME NEW w \in Web, EndRequest(w) PROVE TakenInv'
  BY <1>53 DEF EndRequest
<1>54. ASSUME NEW w \in Web, RecordRequest(w) PROVE TakenInv'
  BY <1>54 DEF RecordRequest
<1>55. ASSUME NEW w \in Web, StopRecorder(w) PROVE TakenInv'
  BY <1>55 DEF StopRecorder
<1>56. ASSUME NEW w \in Web, ShutdownRequest(w) PROVE TakenInv'
  BY <1>56 DEF ShutdownRequest
<1>57. CASE UNCHANGED vars
  BY <1>57 DEF vars
<1>58. CASE Reschedule
  <2>1. PICK kept \in SUBSET InitPasses, s \in Searches :
          passes' = {[p EXCEPT !.start = IF p.start + s.later < now THEN now ELSE p.start + s.later,
                               !.end = p.end + s.later] :
                       p \in {q \in kept : q.end + s.later \in now + 1 .. Horizon}}
    BY ONLY <1>58, Zenon DEF Reschedule
  <2> DEFINE Later(p) ==
               [p EXCEPT !.start = IF p.start + s.later < now THEN now ELSE p.start + s.later,
                         !.end = p.end + s.later]
             found == {q \in kept : q.end + s.later \in now + 1 .. Horizon}
  <2>2. passes' = {Later(p) : p \in found}
    BY ONLY <2>1
  <2>3. \A p \in found : Later(p).id = p.id
    BY PassAssumption DEF Pass
  <2>6. \A p, q \in found : p.id = q.id => p = q
    BY PassAssumption
  <2> HIDE DEF Later, found
  <2>4. \A p, q \in passes' : p.id = q.id => p = q
    BY ONLY <2>2, <2>3, <2>6
  <2>5. taken' = {}
    BY <1>58 DEF Reschedule
  <2> QED
    BY <2>4, <2>5
<1> QED
  BY <1>1, <1>2, <1>3, <1>4, <1>5, <1>6, <1>7, <1>8, <1>9, <1>10, <1>11, <1>12, <1>13, <1>14, <1>15, <1>16, <1>17, <1>18, <1>19, <1>20, <1>21, <1>22, <1>23, <1>24, <1>25, <1>26, <1>27, <1>28, <1>29, <1>30, <1>31, <1>32, <1>33, <1>34, <1>35, <1>36, <1>37, <1>38, <1>39, <1>40, <1>41, <1>42, <1>43, <1>44, <1>45, <1>46, <1>47, <1>48, <1>49, <1>50, <1>51, <1>52, <1>53, <1>54, <1>55, <1>56, <1>57, <1>58 DEF Next, MainStep, WebWork, WebRequest, Environment, Apply, Clean, Exited, Threads

LEMMA TakenInit == Init => TakenInv
BY PassAssumption DEF Init, TakenInv

LEMMA TurnsToPass ==
    ASSUME TypeOK, LabelInv, Next, pc[Main] = "loop", pc'[Main] = "passFirst"
    PROVE  PassDue
<1> USE ThreadKinds, ThreadsAssumption DEF TypeOK, LabelInv, Goto, Applying, Cleanup, Entering, MainOnly, WebOnly, Threads, passVars
<1>1. ~KeepWaiting
  BY DEF KeepWaiting
<1>2. ~NewHead
  BY DEF NewHead
<1>3. ~LeaveLoop
  BY DEF LeaveLoop
<1>4. ~StopOldIdle
  BY DEF StopOldIdle
<1>5. ~IdlePause
  BY DEF IdlePause
<1>6. ~BeginIdleStatus
  BY DEF BeginIdleStatus
<1>7. ~StopIdleForPass
  BY DEF StopIdleForPass
<1>8. ~EnterRunPass
  BY DEF EnterRunPass
<1>9. ~ClaimStation
  BY DEF ClaimStation
<1>10. ~StopRecorderForPass
  BY DEF StopRecorderForPass
<1>11. ~HandOver
  BY DEF HandOver
<1>12. ~ClearPassEnd
  BY DEF ClearPassEnd
<1>13. ~ExposePass
  BY DEF ExposePass
<1>14. ~LaunchTracker
  BY DEF LaunchTracker
<1>15. ~LaunchFails
  BY DEF LaunchFails
<1>16. ~PassOver
  BY DEF PassOver
<1>17. ~MarkEnded
  BY DEF MarkEnded
<1>18. ~StopTracker
  BY DEF StopTracker
<1>19. ~CompletePass
  BY DEF CompletePass
<1>20. ~StopIdleAtExit
  BY DEF StopIdleAtExit
<1>21. ~ResetState
  BY DEF ResetState
<1>22. ~Exit
  BY DEF Exit
<1>23. ~Tick
  BY DEF Tick
<1>24. ~HelperEnds
  BY DEF HelperEnds
<1>25. ~RecorderEnds
  BY DEF RecorderEnds
<1>26. ~TrackerEnds
  BY DEF TrackerEnds
<1>27. ASSUME NEW t \in Threads PROVE ~TakePreset(t)
  BY DEF TakePreset
<1>28. ASSUME NEW t \in Threads PROVE ~StopPrevious(t)
  BY DEF StopPrevious
<1>29. ASSUME NEW t \in Threads PROVE ~Program(t)
  BY DEF Program
<1>30. ASSUME NEW t \in Threads PROVE ~ProgramFails(t)
  BY DEF ProgramFails
<1>31. ASSUME NEW t \in Threads PROVE ~StartReceivers(t)
  BY DEF StartReceivers
<1>32. ASSUME NEW t \in Threads PROVE ~TuningDelay(t)
  BY DEF TuningDelay
<1>33. ASSUME NEW t \in Threads PROVE ~SpawnHelper(t)
  BY DEF SpawnHelper
<1>34. ASSUME NEW t \in Threads PROVE ~CleanRecorder(t)
  BY DEF CleanRecorder
<1>35. ASSUME NEW t \in Threads PROVE ~CleanTracker(t)
  BY DEF CleanTracker
<1>36. ASSUME NEW t \in Threads PROVE ~CleanTrackerStopped(t)
  BY DEF CleanTrackerStopped
<1>37. ASSUME NEW t \in Threads PROVE ~ForgetTracker(t)
  BY DEF ForgetTracker
<1>38. ASSUME NEW t \in Threads PROVE ~ReadIdle(t)
  BY DEF ReadIdle
<1>39. ASSUME NEW t \in Threads PROVE ~CleanIdle(t)
  BY DEF CleanIdle
<1>40. ASSUME NEW t \in Threads PROVE ~ForgetIdle(t)
  BY DEF ForgetIdle
<1>41. ASSUME NEW t \in Threads PROVE ~KillFromPidFile(t)
  BY DEF KillFromPidFile
<1>42. ASSUME NEW t \in Threads PROVE ~CleanStatus(t)
  BY DEF CleanStatus
<1>43. ASSUME NEW w \in Web PROVE ~UpdateIdleStatus(w)
  BY DEF UpdateIdleStatus
<1>44. ASSUME NEW w \in Web PROVE ~UpdateIdleStatusFails(w)
  BY DEF UpdateIdleStatusFails
<1>45. ASSUME NEW w \in Web PROVE ~PresetFailed(w)
  BY DEF PresetFailed
<1>46. ASSUME NEW w \in Web PROVE ~Shorten(w)
  BY DEF Shorten
<1>47. ASSUME NEW w \in Web PROVE ~PublishNewKey(w)
  BY DEF PublishNewKey
<1>48. ASSUME NEW w \in Web PROVE ~RaisePassEnd(w)
  BY DEF RaisePassEnd
<1>49. ASSUME NEW w \in Web PROVE ~StartRecorder(w)
  BY DEF StartRecorder
<1>50. ASSUME NEW w \in Web PROVE ~PresetRequest(w)
  BY DEF PresetRequest
<1>51. ASSUME NEW w \in Web PROVE ~InsertTestPass(w)
  BY DEF InsertTestPass
<1>52. ASSUME NEW w \in Web PROVE ~EndRequest(w)
  BY DEF EndRequest
<1>53. ASSUME NEW w \in Web PROVE ~RecordRequest(w)
  BY DEF RecordRequest
<1>54. ASSUME NEW w \in Web PROVE ~StopRecorder(w)
  BY DEF StopRecorder
<1>55. ASSUME NEW w \in Web PROVE ~ShutdownRequest(w)
  BY DEF ShutdownRequest
<1>56. ~Reschedule
  BY DEF Reschedule
<1>57. ~UNCHANGED vars
  BY DEF vars
<1> QED
  BY <1>1, <1>2, <1>3, <1>4, <1>5, <1>6, <1>7, <1>8, <1>9, <1>10, <1>11, <1>12, <1>13, <1>14, <1>15, <1>16, <1>17, <1>18, <1>19, <1>20, <1>21, <1>22, <1>23, <1>24, <1>25, <1>26, <1>27, <1>28, <1>29, <1>30, <1>31, <1>32, <1>33, <1>34, <1>35, <1>36, <1>37, <1>38, <1>39, <1>40, <1>41, <1>42, <1>43, <1>44, <1>45, <1>46, <1>47, <1>48, <1>49, <1>50, <1>51, <1>52, <1>53, <1>54, <1>55, <1>56, <1>57 DEF Next, MainStep, WebWork, WebRequest, Environment, Apply, Clean, Exited, Threads

\* No pass is taken up twice from one schedule, though End Current Pass gives the
\* running one a new key and the loop completes the old one (_main_owned,
\* _shorten_schedule_pass_end).
THEOREM OnceSafe == Spec => LaunchedOnce
<1>1. IInv /\ TakenInv /\ [Next]_vars =>
        [pc[Main] = "loop" /\ pc'[Main] = "passFirst" => entry'.id \notin taken]_vars
  <2> SUFFICES ASSUME IInv, TakenInv, Next, pc[Main] = "loop", pc'[Main] = "passFirst"
               PROVE  entry'.id \notin taken
    OBVIOUS
  <2>1. PassDue
    BY TurnsToPass DEF IInv
  <2>2. PICK p \in passes : p.end > now /\ p \notin completed /\ entry' = p
    BY <2>1 DEF PassDue, Heads, Pending
  <2>3. ~(p.end <= now)
    BY <2>2 DEF IInv, TypeOK, DataType, Pass, Time
  <2>4. "loop" \notin Underway
    BY DEF Underway, HandedOver, Entering, Final, Ended, Cleanup
  <2> QED
    BY <2>2, <2>3, <2>4 DEF TakenInv
<1>2. Spec => []TakenInv
  <2>1. IInv /\ TakenInv /\ [Next]_vars => TakenInv'
    BY TakenStep DEF IInv
  <2> QED
    BY <2>1, TakenInit, Invariant, PTL DEF Spec
<1> QED
  BY <1>1, <1>2, Invariant, PTL DEF Spec, LaunchedOnce

-----------------------------------------------------------------------------
\* Who holds a lock is where the code gives it back: nobody leaves with one.
HoldInv ==
  /\ presetLock # NoOne => \/ pc[presetLock] \in Applying
                           \/ presetLock = Main /\ pc[Main] \in Entering
  /\ audioLock # NoOne => audioLock \in Web /\ pc[audioLock] = "record"

\* The lock a thread's next step takes, other than its own.
Wants(t) ==
  CASE pc[t] \in {"want", "idleFirst", "passFirst", "claim", "quit", "cStopIdle"} -> "preset"
    [] pc[t] \in {"recorderOff", "cAudio"} -> "audio"
    [] OTHER -> "none"

\* Thread t cannot go on before thread u has given back a lock.
WaitsFor(t, u) ==
  \/ Wants(t) = "preset" /\ presetLock = u
  \/ Wants(t) = "audio" /\ audioLock = u

\* No thread waits for itself or, over any number of others, for one that waits
\* for it: who holds the recording's lock waits for nobody, and who holds the
\* preset's waits at most for that one.
NoWaitCycle ==
  \A t, u, v \in Threads :
    WaitsFor(t, u) /\ WaitsFor(u, v) =>
      /\ pc[u] = "recorderOff" /\ pc[v] = "record"
      /\ \A x \in Threads : ~WaitsFor(v, x)

LEMMA HoldInit == Init => HoldInv
BY DEF Init, HoldInv

LEMMA HoldStep == TypeOK /\ LabelInv /\ HoldInv /\ [Next]_vars => HoldInv'
<1> SUFFICES ASSUME TypeOK, LabelInv, HoldInv, [Next]_vars PROVE HoldInv'
  OBVIOUS
<1> USE ThreadKinds, ThreadsAssumption DEF TypeOK, LabelInv, HoldInv, Goto, Entering, Applying, Threads, MainOnly, WebOnly, appVars, lockVars, idleVars, passVars
<1>1. CASE KeepWaiting
  BY <1>1 DEF KeepWaiting
<1>2. CASE NewHead
  BY <1>2 DEF NewHead
<1>3. CASE PassDue
  BY <1>3 DEF PassDue
<1>4. CASE LeaveLoop
  BY <1>4 DEF LeaveLoop
<1>5. CASE StopOldIdle
  BY <1>5 DEF StopOldIdle
<1>6. CASE IdlePause
  <2>1. /\ pc[Main] = "sleep" /\ UNCHANGED <<presetLock, audioLock>>
        /\ \E l \in {"loop", "want"} : pc' = [pc EXCEPT ![Main] = l]
    BY <1>6 DEF IdlePause
  <2> QED
    BY <2>1
<1>7. CASE BeginIdleStatus
  BY <1>7 DEF BeginIdleStatus
<1>8. CASE StopIdleForPass
  BY <1>8 DEF StopIdleForPass
<1>9. CASE EnterRunPass
  BY <1>9 DEF EnterRunPass
<1>10. CASE ClaimStation
  BY <1>10 DEF ClaimStation
<1>11. CASE StopRecorderForPass
  BY <1>11 DEF StopRecorderForPass
<1>12. CASE HandOver
  BY <1>12 DEF HandOver
<1>13. CASE ClearPassEnd
  BY <1>13 DEF ClearPassEnd
<1>14. CASE ExposePass
  BY <1>14 DEF ExposePass
<1>15. CASE LaunchTracker
  BY <1>15 DEF LaunchTracker
<1>16. CASE LaunchFails
  BY <1>16 DEF LaunchFails
<1>17. CASE PassOver
  BY <1>17 DEF PassOver
<1>18. CASE MarkEnded
  BY <1>18 DEF MarkEnded
<1>19. CASE StopTracker
  BY <1>19 DEF StopTracker
<1>20. CASE CompletePass
  BY <1>20 DEF CompletePass
<1>21. CASE StopIdleAtExit
  BY <1>21 DEF StopIdleAtExit
<1>22. CASE ResetState
  BY <1>22 DEF ResetState
<1>23. CASE Exit
  BY <1>23 DEF Exit
<1>24. CASE Tick
  BY <1>24 DEF Tick
<1>25. CASE HelperEnds
  BY <1>25 DEF HelperEnds
<1>26. CASE RecorderEnds
  BY <1>26 DEF RecorderEnds
<1>27. CASE TrackerEnds
  BY <1>27 DEF TrackerEnds
<1>28. ASSUME NEW t \in Threads, TakePreset(t) PROVE HoldInv'
  BY <1>28 DEF TakePreset
<1>29. ASSUME NEW t \in Threads, StopPrevious(t) PROVE HoldInv'
  BY <1>29 DEF StopPrevious
<1>30. ASSUME NEW t \in Threads, Program(t) PROVE HoldInv'
  BY <1>30 DEF Program
<1>31. ASSUME NEW t \in Threads, ProgramFails(t) PROVE HoldInv'
  <2>1. CASE /\ pc[t] = "program" /\ pc' = [pc EXCEPT ![t] = "fail"]
             /\ UNCHANGED <<presetLock, audioLock>>
    BY <2>1
  <2>2. CASE /\ pc[t] = "program" /\ pc' = [pc EXCEPT ![t] = "cAudio"]
             /\ presetLock' = NoOne /\ UNCHANGED audioLock
    BY <2>2
  <2> QED
    BY <1>31, <2>1, <2>2 DEF ProgramFails
<1>32. ASSUME NEW t \in Threads, StartReceivers(t) PROVE HoldInv'
  <2>1. /\ pc[t] = "start" /\ UNCHANGED <<presetLock, audioLock>>
        /\ \E l \in {"status", "delay"} : pc' = [pc EXCEPT ![t] = l]
    BY <1>32 DEF StartReceivers
  <2> QED
    BY <2>1
<1>33. ASSUME NEW t \in Threads, TuningDelay(t) PROVE HoldInv'
  <2>1. /\ pc[t] = "delay" /\ UNCHANGED <<presetLock, audioLock>>
        /\ \E l \in {"status", "spawn"} : pc' = [pc EXCEPT ![t] = l]
    BY <1>33 DEF TuningDelay
  <2> QED
    BY <2>1
<1>34. ASSUME NEW t \in Threads, SpawnHelper(t) PROVE HoldInv'
  BY <1>34 DEF SpawnHelper
<1>35. ASSUME NEW t \in Threads, CleanRecorder(t) PROVE HoldInv'
  BY <1>35 DEF CleanRecorder
<1>36. ASSUME NEW t \in Threads, CleanTracker(t) PROVE HoldInv'
  BY <1>36 DEF CleanTracker
<1>37. ASSUME NEW t \in Threads, CleanTrackerStopped(t) PROVE HoldInv'
  BY <1>37 DEF CleanTrackerStopped
<1>38. ASSUME NEW t \in Threads, ForgetTracker(t) PROVE HoldInv'
  BY <1>38 DEF ForgetTracker
<1>39. ASSUME NEW t \in Threads, ReadIdle(t) PROVE HoldInv'
  BY <1>39 DEF ReadIdle
<1>40. ASSUME NEW t \in Threads, CleanIdle(t) PROVE HoldInv'
  BY <1>40 DEF CleanIdle
<1>41. ASSUME NEW t \in Threads, ForgetIdle(t) PROVE HoldInv'
  BY <1>41 DEF ForgetIdle
<1>42. ASSUME NEW t \in Threads, KillFromPidFile(t) PROVE HoldInv'
  BY <1>42 DEF KillFromPidFile
<1>43. ASSUME NEW t \in Threads, CleanStatus(t) PROVE HoldInv'
  BY <1>43 DEF CleanStatus
<1>44. ASSUME NEW w \in Web, UpdateIdleStatus(w) PROVE HoldInv'
  BY <1>44 DEF UpdateIdleStatus
<1>45. ASSUME NEW w \in Web, UpdateIdleStatusFails(w) PROVE HoldInv'
  BY <1>45 DEF UpdateIdleStatusFails
<1>46. ASSUME NEW w \in Web, PresetFailed(w) PROVE HoldInv'
  BY <1>46 DEF PresetFailed
<1>47. ASSUME NEW w \in Web, Shorten(w) PROVE HoldInv'
  <2>1. /\ pc[w] = "shorten" /\ UNCHANGED <<presetLock, audioLock>>
        /\ \E l \in {"ready", "newKey", "endEvent"} : pc' = [pc EXCEPT ![w] = l]
    BY <1>47 DEF Shorten
  <2> QED
    BY <2>1
<1>48. ASSUME NEW w \in Web, PublishNewKey(w) PROVE HoldInv'
  BY <1>48 DEF PublishNewKey
<1>49. ASSUME NEW w \in Web, RaisePassEnd(w) PROVE HoldInv'
  BY <1>49 DEF RaisePassEnd
<1>50. ASSUME NEW w \in Web, StartRecorder(w) PROVE HoldInv'
  BY <1>50 DEF StartRecorder
<1>51. ASSUME NEW w \in Web, PresetRequest(w) PROVE HoldInv'
  BY <1>51 DEF PresetRequest
<1>52. ASSUME NEW w \in Web, InsertTestPass(w) PROVE HoldInv'
  BY <1>52 DEF InsertTestPass
<1>53. ASSUME NEW w \in Web, EndRequest(w) PROVE HoldInv'
  BY <1>53 DEF EndRequest
<1>54. ASSUME NEW w \in Web, RecordRequest(w) PROVE HoldInv'
  BY <1>54 DEF RecordRequest
<1>55. ASSUME NEW w \in Web, StopRecorder(w) PROVE HoldInv'
  BY <1>55 DEF StopRecorder
<1>56. ASSUME NEW w \in Web, ShutdownRequest(w) PROVE HoldInv'
  BY <1>56 DEF ShutdownRequest
<1>57. CASE UNCHANGED vars
  BY <1>57 DEF vars
<1>58. CASE Reschedule
  BY <1>58 DEF Reschedule
<1> QED
  BY <1>1, <1>2, <1>3, <1>4, <1>5, <1>6, <1>7, <1>8, <1>9, <1>10, <1>11, <1>12, <1>13, <1>14, <1>15, <1>16, <1>17, <1>18, <1>19, <1>20, <1>21, <1>22, <1>23, <1>24, <1>25, <1>26, <1>27, <1>28, <1>29, <1>30, <1>31, <1>32, <1>33, <1>34, <1>35, <1>36, <1>37, <1>38, <1>39, <1>40, <1>41, <1>42, <1>43, <1>44, <1>45, <1>46, <1>47, <1>48, <1>49, <1>50, <1>51, <1>52, <1>53, <1>54, <1>55, <1>56, <1>57, <1>58 DEF Next, MainStep, WebWork, WebRequest, Environment, Apply, Clean, Exited, Threads

\* The threads of the scheduler never wait for one another in a circle, with any
\* number of web threads (PRESET_LIFECYCLE_LOCK is taken before
\* AUDIO_RECORDING_LOCK in run_pass and nowhere after it), and no error path
\* leaves one of the two locks behind.
THEOREM LockSafe == Spec => [](HoldInv /\ NoWaitCycle)
<1>1. IInv /\ HoldInv /\ [Next]_vars => HoldInv'
  BY HoldStep DEF IInv
<1>2. IInv /\ HoldInv => HoldInv /\ NoWaitCycle
  <2> SUFFICES ASSUME HoldInv,
                      NEW t \in Threads, NEW u \in Threads, NEW v \in Threads,
                      WaitsFor(t, u), WaitsFor(u, v)
               PROVE  /\ pc[u] = "recorderOff" /\ pc[v] = "record"
                      /\ \A x \in Threads : ~WaitsFor(v, x)
    BY DEF NoWaitCycle
  <2> USE ThreadKinds, ThreadsAssumption DEF HoldInv, WaitsFor, Wants, Threads
  <2>1. CASE presetLock = u
    BY <2>1 DEF Applying, Entering
  <2>2. CASE audioLock = u
    BY <2>2
  <2> QED
    BY <2>1, <2>2
<1> QED
  BY <1>1, <1>2, HoldInit, Invariant, PTL DEF Spec
=============================================================================
