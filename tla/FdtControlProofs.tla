-------------------------- MODULE FdtControlProofs --------------------------
(***************************************************************************)
(* For any number of request threads, passes and requests, any passbands   *)
(* and any Doppler shift.                                                  *)
(***************************************************************************)
EXTENDS FdtControl, TLAPS

\* Threads inside a critical section of FDT_TUNING_LOCK.
Clicking == {"tnSetDown", "tnSetUp", "tnBack", "tnWrite", "tnReplace"}
Holding == Clicking \cup {"enReplace", "ivReplace"}

LockInv == \A w \in Web : pc[w] \in Holding <=> lock = w

\* What a thread is about to publish was computed from the file that is there.
Clicked(w, dir) ==
  /\ pay[w].d = file.d + dir /\ pay[w].d \in DownBand
  /\ pay[w].u = file.u + UplinkStep(dir) /\ pay[w].u \in UpBand
  /\ pay[w].by = "wheel"
Anchoring == {"enSetDown", "enSetUp", "enWrite", "enReplace"}
PayInv ==
  \A w \in Web :
    /\ pc[w] \in Clicking => file # NoFile /\ \E dir \in {-1, 1} : Clicked(w, dir)
    /\ pc[w] = "ivReplace" =>
         /\ file # NoFile
         /\ pay[w].d = file.d /\ pay[w].u = file.u /\ pay[w].by = file.by
    /\ pc[w] \in Anchoring => pay[w].by = "radio"

\* The end of the pass is marked before FDT is cleared for it.
MainInv ==
  /\ main \in {"clearEnded", "stopping", "complete"} => passEnd
  /\ main = "exited" => shutdown

\* Every payload on its way to the file has a timestamp of its own.
Stamping == {"enSetDown", "enSetUp", "enWrite", "enReplace", "ivReplace", "tnReplace"}
FileStamp == file # NoFile => file.stamp \in 1..stamps
TrackerStamp == trk.stamp \in 0..stamps
FreshStamp ==
  \A w \in Web : pc[w] \in Stamping =>
    /\ pay[w].stamp \in 1..stamps
    /\ trk.stamp # pay[w].stamp
    /\ file # NoFile => file.stamp # pay[w].stamp
    /\ \A v \in Web \ {w} : pc[v] \in Stamping => pay[v].stamp # pay[w].stamp

BossType ==
  /\ main \in MainLabel /\ pass \in 0..MaxPass
  /\ exposed \in BOOLEAN /\ tracking \in BOOLEAN
  /\ passEnd \in BOOLEAN /\ shutdown \in BOOLEAN
  /\ lock \in Web \cup {NoOne} /\ acts \in Nat /\ stamps \in Nat
DataType ==
  /\ every \in Cadence
  /\ file \in Payload \cup {NoFile}
  /\ want \in [Web -> Cadence]
  /\ pay \in [Web -> Payload]
RadioType ==
  /\ radio \in Tuning /\ status \in Nat \cup {NoStatus}
  /\ seen \in [Web -> Nat \cup {NoStatus}]
  /\ old \in [Web -> Tuning]
  /\ trk \in Tracker
ThreadType ==
  /\ pc \in [Web -> WebLabel]
  /\ then \in [Web -> {"ready", "enReadDown"}]

\* A thread that programs the radio has read a Doppler shift.
SeenInv ==
  \A w \in Web :
    pc[w] \in {"enReadUp", "enSetDown", "enSetUp", "tnSetDown", "tnSetUp", "tnBack", "tnWrite"}
      => seen[w] \in Nat

SafeInv == TypeOK /\ SeenInv /\ LockInv /\ PayInv /\ MainInv /\ StaysCleared
StampInv == FileStamp /\ TrackerStamp /\ FreshStamp /\ KnownBase
IInv == SafeInv /\ StampInv

LEMMA TypeParts == TypeOK <=> BossType /\ DataType /\ RadioType /\ ThreadType
BY DEF TypeOK, BossType, DataType, RadioType, ThreadType

LEMMA StampedType ==
  ASSUME NEW p \in Payload, NEW e \in Cadence, stamps \in Nat
  PROVE  LET q == Stamped(p, e) IN
         q \in Payload /\ q.d = p.d /\ q.u = p.u /\ q.by = p.by /\ q.stamp = stamps + 1
<1>1. ASSUME NEW n \in Nat 
      PROVE LET q == [p EXCEPT !.every = e, !.stamp = n] IN
            q \in Payload /\ q.d = p.d /\ q.u = p.u /\ q.by = p.by /\ q.stamp = n
  BY DEF Payload
<1>2. stamps + 1 \in Nat
  OBVIOUS
<1> QED
  BY <1>1, <1>2 DEF Stamped

LEMMA Retuned ==
  ASSUME NEW p \in Payload, NEW d \in Int, NEW u \in Int, NEW b \in Source
  PROVE  LET q == [p EXCEPT !.d = d, !.u = u, !.by = b] IN
         q \in Payload /\ q.d = d /\ q.u = u /\ q.by = b /\ q.stamp = p.stamp
BY DEF Payload

LEMMA TrackerTypes ==
  /\ NewTracker \in Tracker /\ NewTracker.stamp = 0
  /\ NoTracker \in Tracker /\ NoTracker.stamp = 0
<1>1. NewTracker \in Tracker /\ NewTracker.stamp = 0
  BY FdtAssumption DEF NewTracker, Tracker
<1>2. NoTracker = [NewTracker EXCEPT !.at = "off"]
  BY DEF NoTracker
<1> QED
  BY <1>1, <1>2 DEF Tracker


LEMMA BossStep == TypeOK /\ [Next]_vars => BossType'
<1> SUFFICES ASSUME TypeOK, [Next]_vars PROVE BossType'
  OBVIOUS
<1> USE FdtAssumption DEF TypeOK, BossType, MainLabel, bossVars, localVars
<1>1. CASE Claim
  BY <1>1 DEF Claim, MainGoto
<1>2. CASE ClearPassEnd
  BY <1>2 DEF ClearPassEnd, MainGoto
<1>3. CASE ClearForPass
  BY <1>3 DEF ClearForPass, MainGoto, Clear
<1>4. CASE ResetCadence
  BY <1>4 DEF ResetCadence, MainGoto
<1>5. CASE Expose
  BY <1>5 DEF Expose, MainGoto
<1>6. CASE Launch
  BY <1>6 DEF Launch, MainGoto
<1>7. CASE PassOver
  BY <1>7 DEF PassOver, MainGoto
<1>8. CASE MarkEnded
  BY <1>8 DEF MarkEnded, MainGoto
<1>9. CASE ClearAfterPass
  BY <1>9 DEF ClearAfterPass, MainGoto, Clear
<1>10. CASE StopTracker
  BY <1>10 DEF StopTracker, MainGoto
<1>11. CASE CompletePass
  BY <1>11 DEF CompletePass, MainGoto
<1>12. CASE Exit
  BY <1>12 DEF Exit, MainGoto, Clear
<1>13. CASE TrackerReads
  BY <1>13 DEF TrackerReads, TrackerGoto, Adopted
<1>14. CASE TrackerReports
  BY <1>14 DEF TrackerReports, TrackerGoto
<1>15. CASE TrackerSetsDown
  BY <1>15 DEF TrackerSetsDown, TrackerGoto
<1>16. CASE TrackerSetsUp
  BY <1>16 DEF TrackerSetsUp, TrackerGoto
<1>17. CASE TrackerEnds
  BY <1>17 DEF TrackerEnds
<1>18. CASE Dial
  BY <1>18 DEF Dial
<1>19. ASSUME NEW w \in Web, EnableCheck(w) PROVE BossType'
  BY <1>19 DEF EnableCheck, Goto
<1>20. ASSUME NEW w \in Web, EnableReadDown(w) PROVE BossType'
  BY <1>20 DEF EnableReadDown, Goto
<1>21. ASSUME NEW w \in Web, EnableReadUp(w) PROVE BossType'
  BY <1>21 DEF EnableReadUp, Goto, Stamped
<1>22. ASSUME NEW w \in Web, EnableSetDown(w) PROVE BossType'
  BY <1>22 DEF EnableSetDown, Goto, SetDown
<1>23. ASSUME NEW w \in Web, EnableSetUp(w) PROVE BossType'
  BY <1>23 DEF EnableSetUp, Goto, SetUp
<1>24. ASSUME NEW w \in Web, EnableWrite(w) PROVE BossType'
  BY <1>24 DEF EnableWrite, Goto, Take, Free
<1>25. ASSUME NEW w \in Web, EnableReplace(w) PROVE BossType'
  BY <1>25 DEF EnableReplace, Goto, Publish, Release
<1>26. ASSUME NEW w \in Web, EnableBackDown(w) PROVE BossType'
  BY <1>26 DEF EnableBackDown, Goto, SetDown
<1>27. ASSUME NEW w \in Web, EnableBackUp(w) PROVE BossType'
  BY <1>27 DEF EnableBackUp, Goto, SetUp
<1>28. ASSUME NEW w \in Web, ClickCheck(w) PROVE BossType'
  BY <1>28 DEF ClickCheck, Goto
<1>29. ASSUME NEW w \in Web, ClickSetDown(w) PROVE BossType'
  BY <1>29 DEF ClickSetDown, Goto, Release, SetDown
<1>30. ASSUME NEW w \in Web, ClickSetUp(w) PROVE BossType'
  BY <1>30 DEF ClickSetUp, Goto, SetUp
<1>31. ASSUME NEW w \in Web, ClickBack(w) PROVE BossType'
  BY <1>31 DEF ClickBack, Goto, Release, SetDown
<1>32. ASSUME NEW w \in Web, ClickWrite(w) PROVE BossType'
  BY <1>32 DEF ClickWrite, Goto, Stamped, Release
<1>33. ASSUME NEW w \in Web, ClickReplace(w) PROVE BossType'
  BY <1>33 DEF ClickReplace, Goto, Publish, Release
<1>34. ASSUME NEW w \in Web, IntervalCheck(w) PROVE BossType'
  BY <1>34 DEF IntervalCheck, Goto
<1>35. ASSUME NEW w \in Web, IntervalState(w) PROVE BossType'
  BY <1>35 DEF IntervalState, Goto
<1>36. ASSUME NEW w \in Web, IntervalLock(w) PROVE BossType'
  BY <1>36 DEF IntervalLock, Goto, Stamped, Take, Free
<1>37. ASSUME NEW w \in Web, IntervalReplace(w) PROVE BossType'
  BY <1>37 DEF IntervalReplace, Goto, Publish, Release
<1>38. ASSUME NEW w \in Web, PauseCheck(w) PROVE BossType'
  BY <1>38 DEF PauseCheck, Goto
<1>39. ASSUME NEW w \in Web, RaisePassEnd(w) PROVE BossType'
  BY <1>39 DEF RaisePassEnd, Goto
<1>40. ASSUME NEW w \in Web, ExitStopsTracker(w) PROVE BossType'
  BY <1>40 DEF ExitStopsTracker, Goto
<1>41. ASSUME NEW w \in Web, ExitClears(w) PROVE BossType'
  BY <1>41 DEF ExitClears, Goto, Clear
<1>42. ASSUME NEW w \in Web, ClearFile(w) PROVE BossType'
  BY <1>42 DEF ClearFile, Goto, Clear
<1>43. ASSUME NEW w \in Web, EnableRequest(w) PROVE BossType'
  BY <1>43 DEF EnableRequest, Goto, Arrive
<1>44. ASSUME NEW w \in Web, ClickRequest(w) PROVE BossType'
  BY <1>44 DEF ClickRequest, Goto, Arrive
<1>45. ASSUME NEW w \in Web, IntervalRequest(w) PROVE BossType'
  BY <1>45 DEF IntervalRequest, Goto, Arrive
<1>46. ASSUME NEW w \in Web, ResetRequest(w) PROVE BossType'
  BY <1>46 DEF ResetRequest, Goto, Arrive
<1>47. ASSUME NEW w \in Web, PauseRequest(w) PROVE BossType'
  BY <1>47 DEF PauseRequest, Goto, Arrive
<1>48. ASSUME NEW w \in Web, EndRequest(w) PROVE BossType'
  BY <1>48 DEF EndRequest, Goto, Arrive
<1>49. ASSUME NEW w \in Web, ExitRequest(w) PROVE BossType'
  BY <1>49 DEF ExitRequest, Goto, Arrive
<1>50. ASSUME NEW w \in Web, NEW dir \in {-1, 1}, ClickLock(w, dir) PROVE BossType'
  BY <1>50 DEF ClickLock, Goto, Take, Free
<1>51. CASE UNCHANGED vars
  BY <1>51 DEF vars
<1> QED
  BY <1>1, <1>2, <1>3, <1>4, <1>5, <1>6, <1>7, <1>8, <1>9, <1>10, <1>11, <1>12, <1>13, <1>14, <1>15, <1>16, <1>17, <1>18, <1>19, <1>20, <1>21, <1>22, <1>23, <1>24, <1>25, <1>26, <1>27, <1>28, <1>29, <1>30, <1>31, <1>32, <1>33, <1>34, <1>35, <1>36, <1>37, <1>38, <1>39, <1>40, <1>41, <1>42, <1>43, <1>44, <1>45, <1>46, <1>47, <1>48, <1>49, <1>50, <1>51 DEF Next, MainStep, TrackerStep, Request, WebStep, EnableStep, ClickStep, OtherStep, Done

LEMMA ThreadStep == TypeOK /\ [Next]_vars => ThreadType'
<1> SUFFICES ASSUME TypeOK, [Next]_vars PROVE ThreadType'
  OBVIOUS
<1> USE FdtAssumption DEF TypeOK, ThreadType, WebLabel, bossVars, localVars
<1>1. CASE Claim
  BY <1>1 DEF Claim, MainGoto
<1>2. CASE ClearPassEnd
  BY <1>2 DEF ClearPassEnd, MainGoto
<1>3. CASE ClearForPass
  BY <1>3 DEF ClearForPass, MainGoto, Clear
<1>4. CASE ResetCadence
  BY <1>4 DEF ResetCadence, MainGoto
<1>5. CASE Expose
  BY <1>5 DEF Expose, MainGoto
<1>6. CASE Launch
  BY <1>6 DEF Launch, MainGoto
<1>7. CASE PassOver
  BY <1>7 DEF PassOver, MainGoto
<1>8. CASE MarkEnded
  BY <1>8 DEF MarkEnded, MainGoto
<1>9. CASE ClearAfterPass
  BY <1>9 DEF ClearAfterPass, MainGoto, Clear
<1>10. CASE StopTracker
  BY <1>10 DEF StopTracker, MainGoto
<1>11. CASE CompletePass
  BY <1>11 DEF CompletePass, MainGoto
<1>12. CASE Exit
  BY <1>12 DEF Exit, MainGoto, Clear
<1>13. CASE TrackerReads
  BY <1>13 DEF TrackerReads, TrackerGoto, Adopted
<1>14. CASE TrackerReports
  BY <1>14 DEF TrackerReports, TrackerGoto
<1>15. CASE TrackerSetsDown
  BY <1>15 DEF TrackerSetsDown, TrackerGoto
<1>16. CASE TrackerSetsUp
  BY <1>16 DEF TrackerSetsUp, TrackerGoto
<1>17. CASE TrackerEnds
  BY <1>17 DEF TrackerEnds
<1>18. CASE Dial
  BY <1>18 DEF Dial
<1>19. ASSUME NEW w \in Web, EnableCheck(w) PROVE ThreadType'
  BY <1>19 DEF EnableCheck, Goto
<1>20. ASSUME NEW w \in Web, EnableReadDown(w) PROVE ThreadType'
  BY <1>20 DEF EnableReadDown, Goto
<1>21. ASSUME NEW w \in Web, EnableReadUp(w) PROVE ThreadType'
  BY <1>21 DEF EnableReadUp, Goto, Stamped
<1>22. ASSUME NEW w \in Web, EnableSetDown(w) PROVE ThreadType'
  BY <1>22 DEF EnableSetDown, Goto, SetDown
<1>23. ASSUME NEW w \in Web, EnableSetUp(w) PROVE ThreadType'
  BY <1>23 DEF EnableSetUp, Goto, SetUp
<1>24. ASSUME NEW w \in Web, EnableWrite(w) PROVE ThreadType'
  BY <1>24 DEF EnableWrite, Goto, Take, Free
<1>25. ASSUME NEW w \in Web, EnableReplace(w) PROVE ThreadType'
  BY <1>25 DEF EnableReplace, Goto, Publish, Release
<1>26. ASSUME NEW w \in Web, EnableBackDown(w) PROVE ThreadType'
  BY <1>26 DEF EnableBackDown, Goto, SetDown
<1>27. ASSUME NEW w \in Web, EnableBackUp(w) PROVE ThreadType'
  BY <1>27 DEF EnableBackUp, Goto, SetUp
<1>28. ASSUME NEW w \in Web, ClickCheck(w) PROVE ThreadType'
  BY <1>28 DEF ClickCheck, Goto
<1>29. ASSUME NEW w \in Web, ClickSetDown(w) PROVE ThreadType'
  BY <1>29 DEF ClickSetDown, Goto, Release, SetDown
<1>30. ASSUME NEW w \in Web, ClickSetUp(w) PROVE ThreadType'
  BY <1>30 DEF ClickSetUp, Goto, SetUp
<1>31. ASSUME NEW w \in Web, ClickBack(w) PROVE ThreadType'
  BY <1>31 DEF ClickBack, Goto, Release, SetDown
<1>32. ASSUME NEW w \in Web, ClickWrite(w) PROVE ThreadType'
  BY <1>32 DEF ClickWrite, Goto, Stamped, Release
<1>33. ASSUME NEW w \in Web, ClickReplace(w) PROVE ThreadType'
  BY <1>33 DEF ClickReplace, Goto, Publish, Release
<1>34. ASSUME NEW w \in Web, IntervalCheck(w) PROVE ThreadType'
  BY <1>34 DEF IntervalCheck, Goto
<1>35. ASSUME NEW w \in Web, IntervalState(w) PROVE ThreadType'
  BY <1>35 DEF IntervalState, Goto
<1>36. ASSUME NEW w \in Web, IntervalLock(w) PROVE ThreadType'
  BY <1>36 DEF IntervalLock, Goto, Stamped, Take, Free
<1>37. ASSUME NEW w \in Web, IntervalReplace(w) PROVE ThreadType'
  BY <1>37 DEF IntervalReplace, Goto, Publish, Release
<1>38. ASSUME NEW w \in Web, PauseCheck(w) PROVE ThreadType'
  BY <1>38 DEF PauseCheck, Goto
<1>39. ASSUME NEW w \in Web, RaisePassEnd(w) PROVE ThreadType'
  BY <1>39 DEF RaisePassEnd, Goto
<1>40. ASSUME NEW w \in Web, ExitStopsTracker(w) PROVE ThreadType'
  BY <1>40 DEF ExitStopsTracker, Goto
<1>41. ASSUME NEW w \in Web, ExitClears(w) PROVE ThreadType'
  BY <1>41 DEF ExitClears, Goto, Clear
<1>42. ASSUME NEW w \in Web, ClearFile(w) PROVE ThreadType'
  BY <1>42 DEF ClearFile, Goto, Clear
<1>43. ASSUME NEW w \in Web, EnableRequest(w) PROVE ThreadType'
  BY <1>43 DEF EnableRequest, Goto, Arrive
<1>44. ASSUME NEW w \in Web, ClickRequest(w) PROVE ThreadType'
  BY <1>44 DEF ClickRequest, Goto, Arrive
<1>45. ASSUME NEW w \in Web, IntervalRequest(w) PROVE ThreadType'
  BY <1>45 DEF IntervalRequest, Goto, Arrive
<1>46. ASSUME NEW w \in Web, ResetRequest(w) PROVE ThreadType'
  BY <1>46 DEF ResetRequest, Goto, Arrive
<1>47. ASSUME NEW w \in Web, PauseRequest(w) PROVE ThreadType'
  BY <1>47 DEF PauseRequest, Goto, Arrive
<1>48. ASSUME NEW w \in Web, EndRequest(w) PROVE ThreadType'
  BY <1>48 DEF EndRequest, Goto, Arrive
<1>49. ASSUME NEW w \in Web, ExitRequest(w) PROVE ThreadType'
  BY <1>49 DEF ExitRequest, Goto, Arrive
<1>50. ASSUME NEW w \in Web, NEW dir \in {-1, 1}, ClickLock(w, dir) PROVE ThreadType'
  BY <1>50 DEF ClickLock, Goto, Take, Free
<1>51. CASE UNCHANGED vars
  BY <1>51 DEF vars
<1> QED
  BY <1>1, <1>2, <1>3, <1>4, <1>5, <1>6, <1>7, <1>8, <1>9, <1>10, <1>11, <1>12, <1>13, <1>14, <1>15, <1>16, <1>17, <1>18, <1>19, <1>20, <1>21, <1>22, <1>23, <1>24, <1>25, <1>26, <1>27, <1>28, <1>29, <1>30, <1>31, <1>32, <1>33, <1>34, <1>35, <1>36, <1>37, <1>38, <1>39, <1>40, <1>41, <1>42, <1>43, <1>44, <1>45, <1>46, <1>47, <1>48, <1>49, <1>50, <1>51 DEF Next, MainStep, TrackerStep, Request, WebStep, EnableStep, ClickStep, OtherStep, Done

LEMMA DataStep == TypeOK /\ SeenInv /\ [Next]_vars => DataType'
<1> SUFFICES ASSUME TypeOK, SeenInv, [Next]_vars PROVE DataType'
  OBVIOUS
<1> USE FdtAssumption, TypeParts DEF DataType, bossVars, localVars
<1>1. CASE Claim
  BY <1>1 DEF Claim, MainGoto, BossType, Cadence, Blank
<1>2. CASE ClearPassEnd
  BY <1>2 DEF ClearPassEnd, MainGoto, BossType, Cadence, Blank
<1>3. CASE ClearForPass
  BY <1>3 DEF ClearForPass, MainGoto, Clear, BossType, Cadence, Blank
<1>4. CASE ResetCadence
  BY <1>4 DEF ResetCadence, MainGoto, BossType, Cadence, Blank
<1>5. CASE Expose
  BY <1>5 DEF Expose, MainGoto, BossType, Cadence, Blank
<1>6. CASE Launch
  BY <1>6 DEF Launch, MainGoto, BossType, Cadence, Blank
<1>7. CASE PassOver
  BY <1>7 DEF PassOver, MainGoto, BossType, Cadence, Blank
<1>8. CASE MarkEnded
  BY <1>8 DEF MarkEnded, MainGoto, BossType, Cadence, Blank
<1>9. CASE ClearAfterPass
  BY <1>9 DEF ClearAfterPass, MainGoto, Clear, BossType, Cadence, Blank
<1>10. CASE StopTracker
  BY <1>10 DEF StopTracker, MainGoto, BossType, Cadence, Blank
<1>11. CASE CompletePass
  BY <1>11 DEF CompletePass, MainGoto, BossType, Cadence, Blank
<1>12. CASE Exit
  BY <1>12 DEF Exit, MainGoto, Clear, BossType, Cadence, Blank
<1>13. CASE TrackerReads
  BY <1>13 DEF TrackerReads, TrackerGoto, Adopted, BossType, Cadence, Blank
<1>14. CASE TrackerReports
  BY <1>14 DEF TrackerReports, TrackerGoto, BossType, Cadence, Blank
<1>15. CASE TrackerSetsDown
  BY <1>15 DEF TrackerSetsDown, TrackerGoto, BossType, Cadence, Blank
<1>16. CASE TrackerSetsUp
  BY <1>16 DEF TrackerSetsUp, TrackerGoto, BossType, Cadence, Blank
<1>17. CASE TrackerEnds
  BY <1>17 DEF TrackerEnds, BossType, Cadence, Blank
<1>18. CASE Dial
  BY <1>18 DEF Dial, BossType, Cadence, Blank
<1>19. ASSUME NEW w \in Web, EnableCheck(w) PROVE DataType'
  BY <1>19 DEF EnableCheck, Goto, BossType, Cadence, Blank, Payload
<1>20. ASSUME NEW w \in Web, EnableReadDown(w) PROVE DataType'
  BY <1>20 DEF EnableReadDown, Goto, BossType, Cadence, Blank
<1>21. ASSUME NEW w \in Web, EnableReadUp(w) PROVE DataType'
  <2>1. CASE pc'[w] # "enSetDown"
    BY <2>1, <1>21 DEF EnableReadUp, Goto, ThreadType
  <2>2. CASE pc'[w] = "enSetDown"
    <3> DEFINE p == Stamped(pay[w], every)
    <3>1. p \in Payload
      BY StampedType DEF BossType
    <3>3. seen[w] \in Nat
      BY <2>2, <1>21 DEF EnableReadUp, Goto, SeenInv
    <3>4. radio.u \in Int /\ old[w].d \in Int
      BY DEF RadioType, Tuning
    <3>5. old[w].d - seen[w] \in Int /\ radio.u + seen[w] \in Int
      BY <3>3, <3>4
    <3>2. [p EXCEPT !.d = old[w].d - seen[w], !.u = radio.u + seen[w],
                    !.by = "radio"] \in Payload
      BY <3>1, <3>5, Retuned DEF Source
    <3> QED
      BY <2>2, <3>2, <1>21 DEF EnableReadUp, Goto, ThreadType
  <2> QED
    BY <2>1, <2>2
<1>22. ASSUME NEW w \in Web, EnableSetDown(w) PROVE DataType'
  BY <1>22 DEF EnableSetDown, Goto, SetDown, BossType, Cadence, Blank
<1>23. ASSUME NEW w \in Web, EnableSetUp(w) PROVE DataType'
  BY <1>23 DEF EnableSetUp, Goto, SetUp, BossType, Cadence, Blank
<1>24. ASSUME NEW w \in Web, EnableWrite(w) PROVE DataType'
  BY <1>24 DEF EnableWrite, Goto, Take, Free, BossType, Cadence, Blank
<1>25. ASSUME NEW w \in Web, EnableReplace(w) PROVE DataType'
  BY <1>25 DEF EnableReplace, Goto, Publish, Release, BossType, Cadence, Blank
<1>26. ASSUME NEW w \in Web, EnableBackDown(w) PROVE DataType'
  BY <1>26 DEF EnableBackDown, Goto, SetDown, BossType, Cadence, Blank
<1>27. ASSUME NEW w \in Web, EnableBackUp(w) PROVE DataType'
  BY <1>27 DEF EnableBackUp, Goto, SetUp, BossType, Cadence, Blank
<1>28. ASSUME NEW w \in Web, ClickCheck(w) PROVE DataType'
  BY <1>28 DEF ClickCheck, Goto, BossType, Cadence, Blank
<1>29. ASSUME NEW w \in Web, ClickSetDown(w) PROVE DataType'
  BY <1>29 DEF ClickSetDown, Goto, Release, SetDown, BossType, Cadence, Blank
<1>30. ASSUME NEW w \in Web, ClickSetUp(w) PROVE DataType'
  BY <1>30 DEF ClickSetUp, Goto, SetUp, BossType, Cadence, Blank
<1>31. ASSUME NEW w \in Web, ClickBack(w) PROVE DataType'
  BY <1>31 DEF ClickBack, Goto, Release, SetDown, BossType, Cadence, Blank
<1>32. ASSUME NEW w \in Web, ClickWrite(w) PROVE DataType'
  <2>1. Stamped(pay[w], every) \in Payload
    BY StampedType DEF BossType
  <2> QED
    BY <2>1, <1>32 DEF ClickWrite
<1>33. ASSUME NEW w \in Web, ClickReplace(w) PROVE DataType'
  BY <1>33 DEF ClickReplace, Goto, Publish, Release, BossType, Cadence, Blank
<1>34. ASSUME NEW w \in Web, IntervalCheck(w) PROVE DataType'
  BY <1>34 DEF IntervalCheck, Goto, BossType, Cadence, Blank
<1>35. ASSUME NEW w \in Web, IntervalState(w) PROVE DataType'
  BY <1>35 DEF IntervalState, Goto, BossType, Cadence, Blank
<1>36. ASSUME NEW w \in Web, IntervalLock(w) PROVE DataType'
  <2>1. file # NoFile => Stamped(file, want[w]) \in Payload
    BY StampedType DEF BossType
  <2> QED
    BY <2>1, <1>36 DEF IntervalLock
<1>37. ASSUME NEW w \in Web, IntervalReplace(w) PROVE DataType'
  BY <1>37 DEF IntervalReplace, Goto, Publish, Release, BossType, Cadence, Blank
<1>38. ASSUME NEW w \in Web, PauseCheck(w) PROVE DataType'
  BY <1>38 DEF PauseCheck, Goto, BossType, Cadence, Blank
<1>39. ASSUME NEW w \in Web, RaisePassEnd(w) PROVE DataType'
  BY <1>39 DEF RaisePassEnd, Goto, BossType, Cadence, Blank
<1>40. ASSUME NEW w \in Web, ExitStopsTracker(w) PROVE DataType'
  BY <1>40 DEF ExitStopsTracker, Goto, BossType, Cadence, Blank
<1>41. ASSUME NEW w \in Web, ExitClears(w) PROVE DataType'
  BY <1>41 DEF ExitClears, Goto, Clear, BossType, Cadence, Blank
<1>42. ASSUME NEW w \in Web, ClearFile(w) PROVE DataType'
  BY <1>42 DEF ClearFile, Goto, Clear, BossType, Cadence, Blank
<1>43. ASSUME NEW w \in Web, EnableRequest(w) PROVE DataType'
  BY <1>43 DEF EnableRequest, Goto, Arrive, BossType, Cadence, Blank
<1>44. ASSUME NEW w \in Web, ClickRequest(w) PROVE DataType'
  BY <1>44 DEF ClickRequest, Goto, Arrive, BossType, Cadence, Blank
<1>45. ASSUME NEW w \in Web, IntervalRequest(w) PROVE DataType'
  BY <1>45 DEF IntervalRequest, Goto, Arrive, BossType, Cadence, Blank
<1>46. ASSUME NEW w \in Web, ResetRequest(w) PROVE DataType'
  BY <1>46 DEF ResetRequest, Goto, Arrive, BossType, Cadence, Blank
<1>47. ASSUME NEW w \in Web, PauseRequest(w) PROVE DataType'
  BY <1>47 DEF PauseRequest, Goto, Arrive, BossType, Cadence, Blank
<1>48. ASSUME NEW w \in Web, EndRequest(w) PROVE DataType'
  BY <1>48 DEF EndRequest, Goto, Arrive, BossType, Cadence, Blank
<1>49. ASSUME NEW w \in Web, ExitRequest(w) PROVE DataType'
  BY <1>49 DEF ExitRequest, Goto, Arrive, BossType, Cadence, Blank
<1>50. ASSUME NEW w \in Web, NEW dir \in {-1, 1}, ClickLock(w, dir) PROVE DataType'
  <2>1. CASE pay' = pay
    BY <2>1, <1>50 DEF ClickLock
  <2>2. CASE pay' # pay
    <3>1. file \in Payload
      BY <2>2, <1>50 DEF ClickLock, MayClick
    <3>3. file.d \in Int /\ file.u \in Int
      BY <3>1 DEF Payload
    <3>4. file.d + dir \in Int /\ file.u + UplinkStep(dir) \in Int
      BY <3>3, FdtAssumption DEF UplinkStep
    <3>2. [file EXCEPT !.d = file.d + dir, !.u = file.u + UplinkStep(dir),
                       !.by = "wheel"] \in Payload
      BY <3>1, <3>4, Retuned DEF Source
    <3> QED
      BY <2>2, <3>2, <1>50 DEF ClickLock
  <2> QED
    BY <2>1, <2>2
<1>51. CASE UNCHANGED vars
  BY <1>51 DEF vars, BossType, Cadence, Blank
<1> QED
  BY <1>1, <1>2, <1>3, <1>4, <1>5, <1>6, <1>7, <1>8, <1>9, <1>10, <1>11, <1>12, <1>13, <1>14, <1>15, <1>16, <1>17, <1>18, <1>19, <1>20, <1>21, <1>22, <1>23, <1>24, <1>25, <1>26, <1>27, <1>28, <1>29, <1>30, <1>31, <1>32, <1>33, <1>34, <1>35, <1>36, <1>37, <1>38, <1>39, <1>40, <1>41, <1>42, <1>43, <1>44, <1>45, <1>46, <1>47, <1>48, <1>49, <1>50, <1>51 DEF Next, MainStep, TrackerStep, Request, WebStep, EnableStep, ClickStep, OtherStep, Done

LEMMA RadioStep == TypeOK /\ SeenInv /\ PayInv /\ [Next]_vars => RadioType'
<1> SUFFICES ASSUME TypeOK, SeenInv, PayInv, [Next]_vars PROVE RadioType'
  OBVIOUS
<1> USE FdtAssumption, TypeParts DEF RadioType, bossVars, localVars
<1>1. CASE Claim
  BY <1>1 DEF Claim, MainGoto, Tuning, Tracker, DataType, Payload
<1>2. CASE ClearPassEnd
  BY <1>2 DEF ClearPassEnd, MainGoto, Tuning, Tracker, DataType, Payload
<1>3. CASE ClearForPass
  BY <1>3 DEF ClearForPass, MainGoto, Clear, Tuning, Tracker, DataType, Payload
<1>4. CASE ResetCadence
  BY <1>4 DEF ResetCadence, MainGoto, Tuning, Tracker, DataType, Payload
<1>5. CASE Expose
  BY <1>5 DEF Expose, MainGoto, Tuning, Tracker, DataType, Payload
<1>6. CASE Launch
  BY <1>6, TrackerTypes DEF Launch
<1>7. CASE PassOver
  BY <1>7 DEF PassOver, MainGoto, Tuning, Tracker, DataType, Payload
<1>8. CASE MarkEnded
  BY <1>8 DEF MarkEnded, MainGoto, Tuning, Tracker, DataType, Payload
<1>9. CASE ClearAfterPass
  BY <1>9 DEF ClearAfterPass, MainGoto, Clear, Tuning, Tracker, DataType, Payload
<1>10. CASE StopTracker
  BY <1>10, TrackerTypes DEF StopTracker
<1>11. CASE CompletePass
  BY <1>11 DEF CompletePass, MainGoto, Tuning, Tracker, DataType, Payload
<1>12. CASE Exit
  BY <1>12 DEF Exit, MainGoto, Clear, Tuning, Tracker, DataType, Payload
<1>13. CASE TrackerReads
  BY <1>13 DEF TrackerReads, TrackerGoto, Adopted, Tuning, Tracker, DataType, Payload
<1>14. CASE TrackerReports
  <2> PICK s \in {trk.shift, trk.shift - 1} :
        /\ s >= 0
        /\ trk' = [trk EXCEPT !.shift = s, !.at = IF trk.on THEN "down" ELSE "read"]
        /\ status' = s
    BY <1>14 DEF TrackerReports
  <2>1. s \in Nat
    BY DEF Tracker
  <2>2. trk' \in Tracker
    BY <2>1 DEF Tracker
  <2> QED
    BY <2>1, <2>2, <1>14 DEF TrackerReports, TrackerGoto
<1>15. CASE TrackerSetsDown
  BY <1>15 DEF TrackerSetsDown, TrackerGoto, Tuning, Tracker, DataType, Payload
<1>16. CASE TrackerSetsUp
  BY <1>16 DEF TrackerSetsUp, TrackerGoto, Tuning, Tracker, DataType, Payload
<1>17. CASE TrackerEnds
  BY <1>17, TrackerTypes DEF TrackerEnds
<1>18. CASE Dial
  BY <1>18 DEF Dial, Tuning, Tracker, DataType, Payload
<1>19. ASSUME NEW w \in Web, EnableCheck(w) PROVE RadioType'
  BY <1>19 DEF EnableCheck, Goto, Tuning, Tracker, DataType, Payload
<1>20. ASSUME NEW w \in Web, EnableReadDown(w) PROVE RadioType'
  BY <1>20 DEF EnableReadDown, Goto, Tuning, Tracker, DataType, Payload
<1>21. ASSUME NEW w \in Web, EnableReadUp(w) PROVE RadioType'
  BY <1>21 DEF EnableReadUp, Tuning
<1>22. ASSUME NEW w \in Web, EnableSetDown(w) PROVE RadioType'
  <2>1. seen[w] \in Nat /\ pay[w] \in Payload
    BY <1>22 DEF EnableSetDown, Goto, SeenInv, PayInv, DataType, Clicking
  <2>2. pay[w].d \in Int /\ pay[w].u \in Int
    BY <2>1 DEF Payload
  <2> QED
    BY <2>1, <2>2, <1>22 DEF EnableSetDown, Goto, SetDown, Tuning
<1>23. ASSUME NEW w \in Web, EnableSetUp(w) PROVE RadioType'
  <2>1. seen[w] \in Nat /\ pay[w] \in Payload
    BY <1>23 DEF EnableSetUp, Goto, SeenInv, PayInv, DataType, Clicking
  <2>2. pay[w].d \in Int /\ pay[w].u \in Int
    BY <2>1 DEF Payload
  <2> QED
    BY <2>1, <2>2, <1>23 DEF EnableSetUp, Goto, SetUp, Tuning
<1>24. ASSUME NEW w \in Web, EnableWrite(w) PROVE RadioType'
  BY <1>24 DEF EnableWrite, Goto, Take, Free, Tuning, Tracker, DataType, Payload
<1>25. ASSUME NEW w \in Web, EnableReplace(w) PROVE RadioType'
  BY <1>25 DEF EnableReplace, Goto, Publish, Release, Tuning, Tracker, DataType, Payload
<1>26. ASSUME NEW w \in Web, EnableBackDown(w) PROVE RadioType'
  BY <1>26 DEF EnableBackDown, Goto, SetDown, Tuning, Tracker, DataType, Payload
<1>27. ASSUME NEW w \in Web, EnableBackUp(w) PROVE RadioType'
  BY <1>27 DEF EnableBackUp, Goto, SetUp, Tuning, Tracker, DataType, Payload
<1>28. ASSUME NEW w \in Web, ClickCheck(w) PROVE RadioType'
  BY <1>28 DEF ClickCheck, Goto, Tuning, Tracker, DataType, Payload
<1>29. ASSUME NEW w \in Web, ClickSetDown(w) PROVE RadioType'
  <2>1. seen[w] \in Nat /\ pay[w] \in Payload
    BY <1>29 DEF ClickSetDown, Goto, SeenInv, PayInv, DataType, Clicking
  <2>2. pay[w].d \in Int /\ pay[w].u \in Int
    BY <2>1 DEF Payload
  <2> QED
    BY <2>1, <2>2, <1>29 DEF ClickSetDown, Goto, Release, SetDown, Tuning
<1>30. ASSUME NEW w \in Web, ClickSetUp(w) PROVE RadioType'
  <2>1. seen[w] \in Nat /\ pay[w] \in Payload
    BY <1>30 DEF ClickSetUp, Goto, SeenInv, PayInv, DataType, Clicking
  <2>2. pay[w].d \in Int /\ pay[w].u \in Int
    BY <2>1 DEF Payload
  <2> QED
    BY <2>1, <2>2, <1>30 DEF ClickSetUp, Goto, SetUp, Tuning
<1>31. ASSUME NEW w \in Web, ClickBack(w) PROVE RadioType'
  <2>1. seen[w] \in Nat /\ pay[w] \in Payload /\ file \in Payload
    BY <1>31 DEF ClickBack, Goto, SeenInv, PayInv, DataType, Clicking
  <2>2. pay[w].d \in Int /\ pay[w].u \in Int /\ file.d \in Int
    BY <2>1 DEF Payload
  <2> QED
    BY <2>1, <2>2, <1>31 DEF ClickBack, Goto, Release, SetDown, Tuning
<1>32. ASSUME NEW w \in Web, ClickWrite(w) PROVE RadioType'
  BY <1>32 DEF ClickWrite, Goto, Stamped, Release, Tuning, Tracker, DataType, Payload
<1>33. ASSUME NEW w \in Web, ClickReplace(w) PROVE RadioType'
  BY <1>33 DEF ClickReplace, Goto, Publish, Release, Tuning, Tracker, DataType, Payload
<1>34. ASSUME NEW w \in Web, IntervalCheck(w) PROVE RadioType'
  BY <1>34 DEF IntervalCheck, Goto, Tuning, Tracker, DataType, Payload
<1>35. ASSUME NEW w \in Web, IntervalState(w) PROVE RadioType'
  BY <1>35 DEF IntervalState, Goto, Tuning, Tracker, DataType, Payload
<1>36. ASSUME NEW w \in Web, IntervalLock(w) PROVE RadioType'
  BY <1>36 DEF IntervalLock, Goto, Stamped, Take, Free, Tuning, Tracker, DataType, Payload
<1>37. ASSUME NEW w \in Web, IntervalReplace(w) PROVE RadioType'
  BY <1>37 DEF IntervalReplace, Goto, Publish, Release, Tuning, Tracker, DataType, Payload
<1>38. ASSUME NEW w \in Web, PauseCheck(w) PROVE RadioType'
  BY <1>38 DEF PauseCheck, Goto, Tuning, Tracker, DataType, Payload
<1>39. ASSUME NEW w \in Web, RaisePassEnd(w) PROVE RadioType'
  BY <1>39 DEF RaisePassEnd, Goto, Tuning, Tracker, DataType, Payload
<1>40. ASSUME NEW w \in Web, ExitStopsTracker(w) PROVE RadioType'
  BY <1>40, TrackerTypes DEF ExitStopsTracker
<1>41. ASSUME NEW w \in Web, ExitClears(w) PROVE RadioType'
  BY <1>41 DEF ExitClears, Goto, Clear, Tuning, Tracker, DataType, Payload
<1>42. ASSUME NEW w \in Web, ClearFile(w) PROVE RadioType'
  BY <1>42 DEF ClearFile, Goto, Clear, Tuning, Tracker, DataType, Payload
<1>43. ASSUME NEW w \in Web, EnableRequest(w) PROVE RadioType'
  BY <1>43 DEF EnableRequest, Goto, Arrive, Tuning, Tracker, DataType, Payload
<1>44. ASSUME NEW w \in Web, ClickRequest(w) PROVE RadioType'
  BY <1>44 DEF ClickRequest, Goto, Arrive, Tuning, Tracker, DataType, Payload
<1>45. ASSUME NEW w \in Web, IntervalRequest(w) PROVE RadioType'
  BY <1>45 DEF IntervalRequest, Goto, Arrive, Tuning, Tracker, DataType, Payload
<1>46. ASSUME NEW w \in Web, ResetRequest(w) PROVE RadioType'
  BY <1>46 DEF ResetRequest, Goto, Arrive, Tuning, Tracker, DataType, Payload
<1>47. ASSUME NEW w \in Web, PauseRequest(w) PROVE RadioType'
  BY <1>47 DEF PauseRequest, Goto, Arrive, Tuning, Tracker, DataType, Payload
<1>48. ASSUME NEW w \in Web, EndRequest(w) PROVE RadioType'
  BY <1>48 DEF EndRequest, Goto, Arrive, Tuning, Tracker, DataType, Payload
<1>49. ASSUME NEW w \in Web, ExitRequest(w) PROVE RadioType'
  BY <1>49 DEF ExitRequest, Goto, Arrive, Tuning, Tracker, DataType, Payload
<1>50. ASSUME NEW w \in Web, NEW dir \in {-1, 1}, ClickLock(w, dir) PROVE RadioType'
  BY <1>50 DEF ClickLock, Goto, Take, Free, Tuning, Tracker, DataType, Payload
<1>51. CASE UNCHANGED vars
  BY <1>51 DEF vars, Tuning, Tracker, DataType, Payload
<1> QED
  BY <1>1, <1>2, <1>3, <1>4, <1>5, <1>6, <1>7, <1>8, <1>9, <1>10, <1>11, <1>12, <1>13, <1>14, <1>15, <1>16, <1>17, <1>18, <1>19, <1>20, <1>21, <1>22, <1>23, <1>24, <1>25, <1>26, <1>27, <1>28, <1>29, <1>30, <1>31, <1>32, <1>33, <1>34, <1>35, <1>36, <1>37, <1>38, <1>39, <1>40, <1>41, <1>42, <1>43, <1>44, <1>45, <1>46, <1>47, <1>48, <1>49, <1>50, <1>51 DEF Next, MainStep, TrackerStep, Request, WebStep, EnableStep, ClickStep, OtherStep, Done

LEMMA SeenStep == TypeOK /\ SeenInv /\ [Next]_vars => SeenInv'
<1> SUFFICES ASSUME TypeOK, SeenInv, [Next]_vars PROVE SeenInv'
  OBVIOUS
<1> USE FdtAssumption DEF TypeOK, SeenInv, MayClick, bossVars, localVars
<1>1. CASE MainStep
  BY <1>1 DEF MainStep, Claim, MainGoto, ClearPassEnd, ClearForPass, Clear, ResetCadence, Expose, Launch, PassOver, MarkEnded, ClearAfterPass, StopTracker, CompletePass, Exit
<1>2. CASE TrackerStep
  BY <1>2 DEF TrackerStep, TrackerReads, TrackerGoto, Adopted, TrackerReports, TrackerSetsDown, TrackerSetsUp
<1>3. CASE TrackerEnds \/ Dial
  BY <1>3 DEF TrackerEnds, Dial
<1>4. ASSUME NEW w \in Web, EnableCheck(w) PROVE SeenInv'
  BY <1>4 DEF EnableCheck, Goto
<1>5. ASSUME NEW w \in Web, EnableReadDown(w) PROVE SeenInv'
  BY <1>5 DEF EnableReadDown, Goto
<1>6. ASSUME NEW w \in Web, EnableReadUp(w) PROVE SeenInv'
  BY <1>6 DEF EnableReadUp, Goto, Stamped
<1>7. ASSUME NEW w \in Web, EnableSetDown(w) PROVE SeenInv'
  BY <1>7 DEF EnableSetDown, Goto, SetDown
<1>8. ASSUME NEW w \in Web, EnableSetUp(w) PROVE SeenInv'
  BY <1>8 DEF EnableSetUp, Goto, SetUp
<1>9. ASSUME NEW w \in Web, EnableWrite(w) PROVE SeenInv'
  BY <1>9 DEF EnableWrite, Goto, Take, Free
<1>10. ASSUME NEW w \in Web, EnableReplace(w) PROVE SeenInv'
  BY <1>10 DEF EnableReplace, Goto, Publish, Release
<1>11. ASSUME NEW w \in Web, EnableBackDown(w) PROVE SeenInv'
  BY <1>11 DEF EnableBackDown, Goto, SetDown
<1>12. ASSUME NEW w \in Web, EnableBackUp(w) PROVE SeenInv'
  BY <1>12 DEF EnableBackUp, Goto, SetUp
<1>13. ASSUME NEW w \in Web, ClickCheck(w) PROVE SeenInv'
  BY <1>13 DEF ClickCheck, Goto
<1>14. ASSUME NEW w \in Web, ClickSetDown(w) PROVE SeenInv'
  BY <1>14 DEF ClickSetDown, Goto, Release, SetDown
<1>15. ASSUME NEW w \in Web, ClickSetUp(w) PROVE SeenInv'
  BY <1>15 DEF ClickSetUp, Goto, SetUp
<1>16. ASSUME NEW w \in Web, ClickBack(w) PROVE SeenInv'
  BY <1>16 DEF ClickBack, Goto, Release, SetDown
<1>17. ASSUME NEW w \in Web, ClickWrite(w) PROVE SeenInv'
  BY <1>17 DEF ClickWrite, Goto, Stamped, Release
<1>18. ASSUME NEW w \in Web, ClickReplace(w) PROVE SeenInv'
  BY <1>18 DEF ClickReplace, Goto, Publish, Release
<1>19. ASSUME NEW w \in Web, IntervalCheck(w) PROVE SeenInv'
  BY <1>19 DEF IntervalCheck, Goto
<1>20. ASSUME NEW w \in Web, IntervalState(w) PROVE SeenInv'
  BY <1>20 DEF IntervalState, Goto
<1>21. ASSUME NEW w \in Web, IntervalLock(w) PROVE SeenInv'
  BY <1>21 DEF IntervalLock, Goto, Stamped, Take, Free
<1>22. ASSUME NEW w \in Web, IntervalReplace(w) PROVE SeenInv'
  BY <1>22 DEF IntervalReplace, Goto, Publish, Release
<1>23. ASSUME NEW w \in Web, PauseCheck(w) PROVE SeenInv'
  BY <1>23 DEF PauseCheck, Goto
<1>24. ASSUME NEW w \in Web, RaisePassEnd(w) PROVE SeenInv'
  BY <1>24 DEF RaisePassEnd, Goto
<1>25. ASSUME NEW w \in Web, ExitStopsTracker(w) PROVE SeenInv'
  BY <1>25 DEF ExitStopsTracker, Goto
<1>26. ASSUME NEW w \in Web, ExitClears(w) PROVE SeenInv'
  BY <1>26 DEF ExitClears, Goto, Clear
<1>27. ASSUME NEW w \in Web, ClearFile(w) PROVE SeenInv'
  BY <1>27 DEF ClearFile, Goto, Clear
<1>28. ASSUME NEW w \in Web, EnableRequest(w) PROVE SeenInv'
  BY <1>28 DEF EnableRequest, Goto, Arrive
<1>29. ASSUME NEW w \in Web, ClickRequest(w) PROVE SeenInv'
  BY <1>29 DEF ClickRequest, Goto, Arrive
<1>30. ASSUME NEW w \in Web, IntervalRequest(w) PROVE SeenInv'
  BY <1>30 DEF IntervalRequest, Goto, Arrive
<1>31. ASSUME NEW w \in Web, ResetRequest(w) PROVE SeenInv'
  BY <1>31 DEF ResetRequest, Goto, Arrive
<1>32. ASSUME NEW w \in Web, PauseRequest(w) PROVE SeenInv'
  BY <1>32 DEF PauseRequest, Goto, Arrive
<1>33. ASSUME NEW w \in Web, EndRequest(w) PROVE SeenInv'
  BY <1>33 DEF EndRequest, Goto, Arrive
<1>34. ASSUME NEW w \in Web, ExitRequest(w) PROVE SeenInv'
  BY <1>34 DEF ExitRequest, Goto, Arrive
<1>35. ASSUME NEW w \in Web, NEW dir \in {-1, 1}, ClickLock(w, dir) PROVE SeenInv'
  BY <1>35 DEF ClickLock, Goto, Take, Free
<1>36. CASE UNCHANGED vars
  BY <1>36 DEF vars
<1> QED
  BY <1>1, <1>2, <1>3, <1>4, <1>5, <1>6, <1>7, <1>8, <1>9, <1>10, <1>11, <1>12, <1>13, <1>14, <1>15, <1>16, <1>17, <1>18, <1>19, <1>20, <1>21, <1>22, <1>23, <1>24, <1>25, <1>26, <1>27, <1>28, <1>29, <1>30, <1>31, <1>32, <1>33, <1>34, <1>35, <1>36 DEF Next, MainStep, TrackerStep, Request, WebStep, EnableStep, ClickStep, OtherStep, Done

LEMMA LockStep == TypeOK /\ LockInv /\ [Next]_vars => LockInv'
<1> SUFFICES ASSUME TypeOK, LockInv, [Next]_vars PROVE LockInv'
  OBVIOUS
<1> USE FdtAssumption DEF TypeOK, LockInv, Holding, Clicking, bossVars, localVars
<1>1. CASE MainStep
  BY <1>1 DEF MainStep, Claim, MainGoto, ClearPassEnd, ClearForPass, Clear, ResetCadence, Expose, Launch, PassOver, MarkEnded, ClearAfterPass, StopTracker, CompletePass, Exit
<1>2. CASE TrackerStep
  BY <1>2 DEF TrackerStep, TrackerReads, TrackerGoto, Adopted, TrackerReports, TrackerSetsDown, TrackerSetsUp
<1>3. CASE TrackerEnds \/ Dial
  BY <1>3 DEF TrackerEnds, Dial
<1>4. ASSUME NEW w \in Web, EnableCheck(w) PROVE LockInv'
  BY <1>4 DEF EnableCheck, Goto
<1>5. ASSUME NEW w \in Web, EnableReadDown(w) PROVE LockInv'
  BY <1>5 DEF EnableReadDown, Goto
<1>6. ASSUME NEW w \in Web, EnableReadUp(w) PROVE LockInv'
  BY <1>6 DEF EnableReadUp, Goto, Stamped
<1>7. ASSUME NEW w \in Web, EnableSetDown(w) PROVE LockInv'
  BY <1>7 DEF EnableSetDown, Goto, SetDown
<1>8. ASSUME NEW w \in Web, EnableSetUp(w) PROVE LockInv'
  BY <1>8 DEF EnableSetUp, Goto, SetUp
<1>9. ASSUME NEW w \in Web, EnableWrite(w) PROVE LockInv'
  BY <1>9 DEF EnableWrite, Goto, Take, Free
<1>10. ASSUME NEW w \in Web, EnableReplace(w) PROVE LockInv'
  BY <1>10 DEF EnableReplace, Goto, Publish, Release
<1>11. ASSUME NEW w \in Web, EnableBackDown(w) PROVE LockInv'
  BY <1>11 DEF EnableBackDown, Goto, SetDown
<1>12. ASSUME NEW w \in Web, EnableBackUp(w) PROVE LockInv'
  BY <1>12 DEF EnableBackUp, Goto, SetUp
<1>13. ASSUME NEW w \in Web, ClickCheck(w) PROVE LockInv'
  BY <1>13 DEF ClickCheck, Goto
<1>14. ASSUME NEW w \in Web, ClickSetDown(w) PROVE LockInv'
  BY <1>14 DEF ClickSetDown, Goto, Release, SetDown
<1>15. ASSUME NEW w \in Web, ClickSetUp(w) PROVE LockInv'
  BY <1>15 DEF ClickSetUp, Goto, SetUp
<1>16. ASSUME NEW w \in Web, ClickBack(w) PROVE LockInv'
  BY <1>16 DEF ClickBack, Goto, Release, SetDown
<1>17. ASSUME NEW w \in Web, ClickWrite(w) PROVE LockInv'
  BY <1>17 DEF ClickWrite, Goto, Stamped, Release
<1>18. ASSUME NEW w \in Web, ClickReplace(w) PROVE LockInv'
  BY <1>18 DEF ClickReplace, Goto, Publish, Release
<1>19. ASSUME NEW w \in Web, IntervalCheck(w) PROVE LockInv'
  BY <1>19 DEF IntervalCheck, Goto
<1>20. ASSUME NEW w \in Web, IntervalState(w) PROVE LockInv'
  BY <1>20 DEF IntervalState, Goto
<1>21. ASSUME NEW w \in Web, IntervalLock(w) PROVE LockInv'
  BY <1>21 DEF IntervalLock, Goto, Stamped, Take, Free
<1>22. ASSUME NEW w \in Web, IntervalReplace(w) PROVE LockInv'
  BY <1>22 DEF IntervalReplace, Goto, Publish, Release
<1>23. ASSUME NEW w \in Web, PauseCheck(w) PROVE LockInv'
  BY <1>23 DEF PauseCheck, Goto
<1>24. ASSUME NEW w \in Web, RaisePassEnd(w) PROVE LockInv'
  BY <1>24 DEF RaisePassEnd, Goto
<1>25. ASSUME NEW w \in Web, ExitStopsTracker(w) PROVE LockInv'
  BY <1>25 DEF ExitStopsTracker, Goto
<1>26. ASSUME NEW w \in Web, ExitClears(w) PROVE LockInv'
  BY <1>26 DEF ExitClears, Goto, Clear
<1>27. ASSUME NEW w \in Web, ClearFile(w) PROVE LockInv'
  BY <1>27 DEF ClearFile, Goto, Clear
<1>28. ASSUME NEW w \in Web, EnableRequest(w) PROVE LockInv'
  BY <1>28 DEF EnableRequest, Goto, Arrive
<1>29. ASSUME NEW w \in Web, ClickRequest(w) PROVE LockInv'
  BY <1>29 DEF ClickRequest, Goto, Arrive
<1>30. ASSUME NEW w \in Web, IntervalRequest(w) PROVE LockInv'
  BY <1>30 DEF IntervalRequest, Goto, Arrive
<1>31. ASSUME NEW w \in Web, ResetRequest(w) PROVE LockInv'
  BY <1>31 DEF ResetRequest, Goto, Arrive
<1>32. ASSUME NEW w \in Web, PauseRequest(w) PROVE LockInv'
  BY <1>32 DEF PauseRequest, Goto, Arrive
<1>33. ASSUME NEW w \in Web, EndRequest(w) PROVE LockInv'
  BY <1>33 DEF EndRequest, Goto, Arrive
<1>34. ASSUME NEW w \in Web, ExitRequest(w) PROVE LockInv'
  BY <1>34 DEF ExitRequest, Goto, Arrive
<1>35. ASSUME NEW w \in Web, NEW dir \in {-1, 1}, ClickLock(w, dir) PROVE LockInv'
  BY <1>35 DEF ClickLock, Goto, Take, Free
<1>36. CASE UNCHANGED vars
  BY <1>36 DEF vars
<1> QED
  BY <1>1, <1>2, <1>3, <1>4, <1>5, <1>6, <1>7, <1>8, <1>9, <1>10, <1>11, <1>12, <1>13, <1>14, <1>15, <1>16, <1>17, <1>18, <1>19, <1>20, <1>21, <1>22, <1>23, <1>24, <1>25, <1>26, <1>27, <1>28, <1>29, <1>30, <1>31, <1>32, <1>33, <1>34, <1>35, <1>36 DEF Next, MainStep, TrackerStep, Request, WebStep, EnableStep, ClickStep, OtherStep, Done

LEMMA PayStep == TypeOK /\ LockInv /\ PayInv /\ [Next]_vars => PayInv'
<1> SUFFICES ASSUME TypeOK, LockInv, PayInv, [Next]_vars PROVE PayInv'
  OBVIOUS
<1> USE FdtAssumption, TypeParts DEF ThreadType, WebLabel, LockInv, PayInv, Clicked, Holding, Clicking, Anchoring, bossVars, localVars
<1>1. CASE Claim
  BY <1>1 DEF Claim, MainGoto, DataType, BossType, MayClick
<1>2. CASE ClearPassEnd
  BY <1>2 DEF ClearPassEnd, MainGoto, DataType, BossType, MayClick
<1>3. CASE ClearForPass
  BY <1>3 DEF ClearForPass, MainGoto, Clear, DataType, BossType, MayClick
<1>4. CASE ResetCadence
  BY <1>4 DEF ResetCadence, MainGoto, DataType, BossType, MayClick
<1>5. CASE Expose
  BY <1>5 DEF Expose, MainGoto, DataType, BossType, MayClick
<1>6. CASE Launch
  BY <1>6 DEF Launch, MainGoto, DataType, BossType, MayClick
<1>7. CASE PassOver
  BY <1>7 DEF PassOver, MainGoto, DataType, BossType, MayClick
<1>8. CASE MarkEnded
  BY <1>8 DEF MarkEnded, MainGoto, DataType, BossType, MayClick
<1>9. CASE ClearAfterPass
  BY <1>9 DEF ClearAfterPass, MainGoto, Clear, DataType, BossType, MayClick
<1>10. CASE StopTracker
  BY <1>10 DEF StopTracker, MainGoto, DataType, BossType, MayClick
<1>11. CASE CompletePass
  BY <1>11 DEF CompletePass, MainGoto, DataType, BossType, MayClick
<1>12. CASE Exit
  BY <1>12 DEF Exit, MainGoto, Clear, DataType, BossType, MayClick
<1>13. CASE TrackerReads
  BY <1>13 DEF TrackerReads, TrackerGoto, Adopted, DataType, BossType, MayClick
<1>14. CASE TrackerReports
  BY <1>14 DEF TrackerReports, TrackerGoto, DataType, BossType, MayClick
<1>15. CASE TrackerSetsDown
  BY <1>15 DEF TrackerSetsDown, TrackerGoto, DataType, BossType, MayClick
<1>16. CASE TrackerSetsUp
  BY <1>16 DEF TrackerSetsUp, TrackerGoto, DataType, BossType, MayClick
<1>17. CASE TrackerEnds
  BY <1>17 DEF TrackerEnds, DataType, BossType, MayClick
<1>18. CASE Dial
  BY <1>18 DEF Dial, DataType, BossType, MayClick
<1>19. ASSUME NEW w \in Web, EnableCheck(w) PROVE PayInv'
  BY <1>19 DEF EnableCheck, Goto, DataType, BossType, MayClick
<1>20. ASSUME NEW w \in Web, EnableReadDown(w) PROVE PayInv'
  BY <1>20 DEF EnableReadDown, Goto, DataType, BossType, MayClick
<1>21. ASSUME NEW w \in Web, EnableReadUp(w) PROVE PayInv'
  <2>1. CASE pc'[w] # "enSetDown"
    BY <2>1, <1>21 DEF EnableReadUp, Goto, ThreadType
  <2>2. CASE pc'[w] = "enSetDown"
    <3> DEFINE p == Stamped(pay[w], every)
               q == [p EXCEPT !.d = old[w].d - seen[w], !.u = radio.u + seen[w],
                              !.by = "radio"]
    <3>1. p \in Payload
      BY StampedType DEF BossType, DataType
    <3>2. q.by = "radio"
      BY <3>1 DEF Payload
    <3>3. pay' = [pay EXCEPT ![w] = q]
      BY <2>2, <1>21 DEF EnableReadUp, Goto, ThreadType
    <3>4. pay'[w].by = "radio" /\ \A v \in Web \ {w} : pay'[v] = pay[v]
      BY <3>2, <3>3 DEF DataType
    <3> QED
      BY <2>2, <3>4, <1>21 DEF EnableReadUp, Goto
  <2> QED
    BY <2>1, <2>2
<1>22. ASSUME NEW w \in Web, EnableSetDown(w) PROVE PayInv'
  BY <1>22 DEF EnableSetDown, Goto, SetDown, DataType, BossType, MayClick
<1>23. ASSUME NEW w \in Web, EnableSetUp(w) PROVE PayInv'
  BY <1>23 DEF EnableSetUp, Goto, SetUp, DataType, BossType, MayClick
<1>24. ASSUME NEW w \in Web, EnableWrite(w) PROVE PayInv'
  BY <1>24 DEF EnableWrite, Goto, Take, Free, DataType, BossType, MayClick
<1>25. ASSUME NEW w \in Web, EnableReplace(w) PROVE PayInv'
  BY <1>25 DEF EnableReplace, Goto, Publish, Release, DataType, BossType, MayClick
<1>26. ASSUME NEW w \in Web, EnableBackDown(w) PROVE PayInv'
  BY <1>26 DEF EnableBackDown, Goto, SetDown, DataType, BossType, MayClick
<1>27. ASSUME NEW w \in Web, EnableBackUp(w) PROVE PayInv'
  BY <1>27 DEF EnableBackUp, Goto, SetUp, DataType, BossType, MayClick
<1>28. ASSUME NEW w \in Web, ClickCheck(w) PROVE PayInv'
  BY <1>28 DEF ClickCheck, Goto, DataType, BossType, MayClick
<1>29. ASSUME NEW w \in Web, ClickSetDown(w) PROVE PayInv'
  BY <1>29 DEF ClickSetDown, Goto, Release, SetDown, DataType, BossType, MayClick
<1>30. ASSUME NEW w \in Web, ClickSetUp(w) PROVE PayInv'
  BY <1>30 DEF ClickSetUp, Goto, SetUp, DataType, BossType, MayClick
<1>31. ASSUME NEW w \in Web, ClickBack(w) PROVE PayInv'
  BY <1>31 DEF ClickBack, Goto, Release, SetDown, DataType, BossType, MayClick
<1>32. ASSUME NEW w \in Web, ClickWrite(w) PROVE PayInv'
  <2>1. pay'[w].d = pay[w].d /\ pay'[w].u = pay[w].u /\ pay'[w].by = pay[w].by
    BY <1>32, StampedType DEF ClickWrite, Goto, BossType, DataType
  <2>2. \A v \in Web \ {w} : pay'[v] = pay[v]
    BY <1>32 DEF ClickWrite, DataType
  <2> QED
    BY <2>1, <2>2, <1>32 DEF ClickWrite, Goto
<1>33. ASSUME NEW w \in Web, ClickReplace(w) PROVE PayInv'
  BY <1>33 DEF ClickReplace, Goto, Publish, Release, DataType, BossType, MayClick
<1>34. ASSUME NEW w \in Web, IntervalCheck(w) PROVE PayInv'
  BY <1>34 DEF IntervalCheck, Goto, DataType, BossType, MayClick
<1>35. ASSUME NEW w \in Web, IntervalState(w) PROVE PayInv'
  BY <1>35 DEF IntervalState, Goto, DataType, BossType, MayClick
<1>36. ASSUME NEW w \in Web, IntervalLock(w) PROVE PayInv'
  <2>1. CASE pc'[w] # "ivReplace"
    BY <2>1, <1>36 DEF IntervalLock, Goto, Free, ThreadType, WebLabel
  <2>2. CASE pc'[w] = "ivReplace"
    <3>1. file \in Payload
      BY <2>2, <1>36 DEF IntervalLock, Goto, DataType, ThreadType
    <3>2. pay' = [pay EXCEPT ![w] = Stamped(file, want[w])]
      BY <2>2, <1>36 DEF IntervalLock, Goto, ThreadType
    <3>3. pay'[w].d = file.d /\ pay'[w].u = file.u /\ pay'[w].by = file.by
      BY <3>1, <3>2, StampedType DEF BossType, DataType
    <3>4. \A v \in Web \ {w} : pay'[v] = pay[v]
      BY <3>2 DEF DataType
    <3> QED
      BY <2>2, <3>1, <3>3, <3>4, <1>36 DEF IntervalLock, Goto, Take
  <2> QED
    BY <2>1, <2>2
<1>37. ASSUME NEW w \in Web, IntervalReplace(w) PROVE PayInv'
  BY <1>37 DEF IntervalReplace, Goto, Publish, Release, DataType, BossType, MayClick
<1>38. ASSUME NEW w \in Web, PauseCheck(w) PROVE PayInv'
  BY <1>38 DEF PauseCheck, Goto, DataType, BossType, MayClick
<1>39. ASSUME NEW w \in Web, RaisePassEnd(w) PROVE PayInv'
  BY <1>39 DEF RaisePassEnd, Goto, DataType, BossType, MayClick
<1>40. ASSUME NEW w \in Web, ExitStopsTracker(w) PROVE PayInv'
  BY <1>40 DEF ExitStopsTracker, Goto, DataType, BossType, MayClick
<1>41. ASSUME NEW w \in Web, ExitClears(w) PROVE PayInv'
  BY <1>41 DEF ExitClears, Goto, Clear, DataType, BossType, MayClick
<1>42. ASSUME NEW w \in Web, ClearFile(w) PROVE PayInv'
  BY <1>42 DEF ClearFile, Goto, Clear, DataType, BossType, MayClick
<1>43. ASSUME NEW w \in Web, EnableRequest(w) PROVE PayInv'
  BY <1>43 DEF EnableRequest, Goto, Arrive, DataType, BossType, MayClick
<1>44. ASSUME NEW w \in Web, ClickRequest(w) PROVE PayInv'
  BY <1>44 DEF ClickRequest, Goto, Arrive, DataType, BossType, MayClick
<1>45. ASSUME NEW w \in Web, IntervalRequest(w) PROVE PayInv'
  BY <1>45 DEF IntervalRequest, Goto, Arrive, DataType, BossType, MayClick
<1>46. ASSUME NEW w \in Web, ResetRequest(w) PROVE PayInv'
  BY <1>46 DEF ResetRequest, Goto, Arrive, DataType, BossType, MayClick
<1>47. ASSUME NEW w \in Web, PauseRequest(w) PROVE PayInv'
  BY <1>47 DEF PauseRequest, Goto, Arrive, DataType, BossType, MayClick
<1>48. ASSUME NEW w \in Web, EndRequest(w) PROVE PayInv'
  BY <1>48 DEF EndRequest, Goto, Arrive, DataType, BossType, MayClick
<1>49. ASSUME NEW w \in Web, ExitRequest(w) PROVE PayInv'
  BY <1>49 DEF ExitRequest, Goto, Arrive, DataType, BossType, MayClick
<1>50. ASSUME NEW w \in Web, NEW dir \in {-1, 1}, ClickLock(w, dir) PROVE PayInv'
  <2>1. CASE pc'[w] # "tnSetDown"
    BY <2>1, <1>50 DEF ClickLock, Goto, Take, Free
  <2>2. CASE pc'[w] = "tnSetDown"
    <3>1. file \in Payload /\ MayClick(w, dir)
      BY <2>2, <1>50 DEF ClickLock, Goto, MayClick, DataType, ThreadType
    <3>2. file.d \in Int /\ file.u \in Int
      BY <3>1 DEF Payload
    <3>3. file.d + dir \in Int /\ file.u + UplinkStep(dir) \in Int
      BY <3>2, FdtAssumption DEF UplinkStep
    <3>4. pay' = [pay EXCEPT ![w] = [file EXCEPT !.d = file.d + dir,
                                                 !.u = file.u + UplinkStep(dir),
                                                 !.by = "wheel"]]
      BY <2>2, <1>50 DEF ClickLock, Goto, ThreadType
    <3> DEFINE q == [file EXCEPT !.d = file.d + dir, !.u = file.u + UplinkStep(dir),
                                 !.by = "wheel"]
    <3>10. q.d = file.d + dir /\ q.u = file.u + UplinkStep(dir) /\ q.by = "wheel"
      BY <3>1 DEF Payload
    <3>5. pay'[w].d = file.d + dir /\ pay'[w].u = file.u + UplinkStep(dir) /\ pay'[w].by = "wheel"
      BY <3>10, <3>4 DEF DataType
    <3>6. \A v \in Web \ {w} : pay'[v] = pay[v]
      BY <3>4 DEF DataType
    <3>7. pc' = [pc EXCEPT ![w] = "tnSetDown"] /\ lock = NoOne /\ UNCHANGED file
      BY <2>2, <1>50 DEF ClickLock, Goto, Take, Free
    <3>8. file # NoFile /\ file.d + dir \in DownBand /\ file.u + UplinkStep(dir) \in UpBand
      BY <3>1 DEF MayClick
    <3>9. UplinkStep(dir)' = UplinkStep(dir)
      BY DEF UplinkStep
    <3> QED
      BY <3>5, <3>6, <3>7, <3>8, <3>9 DEF UplinkStep
  <2> QED
    BY <2>1, <2>2
<1>51. CASE UNCHANGED vars
  BY <1>51 DEF vars, DataType, BossType, MayClick
<1> QED
  BY <1>1, <1>2, <1>3, <1>4, <1>5, <1>6, <1>7, <1>8, <1>9, <1>10, <1>11, <1>12, <1>13, <1>14, <1>15, <1>16, <1>17, <1>18, <1>19, <1>20, <1>21, <1>22, <1>23, <1>24, <1>25, <1>26, <1>27, <1>28, <1>29, <1>30, <1>31, <1>32, <1>33, <1>34, <1>35, <1>36, <1>37, <1>38, <1>39, <1>40, <1>41, <1>42, <1>43, <1>44, <1>45, <1>46, <1>47, <1>48, <1>49, <1>50, <1>51 DEF Next, MainStep, TrackerStep, Request, WebStep, EnableStep, ClickStep, OtherStep, Done

LEMMA ClearedStep == TypeOK /\ LockInv /\ MainInv /\ StaysCleared /\ [Next]_vars => (MainInv /\ StaysCleared)'
<1> SUFFICES ASSUME TypeOK, LockInv, MainInv, StaysCleared, [Next]_vars PROVE (MainInv /\ StaysCleared)'
  OBVIOUS
<1> USE FdtAssumption DEF TypeOK, LockInv, Holding, Clicking, MainInv, StaysCleared, Committed, Ending, Alive, bossVars, localVars
<1>1. CASE Claim
  BY <1>1 DEF Claim, MainGoto
<1>2. CASE ClearPassEnd
  BY <1>2 DEF ClearPassEnd, MainGoto
<1>3. CASE ClearForPass
  BY <1>3 DEF ClearForPass, MainGoto, Clear
<1>4. CASE ResetCadence
  BY <1>4 DEF ResetCadence, MainGoto
<1>5. CASE Expose
  BY <1>5 DEF Expose, MainGoto
<1>6. CASE Launch
  BY <1>6 DEF Launch, MainGoto
<1>7. CASE PassOver
  BY <1>7 DEF PassOver, MainGoto
<1>8. CASE MarkEnded
  BY <1>8 DEF MarkEnded, MainGoto
<1>9. CASE ClearAfterPass
  BY <1>9 DEF ClearAfterPass, MainGoto, Clear
<1>10. CASE StopTracker
  BY <1>10 DEF StopTracker, MainGoto
<1>11. CASE CompletePass
  BY <1>11 DEF CompletePass, MainGoto
<1>12. CASE Exit
  BY <1>12 DEF Exit, MainGoto, Clear
<1>13. CASE TrackerReads
  BY <1>13 DEF TrackerReads, TrackerGoto, Adopted
<1>14. CASE TrackerReports
  BY <1>14 DEF TrackerReports, TrackerGoto
<1>15. CASE TrackerSetsDown
  BY <1>15 DEF TrackerSetsDown, TrackerGoto
<1>16. CASE TrackerSetsUp
  BY <1>16 DEF TrackerSetsUp, TrackerGoto
<1>17. CASE TrackerEnds
  BY <1>17 DEF TrackerEnds
<1>18. CASE Dial
  BY <1>18 DEF Dial
<1>19. ASSUME NEW w \in Web, EnableCheck(w) PROVE (MainInv /\ StaysCleared)'
  BY <1>19 DEF EnableCheck, Goto
<1>20. ASSUME NEW w \in Web, EnableReadDown(w) PROVE (MainInv /\ StaysCleared)'
  BY <1>20 DEF EnableReadDown, Goto
<1>21. ASSUME NEW w \in Web, EnableReadUp(w) PROVE (MainInv /\ StaysCleared)'
  BY <1>21 DEF EnableReadUp, Goto, Stamped
<1>22. ASSUME NEW w \in Web, EnableSetDown(w) PROVE (MainInv /\ StaysCleared)'
  BY <1>22 DEF EnableSetDown, Goto, SetDown
<1>23. ASSUME NEW w \in Web, EnableSetUp(w) PROVE (MainInv /\ StaysCleared)'
  BY <1>23 DEF EnableSetUp, Goto, SetUp
<1>24. ASSUME NEW w \in Web, EnableWrite(w) PROVE (MainInv /\ StaysCleared)'
  BY <1>24 DEF EnableWrite, Goto, Take, Free
<1>25. ASSUME NEW w \in Web, EnableReplace(w) PROVE (MainInv /\ StaysCleared)'
  BY <1>25 DEF EnableReplace, Goto, Publish, Release
<1>26. ASSUME NEW w \in Web, EnableBackDown(w) PROVE (MainInv /\ StaysCleared)'
  BY <1>26 DEF EnableBackDown, Goto, SetDown
<1>27. ASSUME NEW w \in Web, EnableBackUp(w) PROVE (MainInv /\ StaysCleared)'
  BY <1>27 DEF EnableBackUp, Goto, SetUp
<1>28. ASSUME NEW w \in Web, ClickCheck(w) PROVE (MainInv /\ StaysCleared)'
  BY <1>28 DEF ClickCheck, Goto
<1>29. ASSUME NEW w \in Web, ClickSetDown(w) PROVE (MainInv /\ StaysCleared)'
  BY <1>29 DEF ClickSetDown, Goto, Release, SetDown
<1>30. ASSUME NEW w \in Web, ClickSetUp(w) PROVE (MainInv /\ StaysCleared)'
  BY <1>30 DEF ClickSetUp, Goto, SetUp
<1>31. ASSUME NEW w \in Web, ClickBack(w) PROVE (MainInv /\ StaysCleared)'
  BY <1>31 DEF ClickBack, Goto, Release, SetDown
<1>32. ASSUME NEW w \in Web, ClickWrite(w) PROVE (MainInv /\ StaysCleared)'
  BY <1>32 DEF ClickWrite, Goto, Stamped, Release
<1>33. ASSUME NEW w \in Web, ClickReplace(w) PROVE (MainInv /\ StaysCleared)'
  BY <1>33 DEF ClickReplace, Goto, Publish, Release
<1>34. ASSUME NEW w \in Web, IntervalCheck(w) PROVE (MainInv /\ StaysCleared)'
  BY <1>34 DEF IntervalCheck, Goto
<1>35. ASSUME NEW w \in Web, IntervalState(w) PROVE (MainInv /\ StaysCleared)'
  BY <1>35 DEF IntervalState, Goto
<1>36. ASSUME NEW w \in Web, IntervalLock(w) PROVE (MainInv /\ StaysCleared)'
  BY <1>36 DEF IntervalLock, Goto, Stamped, Take, Free
<1>37. ASSUME NEW w \in Web, IntervalReplace(w) PROVE (MainInv /\ StaysCleared)'
  BY <1>37 DEF IntervalReplace, Goto, Publish, Release
<1>38. ASSUME NEW w \in Web, PauseCheck(w) PROVE (MainInv /\ StaysCleared)'
  BY <1>38 DEF PauseCheck, Goto
<1>39. ASSUME NEW w \in Web, RaisePassEnd(w) PROVE (MainInv /\ StaysCleared)'
  BY <1>39 DEF RaisePassEnd, Goto
<1>40. ASSUME NEW w \in Web, ExitStopsTracker(w) PROVE (MainInv /\ StaysCleared)'
  BY <1>40 DEF ExitStopsTracker, Goto
<1>41. ASSUME NEW w \in Web, ExitClears(w) PROVE (MainInv /\ StaysCleared)'
  BY <1>41 DEF ExitClears, Goto, Clear
<1>42. ASSUME NEW w \in Web, ClearFile(w) PROVE (MainInv /\ StaysCleared)'
  BY <1>42 DEF ClearFile, Goto, Clear
<1>43. ASSUME NEW w \in Web, EnableRequest(w) PROVE (MainInv /\ StaysCleared)'
  BY <1>43 DEF EnableRequest, Goto, Arrive
<1>44. ASSUME NEW w \in Web, ClickRequest(w) PROVE (MainInv /\ StaysCleared)'
  BY <1>44 DEF ClickRequest, Goto, Arrive
<1>45. ASSUME NEW w \in Web, IntervalRequest(w) PROVE (MainInv /\ StaysCleared)'
  BY <1>45 DEF IntervalRequest, Goto, Arrive
<1>46. ASSUME NEW w \in Web, ResetRequest(w) PROVE (MainInv /\ StaysCleared)'
  BY <1>46 DEF ResetRequest, Goto, Arrive
<1>47. ASSUME NEW w \in Web, PauseRequest(w) PROVE (MainInv /\ StaysCleared)'
  BY <1>47 DEF PauseRequest, Goto, Arrive
<1>48. ASSUME NEW w \in Web, EndRequest(w) PROVE (MainInv /\ StaysCleared)'
  BY <1>48 DEF EndRequest, Goto, Arrive
<1>49. ASSUME NEW w \in Web, ExitRequest(w) PROVE (MainInv /\ StaysCleared)'
  BY <1>49 DEF ExitRequest, Goto, Arrive
<1>50. ASSUME NEW w \in Web, NEW dir \in {-1, 1}, ClickLock(w, dir) PROVE (MainInv /\ StaysCleared)'
  BY <1>50 DEF ClickLock, Goto, Take, Free
<1>51. CASE UNCHANGED vars
  BY <1>51 DEF vars
<1> QED
  BY <1>1, <1>2, <1>3, <1>4, <1>5, <1>6, <1>7, <1>8, <1>9, <1>10, <1>11, <1>12, <1>13, <1>14, <1>15, <1>16, <1>17, <1>18, <1>19, <1>20, <1>21, <1>22, <1>23, <1>24, <1>25, <1>26, <1>27, <1>28, <1>29, <1>30, <1>31, <1>32, <1>33, <1>34, <1>35, <1>36, <1>37, <1>38, <1>39, <1>40, <1>41, <1>42, <1>43, <1>44, <1>45, <1>46, <1>47, <1>48, <1>49, <1>50, <1>51 DEF Next, MainStep, TrackerStep, Request, WebStep, EnableStep, ClickStep, OtherStep, Done

LEMMA FreshStep == TypeOK /\ SeenInv /\ LockInv /\ PayInv /\ StampInv /\ [Next]_vars => StampInv'
<1> SUFFICES ASSUME TypeOK, SeenInv, LockInv, PayInv, StampInv, [Next]_vars PROVE StampInv'
  OBVIOUS
<1> USE FdtAssumption, TypeParts DEF ThreadType, WebLabel, LockInv, PayInv, StampInv, FileStamp, TrackerStamp, FreshStamp, KnownBase, Stamping, bossVars, localVars
<1>1. CASE Claim
  BY <1>1 DEF Claim, MainGoto, DataType, BossType, RadioType
<1>2. CASE ClearPassEnd
  BY <1>2 DEF ClearPassEnd, MainGoto, DataType, BossType, RadioType
<1>3. CASE ClearForPass
  BY <1>3 DEF ClearForPass, MainGoto, Clear, DataType, BossType, RadioType
<1>4. CASE ResetCadence
  BY <1>4 DEF ResetCadence, MainGoto, DataType, BossType, RadioType
<1>5. CASE Expose
  BY <1>5 DEF Expose, MainGoto, DataType, BossType, RadioType
<1>6. CASE Launch
  BY <1>6, TrackerTypes DEF Launch, MainGoto, BossType
<1>7. CASE PassOver
  BY <1>7 DEF PassOver, MainGoto, DataType, BossType, RadioType
<1>8. CASE MarkEnded
  BY <1>8 DEF MarkEnded, MainGoto, DataType, BossType, RadioType
<1>9. CASE ClearAfterPass
  BY <1>9 DEF ClearAfterPass, MainGoto, Clear, DataType, BossType, RadioType
<1>10. CASE StopTracker
  BY <1>10, TrackerTypes DEF StopTracker, MainGoto, BossType
<1>11. CASE CompletePass
  BY <1>11 DEF CompletePass, MainGoto, DataType, BossType, RadioType
<1>12. CASE Exit
  BY <1>12 DEF Exit, MainGoto, Clear, DataType, BossType, RadioType
<1>13. CASE TrackerReads
  BY <1>13 DEF TrackerReads, TrackerGoto, Adopted, DataType, BossType, RadioType
<1>14. CASE TrackerReports
  BY <1>14 DEF TrackerReports, TrackerGoto, DataType, BossType, RadioType
<1>15. CASE TrackerSetsDown
  BY <1>15 DEF TrackerSetsDown, TrackerGoto, DataType, BossType, RadioType
<1>16. CASE TrackerSetsUp
  BY <1>16 DEF TrackerSetsUp, TrackerGoto, DataType, BossType, RadioType
<1>17. CASE TrackerEnds
  BY <1>17, TrackerTypes DEF TrackerEnds, BossType
<1>18. CASE Dial
  BY <1>18 DEF Dial, DataType, BossType, RadioType
<1>19. ASSUME NEW w \in Web, EnableCheck(w) PROVE StampInv'
  BY <1>19 DEF EnableCheck, Goto, DataType, BossType, RadioType
<1>20. ASSUME NEW w \in Web, EnableReadDown(w) PROVE StampInv'
  BY <1>20 DEF EnableReadDown, Goto, DataType, BossType, RadioType
<1>21. ASSUME NEW w \in Web, EnableReadUp(w) PROVE StampInv'
  <2>1. CASE pc'[w] # "enSetDown"
    BY <2>1, <1>21 DEF EnableReadUp, Goto, BossType, DataType
  <2>2. CASE pc'[w] = "enSetDown"
    <3> DEFINE p == Stamped(pay[w], every)
    <3>1. /\ p \in Payload /\ p.stamp = stamps + 1
          /\ seen[w] \in Int /\ old[w].d \in Int /\ radio.u \in Int
      <4>1. p \in Payload /\ p.stamp = stamps + 1
        BY StampedType DEF BossType, DataType
      <4>2. seen[w] \in Int
        BY <2>2, <1>21 DEF EnableReadUp, Goto, SeenInv
      <4> QED
        BY <4>1, <4>2 DEF RadioType, Tuning
    <3>6. pay'[w].stamp = stamps + 1
      <4> DEFINE q == [p EXCEPT !.d = old[w].d - seen[w], !.u = radio.u + seen[w],
                                !.by = "radio"]
      <4>1. q.stamp = p.stamp
        BY <3>1 DEF Payload
      <4>2. pay'[w] = q
        BY <2>2, <1>21 DEF EnableReadUp, Goto, DataType
      <4> QED
        BY <3>1, <4>1, <4>2
    <3>2. pay'[w].stamp = stamps + 1 /\ stamps' = stamps + 1
      BY <2>2, <3>1, <3>6, <1>21 DEF EnableReadUp, Goto, BossType
    <3>3. \A v \in Web \ {w} : pay'[v] = pay[v]
      BY <2>2, <1>21 DEF EnableReadUp, Goto, DataType
    <3>4. UNCHANGED <<file, trk>>
      BY <1>21 DEF EnableReadUp
    <3>5. \E to \in Stamping : pc' = [pc EXCEPT ![w] = to]
      BY <2>2, <1>21 DEF EnableReadUp, Goto
    <3> QED
      BY <3>2, <3>3, <3>4, <3>5 DEF BossType
  <2> QED
    BY <2>1, <2>2
<1>22. ASSUME NEW w \in Web, EnableSetDown(w) PROVE StampInv'
  BY <1>22 DEF EnableSetDown, Goto, SetDown, DataType, BossType, RadioType
<1>23. ASSUME NEW w \in Web, EnableSetUp(w) PROVE StampInv'
  BY <1>23 DEF EnableSetUp, Goto, SetUp, DataType, BossType, RadioType
<1>24. ASSUME NEW w \in Web, EnableWrite(w) PROVE StampInv'
  BY <1>24 DEF EnableWrite, Goto, Take, Free, DataType, BossType, RadioType
<1>25. ASSUME NEW w \in Web, EnableReplace(w) PROVE StampInv'
  BY <1>25 DEF EnableReplace, Goto, Publish, Release, DataType, BossType, RadioType
<1>26. ASSUME NEW w \in Web, EnableBackDown(w) PROVE StampInv'
  BY <1>26 DEF EnableBackDown, Goto, SetDown, DataType, BossType, RadioType
<1>27. ASSUME NEW w \in Web, EnableBackUp(w) PROVE StampInv'
  BY <1>27 DEF EnableBackUp, Goto, SetUp, DataType, BossType, RadioType
<1>28. ASSUME NEW w \in Web, ClickCheck(w) PROVE StampInv'
  BY <1>28 DEF ClickCheck, Goto, DataType, BossType, RadioType
<1>29. ASSUME NEW w \in Web, ClickSetDown(w) PROVE StampInv'
  BY <1>29 DEF ClickSetDown, Goto, Release, SetDown, DataType, BossType, RadioType
<1>30. ASSUME NEW w \in Web, ClickSetUp(w) PROVE StampInv'
  BY <1>30 DEF ClickSetUp, Goto, SetUp, DataType, BossType, RadioType
<1>31. ASSUME NEW w \in Web, ClickBack(w) PROVE StampInv'
  BY <1>31 DEF ClickBack, Goto, Release, SetDown, DataType, BossType, RadioType
<1>32. ASSUME NEW w \in Web, ClickWrite(w) PROVE StampInv'
  <2>1. CASE pc'[w] # "tnReplace"
    BY <2>1, <1>32 DEF ClickWrite, Goto, Release, BossType, DataType
  <2>2. CASE pc'[w] = "tnReplace"
    <3>1. pay[w] \in Payload
      BY DEF DataType
    <3>6. pay'[w].stamp = stamps + 1
      <4>1. pay'[w] = Stamped(pay[w], every)
        BY <2>2, <1>32 DEF ClickWrite, Goto, DataType
      <4> QED
        BY <3>1, <4>1, StampedType DEF BossType, DataType
    <3>2. pay'[w].stamp = stamps + 1 /\ stamps' = stamps + 1
      BY <2>2, <3>1, <3>6, <1>32 DEF ClickWrite, Goto, BossType
    <3>3. \A v \in Web \ {w} : pay'[v] = pay[v]
      BY <2>2, <1>32 DEF ClickWrite, Goto, DataType
    <3>4. UNCHANGED <<file, trk>>
      BY <1>32 DEF ClickWrite
    <3>5. \E to \in Stamping : pc' = [pc EXCEPT ![w] = to]
      BY <2>2, <1>32 DEF ClickWrite, Goto
    <3> QED
      BY <3>2, <3>3, <3>4, <3>5 DEF BossType
  <2> QED
    BY <2>1, <2>2
<1>33. ASSUME NEW w \in Web, ClickReplace(w) PROVE StampInv'
  BY <1>33 DEF ClickReplace, Goto, Publish, Release, DataType, BossType, RadioType
<1>34. ASSUME NEW w \in Web, IntervalCheck(w) PROVE StampInv'
  BY <1>34 DEF IntervalCheck, Goto, DataType, BossType, RadioType
<1>35. ASSUME NEW w \in Web, IntervalState(w) PROVE StampInv'
  BY <1>35 DEF IntervalState, Goto, DataType, BossType, RadioType
<1>36. ASSUME NEW w \in Web, IntervalLock(w) PROVE StampInv'
  <2>1. CASE pc'[w] # "ivReplace"
    BY <2>1, <1>36 DEF IntervalLock, Goto, Take, Free, BossType, DataType
  <2>2. CASE pc'[w] = "ivReplace"
    <3>1. file \in Payload
      BY <2>2, <1>36 DEF IntervalLock, Goto, DataType
    <3>6. pay'[w].stamp = stamps + 1
      <4>1. pay'[w] = Stamped(file, want[w])
        BY <2>2, <1>36 DEF IntervalLock, Goto, DataType
      <4> QED
        BY <3>1, <4>1, StampedType DEF BossType, DataType
    <3>2. pay'[w].stamp = stamps + 1 /\ stamps' = stamps + 1
      BY <2>2, <3>1, <3>6, <1>36 DEF IntervalLock, Goto, BossType
    <3>3. \A v \in Web \ {w} : pay'[v] = pay[v]
      BY <2>2, <1>36 DEF IntervalLock, Goto, DataType
    <3>4. UNCHANGED <<file, trk>>
      BY <1>36 DEF IntervalLock
    <3>5. \E to \in Stamping : pc' = [pc EXCEPT ![w] = to]
      BY <2>2, <1>36 DEF IntervalLock, Goto
    <3> QED
      BY <3>2, <3>3, <3>4, <3>5 DEF BossType
  <2> QED
    BY <2>1, <2>2
<1>37. ASSUME NEW w \in Web, IntervalReplace(w) PROVE StampInv'
  BY <1>37 DEF IntervalReplace, Goto, Publish, Release, DataType, BossType, RadioType
<1>38. ASSUME NEW w \in Web, PauseCheck(w) PROVE StampInv'
  BY <1>38 DEF PauseCheck, Goto, DataType, BossType, RadioType
<1>39. ASSUME NEW w \in Web, RaisePassEnd(w) PROVE StampInv'
  BY <1>39 DEF RaisePassEnd, Goto, DataType, BossType, RadioType
<1>40. ASSUME NEW w \in Web, ExitStopsTracker(w) PROVE StampInv'
  BY <1>40, TrackerTypes DEF ExitStopsTracker, Goto, BossType
<1>41. ASSUME NEW w \in Web, ExitClears(w) PROVE StampInv'
  BY <1>41 DEF ExitClears, Goto, Clear, DataType, BossType, RadioType
<1>42. ASSUME NEW w \in Web, ClearFile(w) PROVE StampInv'
  BY <1>42 DEF ClearFile, Goto, Clear, DataType, BossType, RadioType
<1>43. ASSUME NEW w \in Web, EnableRequest(w) PROVE StampInv'
  BY <1>43 DEF EnableRequest, Goto, Arrive, DataType, BossType, RadioType
<1>44. ASSUME NEW w \in Web, ClickRequest(w) PROVE StampInv'
  BY <1>44 DEF ClickRequest, Goto, Arrive, DataType, BossType, RadioType
<1>45. ASSUME NEW w \in Web, IntervalRequest(w) PROVE StampInv'
  BY <1>45 DEF IntervalRequest, Goto, Arrive, DataType, BossType, RadioType
<1>46. ASSUME NEW w \in Web, ResetRequest(w) PROVE StampInv'
  BY <1>46 DEF ResetRequest, Goto, Arrive, DataType, BossType, RadioType
<1>47. ASSUME NEW w \in Web, PauseRequest(w) PROVE StampInv'
  BY <1>47 DEF PauseRequest, Goto, Arrive, DataType, BossType, RadioType
<1>48. ASSUME NEW w \in Web, EndRequest(w) PROVE StampInv'
  BY <1>48 DEF EndRequest, Goto, Arrive, DataType, BossType, RadioType
<1>49. ASSUME NEW w \in Web, ExitRequest(w) PROVE StampInv'
  BY <1>49 DEF ExitRequest, Goto, Arrive, DataType, BossType, RadioType
<1>50. ASSUME NEW w \in Web, NEW dir \in {-1, 1}, ClickLock(w, dir) PROVE StampInv'
  BY <1>50 DEF ClickLock, Goto, Take, Free, DataType, BossType, RadioType
<1>51. CASE UNCHANGED vars
  BY <1>51 DEF vars, DataType, BossType, RadioType
<1> QED
  BY <1>1, <1>2, <1>3, <1>4, <1>5, <1>6, <1>7, <1>8, <1>9, <1>10, <1>11, <1>12, <1>13, <1>14, <1>15, <1>16, <1>17, <1>18, <1>19, <1>20, <1>21, <1>22, <1>23, <1>24, <1>25, <1>26, <1>27, <1>28, <1>29, <1>30, <1>31, <1>32, <1>33, <1>34, <1>35, <1>36, <1>37, <1>38, <1>39, <1>40, <1>41, <1>42, <1>43, <1>44, <1>45, <1>46, <1>47, <1>48, <1>49, <1>50, <1>51 DEF Next, MainStep, TrackerStep, Request, WebStep, EnableStep, ClickStep, OtherStep, Done

LEMMA InitInvariant == Init => IInv
<1> SUFFICES ASSUME Init PROVE IInv
  OBVIOUS
<1> USE DEF Init
<1>1. BossType
  <2>1. MaxPass \in Nat
    BY FdtAssumption
  <2>2. pass \in 0..MaxPass /\ acts \in Nat /\ stamps \in Nat
    BY <2>1
  <2>3. /\ exposed \in BOOLEAN /\ tracking \in BOOLEAN
        /\ passEnd \in BOOLEAN /\ shutdown \in BOOLEAN
    OBVIOUS
  <2>4. main \in MainLabel /\ lock \in Web \cup {NoOne}
    BY DEF MainLabel
  <2> QED
    BY <2>2, <2>3, <2>4 DEF BossType
<1>7. ThreadType
  BY DEF ThreadType, WebLabel
<1>2. DataType
  BY DEF DataType, Cadence, Payload, Blank, Source
<1>3. RadioType
  BY FdtAssumption, TrackerTypes DEF RadioType, Tuning, Midpoint
<1>4. SeenInv /\ LockInv /\ PayInv
  BY FdtAssumption DEF SeenInv, LockInv, PayInv, Holding, Clicking, Anchoring
<1>5. MainInv /\ StaysCleared
  BY DEF MainInv, StaysCleared
<1>6. StampInv
  BY TrackerTypes DEF StampInv, FileStamp, TrackerStamp, FreshStamp, KnownBase, Stamping
<1> QED
  BY <1>1, <1>2, <1>3, <1>4, <1>5, <1>6, <1>7, TypeParts DEF IInv, SafeInv

LEMMA Step == IInv /\ [Next]_vars => IInv'
<1> SUFFICES ASSUME IInv, [Next]_vars PROVE IInv'
  OBVIOUS
<1>1. TypeOK'
  <2>1. BossType' /\ ThreadType' /\ DataType' /\ RadioType'
    BY BossStep, ThreadStep, DataStep, RadioStep DEF IInv, SafeInv
  <2> QED
    BY <2>1 DEF TypeOK, BossType, ThreadType, DataType, RadioType
<1>2. SafeInv'
  BY <1>1, SeenStep, LockStep, PayStep, ClearedStep DEF IInv, SafeInv
<1> QED
  BY <1>2, FreshStep DEF IInv, SafeInv

\* The inductive invariant holds in every reachable state.
THEOREM Invariant == Spec => []IInv
BY InitInvariant, Step, PTL DEF Spec

\* Every variable of the FDT control keeps its type.
THEOREM TypeCorrect == Spec => []TypeOK
<1>1. IInv => TypeOK
  BY DEF IInv, SafeInv
<1> QED
  BY <1>1, Invariant, PTL

\* Whatever is in flight, nothing recreates the control file once the main
\* thread has cleared it for the end of a pass or the exit.
THEOREM ClearedSafe == Spec => []StaysCleared
<1>1. IInv => StaysCleared
  BY DEF IInv, SafeInv
<1> QED
  BY <1>1, Invariant, PTL

\* The tracking process never takes one publication for another.
THEOREM KnownSafe == Spec => []KnownBase
<1>1. IInv => KnownBase
  BY DEF IInv, StampInv
<1> QED
  BY <1>1, Invariant, PTL

LEMMA ReviveStep == IInv /\ [Next]_vars => (file = NoFile /\ file' # NoFile => \E v \in Web : pc[v] = "enReplace")
<1> SUFFICES ASSUME IInv, [Next]_vars PROVE (file = NoFile /\ file' # NoFile => \E v \in Web : pc[v] = "enReplace")
  OBVIOUS
<1> USE FdtAssumption DEF IInv, SafeInv, PayInv, Clicking, bossVars, localVars
<1>1. CASE MainStep
  BY <1>1 DEF MainStep, Claim, MainGoto, ClearPassEnd, ClearForPass, Clear, ResetCadence, Expose, Launch, PassOver, MarkEnded, ClearAfterPass, StopTracker, CompletePass, Exit
<1>2. CASE TrackerStep
  BY <1>2 DEF TrackerStep, TrackerReads, TrackerGoto, Adopted, TrackerReports, TrackerSetsDown, TrackerSetsUp
<1>3. CASE TrackerEnds \/ Dial
  BY <1>3 DEF TrackerEnds, Dial
<1>4. ASSUME NEW w \in Web, EnableCheck(w) PROVE (file = NoFile /\ file' # NoFile => \E v \in Web : pc[v] = "enReplace")
  BY <1>4 DEF EnableCheck, Goto
<1>5. ASSUME NEW w \in Web, EnableReadDown(w) PROVE (file = NoFile /\ file' # NoFile => \E v \in Web : pc[v] = "enReplace")
  BY <1>5 DEF EnableReadDown, Goto
<1>6. ASSUME NEW w \in Web, EnableReadUp(w) PROVE (file = NoFile /\ file' # NoFile => \E v \in Web : pc[v] = "enReplace")
  BY <1>6 DEF EnableReadUp, Goto, Stamped
<1>7. ASSUME NEW w \in Web, EnableSetDown(w) PROVE (file = NoFile /\ file' # NoFile => \E v \in Web : pc[v] = "enReplace")
  BY <1>7 DEF EnableSetDown, Goto, SetDown
<1>8. ASSUME NEW w \in Web, EnableSetUp(w) PROVE (file = NoFile /\ file' # NoFile => \E v \in Web : pc[v] = "enReplace")
  BY <1>8 DEF EnableSetUp, Goto, SetUp
<1>9. ASSUME NEW w \in Web, EnableWrite(w) PROVE (file = NoFile /\ file' # NoFile => \E v \in Web : pc[v] = "enReplace")
  BY <1>9 DEF EnableWrite, Goto, Take, Free
<1>10. ASSUME NEW w \in Web, EnableReplace(w) PROVE (file = NoFile /\ file' # NoFile => \E v \in Web : pc[v] = "enReplace")
  BY <1>10 DEF EnableReplace, Goto, Publish, Release
<1>11. ASSUME NEW w \in Web, EnableBackDown(w) PROVE (file = NoFile /\ file' # NoFile => \E v \in Web : pc[v] = "enReplace")
  BY <1>11 DEF EnableBackDown, Goto, SetDown
<1>12. ASSUME NEW w \in Web, EnableBackUp(w) PROVE (file = NoFile /\ file' # NoFile => \E v \in Web : pc[v] = "enReplace")
  BY <1>12 DEF EnableBackUp, Goto, SetUp
<1>13. ASSUME NEW w \in Web, ClickCheck(w) PROVE (file = NoFile /\ file' # NoFile => \E v \in Web : pc[v] = "enReplace")
  BY <1>13 DEF ClickCheck, Goto
<1>14. ASSUME NEW w \in Web, ClickSetDown(w) PROVE (file = NoFile /\ file' # NoFile => \E v \in Web : pc[v] = "enReplace")
  BY <1>14 DEF ClickSetDown, Goto, Release, SetDown
<1>15. ASSUME NEW w \in Web, ClickSetUp(w) PROVE (file = NoFile /\ file' # NoFile => \E v \in Web : pc[v] = "enReplace")
  BY <1>15 DEF ClickSetUp, Goto, SetUp
<1>16. ASSUME NEW w \in Web, ClickBack(w) PROVE (file = NoFile /\ file' # NoFile => \E v \in Web : pc[v] = "enReplace")
  BY <1>16 DEF ClickBack, Goto, Release, SetDown
<1>17. ASSUME NEW w \in Web, ClickWrite(w) PROVE (file = NoFile /\ file' # NoFile => \E v \in Web : pc[v] = "enReplace")
  BY <1>17 DEF ClickWrite, Goto, Stamped, Release
<1>18. ASSUME NEW w \in Web, ClickReplace(w) PROVE (file = NoFile /\ file' # NoFile => \E v \in Web : pc[v] = "enReplace")
  BY <1>18 DEF ClickReplace, Goto, Publish, Release
<1>19. ASSUME NEW w \in Web, IntervalCheck(w) PROVE (file = NoFile /\ file' # NoFile => \E v \in Web : pc[v] = "enReplace")
  BY <1>19 DEF IntervalCheck, Goto
<1>20. ASSUME NEW w \in Web, IntervalState(w) PROVE (file = NoFile /\ file' # NoFile => \E v \in Web : pc[v] = "enReplace")
  BY <1>20 DEF IntervalState, Goto
<1>21. ASSUME NEW w \in Web, IntervalLock(w) PROVE (file = NoFile /\ file' # NoFile => \E v \in Web : pc[v] = "enReplace")
  BY <1>21 DEF IntervalLock, Goto, Stamped, Take, Free
<1>22. ASSUME NEW w \in Web, IntervalReplace(w) PROVE (file = NoFile /\ file' # NoFile => \E v \in Web : pc[v] = "enReplace")
  BY <1>22 DEF IntervalReplace, Goto, Publish, Release
<1>23. ASSUME NEW w \in Web, PauseCheck(w) PROVE (file = NoFile /\ file' # NoFile => \E v \in Web : pc[v] = "enReplace")
  BY <1>23 DEF PauseCheck, Goto
<1>24. ASSUME NEW w \in Web, RaisePassEnd(w) PROVE (file = NoFile /\ file' # NoFile => \E v \in Web : pc[v] = "enReplace")
  BY <1>24 DEF RaisePassEnd, Goto
<1>25. ASSUME NEW w \in Web, ExitStopsTracker(w) PROVE (file = NoFile /\ file' # NoFile => \E v \in Web : pc[v] = "enReplace")
  BY <1>25 DEF ExitStopsTracker, Goto
<1>26. ASSUME NEW w \in Web, ExitClears(w) PROVE (file = NoFile /\ file' # NoFile => \E v \in Web : pc[v] = "enReplace")
  BY <1>26 DEF ExitClears, Goto, Clear
<1>27. ASSUME NEW w \in Web, ClearFile(w) PROVE (file = NoFile /\ file' # NoFile => \E v \in Web : pc[v] = "enReplace")
  BY <1>27 DEF ClearFile, Goto, Clear
<1>28. ASSUME NEW w \in Web, EnableRequest(w) PROVE (file = NoFile /\ file' # NoFile => \E v \in Web : pc[v] = "enReplace")
  BY <1>28 DEF EnableRequest, Goto, Arrive
<1>29. ASSUME NEW w \in Web, ClickRequest(w) PROVE (file = NoFile /\ file' # NoFile => \E v \in Web : pc[v] = "enReplace")
  BY <1>29 DEF ClickRequest, Goto, Arrive
<1>30. ASSUME NEW w \in Web, IntervalRequest(w) PROVE (file = NoFile /\ file' # NoFile => \E v \in Web : pc[v] = "enReplace")
  BY <1>30 DEF IntervalRequest, Goto, Arrive
<1>31. ASSUME NEW w \in Web, ResetRequest(w) PROVE (file = NoFile /\ file' # NoFile => \E v \in Web : pc[v] = "enReplace")
  BY <1>31 DEF ResetRequest, Goto, Arrive
<1>32. ASSUME NEW w \in Web, PauseRequest(w) PROVE (file = NoFile /\ file' # NoFile => \E v \in Web : pc[v] = "enReplace")
  BY <1>32 DEF PauseRequest, Goto, Arrive
<1>33. ASSUME NEW w \in Web, EndRequest(w) PROVE (file = NoFile /\ file' # NoFile => \E v \in Web : pc[v] = "enReplace")
  BY <1>33 DEF EndRequest, Goto, Arrive
<1>34. ASSUME NEW w \in Web, ExitRequest(w) PROVE (file = NoFile /\ file' # NoFile => \E v \in Web : pc[v] = "enReplace")
  BY <1>34 DEF ExitRequest, Goto, Arrive
<1>35. ASSUME NEW w \in Web, NEW dir \in {-1, 1}, ClickLock(w, dir) PROVE (file = NoFile /\ file' # NoFile => \E v \in Web : pc[v] = "enReplace")
  BY <1>35 DEF ClickLock, Goto, Take, Free
<1>36. CASE UNCHANGED vars
  BY <1>36 DEF vars
<1> QED
  BY <1>1, <1>2, <1>3, <1>4, <1>5, <1>6, <1>7, <1>8, <1>9, <1>10, <1>11, <1>12, <1>13, <1>14, <1>15, <1>16, <1>17, <1>18, <1>19, <1>20, <1>21, <1>22, <1>23, <1>24, <1>25, <1>26, <1>27, <1>28, <1>29, <1>30, <1>31, <1>32, <1>33, <1>34, <1>35, <1>36 DEF Next, MainStep, TrackerStep, Request, WebStep, EnableStep, ClickStep, OtherStep, Done

\* A click or a cadence change in flight never turns a paused session on.
THEOREM ReviveSafe == Spec => OnlyEnableRevives
<1>1. IInv /\ [Next]_vars =>
        [file = NoFile /\ file' # NoFile => \E w \in Web : pc[w] = "enReplace"]_vars
  BY ReviveStep
<1> QED
  BY <1>1, Invariant, PTL DEF Spec, OnlyEnableRevives

LEMMA SessionInit == Init => S!Init
BY DEF Init, S!Init, Session, Sealed, Ending

LEMMA Published ==
  ASSUME IInv, NEW w \in Web, w \in Committed, file' = pay[w]
  PROVE  /\ ~Sealed /\ ~Sealed' /\ Session' # NoFile
         /\ Session' = [d |-> pay[w].d, u |-> pay[w].u, every |-> pay[w].every,
                      by |-> pay[w].by]
         /\ pay[w].d \in Int /\ pay[w].u \in Int /\ pay[w].every \in Cadence
         /\ pay[w].by \in Source
<1>1. pay[w] \in Payload
  BY DEF IInv, SafeInv, TypeOK
<1>2. /\ pay[w].d \in Int /\ pay[w].u \in Int /\ pay[w].every \in Cadence
      /\ pay[w].by \in Source
  BY <1>1 DEF Payload
<1>3. file' # NoFile
  BY <1>1, FdtAssumption
<1>4. Session' = [d |-> pay[w].d, u |-> pay[w].u, every |-> pay[w].every,
                      by |-> pay[w].by]
  BY <1>3 DEF Session
<1>5. Session' # NoFile
  BY <1>2, <1>4, FdtAssumption
<1> QED
  BY <1>2, <1>3, <1>4, <1>5 DEF Sealed

LEMMA SessionOn ==
  ASSUME IInv, file # NoFile
  PROVE  /\ Session # NoFile
         /\ Session = [d |-> file.d, u |-> file.u, every |-> file.every, by |-> file.by]
<1>1. /\ file.d \in Int /\ file.u \in Int /\ file.every \in Cadence
      /\ file.by \in Source
  BY DEF IInv, SafeInv, TypeOK, Payload
<1> QED
  BY <1>1, FdtAssumption DEF Session

LEMMA SessionStep == IInv /\ [Next]_vars => [S!Next]_<<Session, Sealed>>
<1> SUFFICES ASSUME IInv, [Next]_vars PROVE [S!Next]_<<Session, Sealed>>
  OBVIOUS
<1> USE FdtAssumption DEF bossVars, localVars
<1>1. CASE Claim
  BY <1>1 DEF Claim, MainGoto, IInv, SafeInv, Session, Sealed, Ending, Committed, S!Next, S!Clear, S!Open, LockInv, Holding, Clicking
<1>2. CASE ClearPassEnd
  BY <1>2 DEF ClearPassEnd, MainGoto, IInv, SafeInv, Session, Sealed, Ending, Committed, S!Next, S!Clear, S!Open, LockInv, Holding, Clicking
<1>3. CASE ClearForPass
  BY <1>3 DEF ClearForPass, MainGoto, Clear, IInv, SafeInv, Session, Sealed, Ending, Committed, S!Next, S!Clear, S!Open, LockInv, Holding, Clicking
<1>4. CASE ResetCadence
  BY <1>4 DEF ResetCadence, MainGoto, IInv, SafeInv, Session, Sealed, Ending, Committed, S!Next, S!Clear, S!Open, LockInv, Holding, Clicking
<1>5. CASE Expose
  BY <1>5 DEF Expose, MainGoto, IInv, SafeInv, Session, Sealed, Ending, Committed, S!Next, S!Clear, S!Open, LockInv, Holding, Clicking
<1>6. CASE Launch
  BY <1>6 DEF Launch, MainGoto, IInv, SafeInv, Session, Sealed, Ending, Committed, S!Next, S!Clear, S!Open, LockInv, Holding, Clicking
<1>7. CASE PassOver
  BY <1>7 DEF PassOver, MainGoto, IInv, SafeInv, Session, Sealed, Ending, Committed, S!Next, S!Clear, S!Open, LockInv, Holding, Clicking
<1>8. CASE MarkEnded
  BY <1>8 DEF MarkEnded, MainGoto, IInv, SafeInv, Session, Sealed, Ending, Committed, S!Next, S!Clear, S!Open, LockInv, Holding, Clicking
<1>9. CASE ClearAfterPass
  BY <1>9 DEF ClearAfterPass, MainGoto, Clear, IInv, SafeInv, Session, Sealed, Ending, Committed, S!Next, S!Clear, S!Open, LockInv, Holding, Clicking
<1>10. CASE StopTracker
  BY <1>10 DEF StopTracker, MainGoto, IInv, SafeInv, Session, Sealed, Ending, Committed, S!Next, S!Clear, S!Open, LockInv, Holding, Clicking
<1>11. CASE CompletePass
  BY <1>11 DEF CompletePass, MainGoto, IInv, SafeInv, Session, Sealed, Ending, Committed, S!Next, S!Clear, S!Open, LockInv, Holding, Clicking
<1>12. CASE Exit
  BY <1>12 DEF Exit, MainGoto, Clear, IInv, SafeInv, Session, Sealed, Ending, Committed, S!Next, S!Clear, S!Open, LockInv, Holding, Clicking
<1>13. CASE TrackerReads
  BY <1>13 DEF TrackerReads, TrackerGoto, Adopted, IInv, SafeInv, Session, Sealed, Ending, Committed, S!Next, S!Clear, S!Open, LockInv, Holding, Clicking
<1>14. CASE TrackerReports
  BY <1>14 DEF TrackerReports, TrackerGoto, IInv, SafeInv, Session, Sealed, Ending, Committed, S!Next, S!Clear, S!Open, LockInv, Holding, Clicking
<1>15. CASE TrackerSetsDown
  BY <1>15 DEF TrackerSetsDown, TrackerGoto, IInv, SafeInv, Session, Sealed, Ending, Committed, S!Next, S!Clear, S!Open, LockInv, Holding, Clicking
<1>16. CASE TrackerSetsUp
  BY <1>16 DEF TrackerSetsUp, TrackerGoto, IInv, SafeInv, Session, Sealed, Ending, Committed, S!Next, S!Clear, S!Open, LockInv, Holding, Clicking
<1>17. CASE TrackerEnds
  BY <1>17 DEF TrackerEnds, IInv, SafeInv, Session, Sealed, Ending, Committed, S!Next, S!Clear, S!Open, LockInv, Holding, Clicking
<1>18. CASE Dial
  BY <1>18 DEF Dial, IInv, SafeInv, Session, Sealed, Ending, Committed, S!Next, S!Clear, S!Open, LockInv, Holding, Clicking
<1>19. ASSUME NEW w \in Web, EnableCheck(w) PROVE [S!Next]_<<Session, Sealed>>
  BY <1>19 DEF EnableCheck, Goto, IInv, SafeInv, Session, Sealed, Ending, Committed, S!Next, S!Clear, S!Open, LockInv, Holding, Clicking
<1>20. ASSUME NEW w \in Web, EnableReadDown(w) PROVE [S!Next]_<<Session, Sealed>>
  BY <1>20 DEF EnableReadDown, Goto, IInv, SafeInv, Session, Sealed, Ending, Committed, S!Next, S!Clear, S!Open, LockInv, Holding, Clicking
<1>21. ASSUME NEW w \in Web, EnableReadUp(w) PROVE [S!Next]_<<Session, Sealed>>
  BY <1>21 DEF EnableReadUp, Goto, Stamped, IInv, SafeInv, Session, Sealed, Ending, Committed, S!Next, S!Clear, S!Open, LockInv, Holding, Clicking
<1>22. ASSUME NEW w \in Web, EnableSetDown(w) PROVE [S!Next]_<<Session, Sealed>>
  BY <1>22 DEF EnableSetDown, Goto, SetDown, IInv, SafeInv, Session, Sealed, Ending, Committed, S!Next, S!Clear, S!Open, LockInv, Holding, Clicking
<1>23. ASSUME NEW w \in Web, EnableSetUp(w) PROVE [S!Next]_<<Session, Sealed>>
  BY <1>23 DEF EnableSetUp, Goto, SetUp, IInv, SafeInv, Session, Sealed, Ending, Committed, S!Next, S!Clear, S!Open, LockInv, Holding, Clicking
<1>24. ASSUME NEW w \in Web, EnableWrite(w) PROVE [S!Next]_<<Session, Sealed>>
  BY <1>24 DEF EnableWrite, Goto, Take, Free, IInv, SafeInv, Session, Sealed, Ending, Committed, S!Next, S!Clear, S!Open, LockInv, Holding, Clicking
<1>25. ASSUME NEW w \in Web, EnableReplace(w) PROVE [S!Next]_<<Session, Sealed>>
  <2>1. w \in Committed /\ file' = pay[w]
    BY <1>25 DEF EnableReplace, Goto, Publish, Committed
  <2>2. pay[w].by = "radio"
    BY <1>25 DEF EnableReplace, Goto, PayInv, Anchoring, IInv, SafeInv
  <2> QED
    BY <2>1, <2>2, Published DEF S!Next, S!Anchor, S!Pair
<1>26. ASSUME NEW w \in Web, EnableBackDown(w) PROVE [S!Next]_<<Session, Sealed>>
  BY <1>26 DEF EnableBackDown, Goto, SetDown, IInv, SafeInv, Session, Sealed, Ending, Committed, S!Next, S!Clear, S!Open, LockInv, Holding, Clicking
<1>27. ASSUME NEW w \in Web, EnableBackUp(w) PROVE [S!Next]_<<Session, Sealed>>
  BY <1>27 DEF EnableBackUp, Goto, SetUp, IInv, SafeInv, Session, Sealed, Ending, Committed, S!Next, S!Clear, S!Open, LockInv, Holding, Clicking
<1>28. ASSUME NEW w \in Web, ClickCheck(w) PROVE [S!Next]_<<Session, Sealed>>
  BY <1>28 DEF ClickCheck, Goto, IInv, SafeInv, Session, Sealed, Ending, Committed, S!Next, S!Clear, S!Open, LockInv, Holding, Clicking
<1>29. ASSUME NEW w \in Web, ClickSetDown(w) PROVE [S!Next]_<<Session, Sealed>>
  BY <1>29 DEF ClickSetDown, Goto, Release, SetDown, IInv, SafeInv, Session, Sealed, Ending, Committed, S!Next, S!Clear, S!Open, LockInv, Holding, Clicking
<1>30. ASSUME NEW w \in Web, ClickSetUp(w) PROVE [S!Next]_<<Session, Sealed>>
  BY <1>30 DEF ClickSetUp, Goto, SetUp, IInv, SafeInv, Session, Sealed, Ending, Committed, S!Next, S!Clear, S!Open, LockInv, Holding, Clicking
<1>31. ASSUME NEW w \in Web, ClickBack(w) PROVE [S!Next]_<<Session, Sealed>>
  BY <1>31 DEF ClickBack, Goto, Release, SetDown, IInv, SafeInv, Session, Sealed, Ending, Committed, S!Next, S!Clear, S!Open, LockInv, Holding, Clicking
<1>32. ASSUME NEW w \in Web, ClickWrite(w) PROVE [S!Next]_<<Session, Sealed>>
  BY <1>32 DEF ClickWrite, Goto, Stamped, Release, IInv, SafeInv, Session, Sealed, Ending, Committed, S!Next, S!Clear, S!Open, LockInv, Holding, Clicking
<1>33. ASSUME NEW w \in Web, ClickReplace(w) PROVE [S!Next]_<<Session, Sealed>>
  <2>1. w \in Committed /\ file' = pay[w]
    BY <1>33 DEF ClickReplace, Goto, Publish, Committed
  <2>2. file # NoFile /\ \E dir \in {-1, 1} : Clicked(w, dir)
    BY <1>33 DEF ClickReplace, Goto, PayInv, Clicking, IInv, SafeInv
  <2>3. PICK dir \in {-1, 1} : Clicked(w, dir)
    BY <2>2
  <2>4. S!Click(dir)
    BY <2>1, <2>2, <2>3, Published, SessionOn DEF S!Click, Clicked, UplinkStep
  <2> QED
    BY <2>4 DEF S!Next
<1>34. ASSUME NEW w \in Web, IntervalCheck(w) PROVE [S!Next]_<<Session, Sealed>>
  BY <1>34 DEF IntervalCheck, Goto, IInv, SafeInv, Session, Sealed, Ending, Committed, S!Next, S!Clear, S!Open, LockInv, Holding, Clicking
<1>35. ASSUME NEW w \in Web, IntervalState(w) PROVE [S!Next]_<<Session, Sealed>>
  BY <1>35 DEF IntervalState, Goto, IInv, SafeInv, Session, Sealed, Ending, Committed, S!Next, S!Clear, S!Open, LockInv, Holding, Clicking
<1>36. ASSUME NEW w \in Web, IntervalLock(w) PROVE [S!Next]_<<Session, Sealed>>
  BY <1>36 DEF IntervalLock, Goto, Stamped, Take, Free, IInv, SafeInv, Session, Sealed, Ending, Committed, S!Next, S!Clear, S!Open, LockInv, Holding, Clicking
<1>37. ASSUME NEW w \in Web, IntervalReplace(w) PROVE [S!Next]_<<Session, Sealed>>
  <2>1. w \in Committed /\ file' = pay[w]
    BY <1>37 DEF IntervalReplace, Goto, Publish, Committed
  <2>2. /\ file # NoFile
        /\ pay[w].d = file.d /\ pay[w].u = file.u /\ pay[w].by = file.by
    BY <1>37 DEF IntervalReplace, Goto, PayInv, IInv, SafeInv
  <2>3. Session' = [Session EXCEPT !.every = pay[w].every]
    BY <2>1, <2>2, Published, SessionOn
  <2> QED
    BY <2>1, <2>2, <2>3, Published, SessionOn DEF S!Next, S!Recadence
<1>38. ASSUME NEW w \in Web, PauseCheck(w) PROVE [S!Next]_<<Session, Sealed>>
  BY <1>38 DEF PauseCheck, Goto, IInv, SafeInv, Session, Sealed, Ending, Committed, S!Next, S!Clear, S!Open, LockInv, Holding, Clicking
<1>39. ASSUME NEW w \in Web, RaisePassEnd(w) PROVE [S!Next]_<<Session, Sealed>>
  BY <1>39 DEF RaisePassEnd, Goto, IInv, SafeInv, Session, Sealed, Ending, Committed, S!Next, S!Clear, S!Open, LockInv, Holding, Clicking
<1>40. ASSUME NEW w \in Web, ExitStopsTracker(w) PROVE [S!Next]_<<Session, Sealed>>
  BY <1>40 DEF ExitStopsTracker, Goto, IInv, SafeInv, Session, Sealed, Ending, Committed, S!Next, S!Clear, S!Open, LockInv, Holding, Clicking
<1>41. ASSUME NEW w \in Web, ExitClears(w) PROVE [S!Next]_<<Session, Sealed>>
  BY <1>41 DEF ExitClears, Goto, Clear, IInv, SafeInv, Session, Sealed, Ending, Committed, S!Next, S!Clear, S!Open, LockInv, Holding, Clicking
<1>42. ASSUME NEW w \in Web, ClearFile(w) PROVE [S!Next]_<<Session, Sealed>>
  BY <1>42 DEF ClearFile, Goto, Clear, IInv, SafeInv, Session, Sealed, Ending, Committed, S!Next, S!Clear, S!Open, LockInv, Holding, Clicking
<1>43. ASSUME NEW w \in Web, EnableRequest(w) PROVE [S!Next]_<<Session, Sealed>>
  BY <1>43 DEF EnableRequest, Goto, Arrive, IInv, SafeInv, Session, Sealed, Ending, Committed, S!Next, S!Clear, S!Open, LockInv, Holding, Clicking
<1>44. ASSUME NEW w \in Web, ClickRequest(w) PROVE [S!Next]_<<Session, Sealed>>
  BY <1>44 DEF ClickRequest, Goto, Arrive, IInv, SafeInv, Session, Sealed, Ending, Committed, S!Next, S!Clear, S!Open, LockInv, Holding, Clicking
<1>45. ASSUME NEW w \in Web, IntervalRequest(w) PROVE [S!Next]_<<Session, Sealed>>
  BY <1>45 DEF IntervalRequest, Goto, Arrive, IInv, SafeInv, Session, Sealed, Ending, Committed, S!Next, S!Clear, S!Open, LockInv, Holding, Clicking
<1>46. ASSUME NEW w \in Web, ResetRequest(w) PROVE [S!Next]_<<Session, Sealed>>
  BY <1>46 DEF ResetRequest, Goto, Arrive, IInv, SafeInv, Session, Sealed, Ending, Committed, S!Next, S!Clear, S!Open, LockInv, Holding, Clicking
<1>47. ASSUME NEW w \in Web, PauseRequest(w) PROVE [S!Next]_<<Session, Sealed>>
  BY <1>47 DEF PauseRequest, Goto, Arrive, IInv, SafeInv, Session, Sealed, Ending, Committed, S!Next, S!Clear, S!Open, LockInv, Holding, Clicking
<1>48. ASSUME NEW w \in Web, EndRequest(w) PROVE [S!Next]_<<Session, Sealed>>
  BY <1>48 DEF EndRequest, Goto, Arrive, IInv, SafeInv, Session, Sealed, Ending, Committed, S!Next, S!Clear, S!Open, LockInv, Holding, Clicking
<1>49. ASSUME NEW w \in Web, ExitRequest(w) PROVE [S!Next]_<<Session, Sealed>>
  BY <1>49 DEF ExitRequest, Goto, Arrive, IInv, SafeInv, Session, Sealed, Ending, Committed, S!Next, S!Clear, S!Open, LockInv, Holding, Clicking
<1>50. ASSUME NEW w \in Web, NEW dir \in {-1, 1}, ClickLock(w, dir) PROVE [S!Next]_<<Session, Sealed>>
  BY <1>50 DEF ClickLock, Goto, Take, Free, IInv, SafeInv, Session, Sealed, Ending, Committed, S!Next, S!Clear, S!Open, LockInv, Holding, Clicking
<1>51. CASE UNCHANGED vars
  BY <1>51 DEF vars, IInv, SafeInv, Session, Sealed, Ending, Committed, S!Next, S!Clear, S!Open, LockInv, Holding, Clicking
<1> QED
  BY <1>1, <1>2, <1>3, <1>4, <1>5, <1>6, <1>7, <1>8, <1>9, <1>10, <1>11, <1>12, <1>13, <1>14, <1>15, <1>16, <1>17, <1>18, <1>19, <1>20, <1>21, <1>22, <1>23, <1>24, <1>25, <1>26, <1>27, <1>28, <1>29, <1>30, <1>31, <1>32, <1>33, <1>34, <1>35, <1>36, <1>37, <1>38, <1>39, <1>40, <1>41, <1>42, <1>43, <1>44, <1>45, <1>46, <1>47, <1>48, <1>49, <1>50, <1>51 DEF Next, MainStep, TrackerStep, Request, WebStep, EnableStep, ClickStep, OtherStep, Done

\* FdtControl implements the atomic session.
THEOREM ImplementsSession == Spec => SessionSpec
BY SessionInit, SessionStep, Invariant, PTL DEF Spec, SessionSpec, S!Spec

=============================================================================
