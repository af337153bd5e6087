------------------------- MODULE ScheduleFileProofs -------------------------
(***************************************************************************)
(* Theorems about ScheduleFile: as long as requests come one at a time and *)
(* the scheduling script does not run, the temporary file and os.replace   *)
(* keep schedule.json whole and complete through any number of crashes     *)
(* (the run file_partial shows that it is not whole otherwise), and the    *)
(* types of the model, whatever overlaps.                                  *)
(***************************************************************************)
EXTENDS ScheduleFile, TLAPS

Spare == \A i \in Inode : \E j \in Inode : j # i

LEMMA TornDiffers == ASSUME NEW c, c \subseteq Pass PROVE c # Torn
BY FileAssumption DEF Torn

\* json.dump of a complete schedule with one more test pass.
LEMMA Inserted ==
  ASSUME NEW c, Complete(c), ended \subseteq Base \cup asked,
         NEW t \in TestId, t \notin asked
  PROVE  LET d == c \cup Fresh({t}) IN
         /\ d \subseteq Pass
         /\ Base \cup inserted \subseteq Ids(d) /\ Ids(d) \subseteq Base \cup asked \cup {t}
         /\ \A p \in d : p.id \in ended => p.early
         /\ t \in Ids(d)
<1> DEFINE d == c \cup Fresh({t})
<1>1. \A p \in Fresh({t}) : p \in Pass /\ p.id = t
  BY DEF Fresh, Pass
<1>2. [id |-> t, early |-> FALSE] \in Fresh({t})
  BY DEF Fresh
<1>3. t \in Ids(d)
  BY <1>1, <1>2 DEF Ids
<1>4. t \notin ended
  BY FileAssumption
<1>5. d \subseteq Pass
  BY <1>1 DEF Complete
<1>6. Base \cup inserted \subseteq Ids(d) /\ Ids(d) \subseteq Base \cup asked \cup {t}
  BY <1>1 DEF Complete, Ids
<1>7. \A p \in d : p.id \in ended => p.early
  BY <1>1, <1>4 DEF Complete
<1> QED
  BY <1>3, <1>5, <1>6, <1>7

\* Of the same schedule with one pass ended early: no pass of that name is left
\* that does not end early.
LEMMA Shortened ==
  ASSUME NEW c, Complete(c), NEW p \in c, ~p.early
  PROVE  LET d == (c \ {p}) \cup {[p EXCEPT !.early = TRUE]} IN
         /\ Complete(d)
         /\ p.id \in Base \cup asked
         /\ \A q \in d : q.id = p.id => q.early
<1> DEFINE e == [p EXCEPT !.early = TRUE]
           d == (c \ {p}) \cup {e}
<1>1. p \in Pass /\ c \subseteq Pass
  BY DEF Complete
<1>2. e \in Pass /\ e.id = p.id /\ e.early
  BY <1>1 DEF Pass
<1>3. \A q \in c \ {p} : q.id = p.id => q.early
  <2> SUFFICES ASSUME NEW q \in c, q.id = p.id, ~q.early PROVE q = p
    BY <1>1 DEF Pass
  <2> QED
    BY <1>1 DEF Pass
<1>4. Ids(d) = Ids(c)
  BY <1>2 DEF Ids
<1>5. p.id \in Ids(c)
  BY DEF Ids
<1>6. Complete(d)
  BY <1>1, <1>2, <1>4 DEF Complete
<1> QED
  BY <1>2, <1>3, <1>5, <1>6 DEF Complete

LEMMA BaseText == Fresh(Base) \subseteq Pass /\ Ids(Fresh(Base)) = Base
<1>1. \A p \in Fresh(Base) : p \in Pass /\ p.id \in Base
  BY DEF Fresh, Pass
<1>2. \A b \in Base : \E p \in Fresh(Base) : p.id = b
  <2> SUFFICES ASSUME NEW b \in Base PROVE \E p \in Fresh(Base) : p.id = b
    OBVIOUS
  <2>1. [id |-> b, early |-> FALSE] \in Fresh(Base)
    BY DEF Fresh
  <2> WITNESS [id |-> b, early |-> FALSE] \in Fresh(Base)
  <2> QED
    OBVIOUS
<1>3. Ids(Fresh(Base)) \subseteq Base
  BY <1>1 DEF Ids
<1>4. Base \subseteq Ids(Fresh(Base))
  BY <1>2 DEF Ids
<1> QED
  BY <1>1, <1>3, <1>4

LEMMA KeptStart == ASSUME Init PROVE KeptInv
<1> USE FileAssumption DEF Init, Threads
<1>1. Fresh(Base) \subseteq Pass /\ Ids(Fresh(Base)) = Base /\ name \in Inode
  BY BaseText
<1>2. Complete(disk[name])
  BY <1>1 DEF Complete
<1>3. disk \in [Inode -> Content]
  BY <1>1 DEF Content
<1> QED
  BY <1>2, <1>3 DEF KeptInv, ScriptIdle, OneRequest, HandInv, TextInv, Carries

\* calm is never won back.
LEMMA CalmFalls ==
  ASSUME calm \in BOOLEAN, [Next]_vars
  PROVE  calm' \in BOOLEAN /\ (calm' => calm)
<1>1. calm' \in {calm, calm /\ Alone, FALSE}
  <2>1. ASSUME NEW w \in Web, NEW t \in TestId, InsertTestPass(w, t)
        PROVE  calm' = (calm /\ Alone)
    BY <2>1 DEF InsertTestPass
  <2>2. ASSUME NEW w \in Web, NEW p \in Pass, Shorten(w, p)
        PROVE  calm' = (calm /\ Alone)
    BY <2>2 DEF Shorten
  <2>3. ASSUME NEW w \in Web, Write(w) PROVE calm' = calm
    BY <2>3 DEF Write, OpenTemporary, DumpBlock, CloseTemporary, Replace,
      RefreshRead, RefreshShow, history
  <2>4. ASSUME NEW r \in Reader, Loop(r) PROVE calm' = calm
    BY <2>4 DEF Loop, Read, Show, history
  <2>5. ScriptOpens => calm' = FALSE
    BY DEF ScriptOpens
  <2>6. ScriptStep \/ ScriptKilled \/ Crash => calm' = calm
    BY DEF ScriptStep, ScriptDumps, ScriptCloses, ScriptKilled, Crash, history
  <2>7. UNCHANGED vars => calm' = calm
    BY DEF vars, history
  <2> QED
    BY <2>1, <2>2, <2>3, <2>4, <2>5, <2>6, <2>7 DEF Next
<1> QED
  BY <1>1

LEMMA KeptStep ==
  ASSUME Spare, KeptInv, [Next]_vars, calm'
  PROVE  KeptInv'
<1> USE FileAssumption DEF KeptInv, ScriptIdle, HandInv, Threads, Goto,
      fileVars, threadVars, scriptVars, history
<1>0. Complete(disk[name]) /\ disk[name] # Torn
  BY TornDiffers DEF TextInv, Complete
<1>a. \A w, u \in Web : pc[w] # "ready" /\ u # w => pc[u] = "ready"
  BY DEF OneRequest
<1>1. ASSUME NEW w \in Web, NEW t \in TestId, InsertTestPass(w, t) PROVE KeptInv'
  <2> USE <1>1 DEF InsertTestPass
  <2>a. \A u \in Web : pc[u] = "ready" /\ (u # w => pc'[u] = "ready")
    BY DEF Alone
  <2>b. OneRequest'
    BY <2>a DEF OneRequest
  <2> DEFINE d == disk[name] \cup Fresh({t})
  <2>1. /\ d \subseteq Pass
        /\ Base \cup inserted \subseteq Ids(d) /\ Ids(d) \subseteq Base \cup asked \cup {t}
        /\ \A p \in d : p.id \in ended => p.early
        /\ t \in Ids(d)
    <3>1. ended \subseteq Base \cup asked /\ t \notin asked
      OBVIOUS
    <3> QED
      BY ONLY <1>0, <3>1, t \in TestId, Inserted
  <2>2. Complete(disk[name])'
    BY <1>0 DEF Complete
  <2>3. Carries(w, buf[w])' /\ pc'[w] = "open"
    <3> HIDE DEF d
    <3>1. buf'[w] = d /\ job'[w] = [kind |-> "insert", id |-> t] /\ pc'[w] = "open"
      BY DEF d
    <3>2. UNCHANGED <<inserted, ended>> /\ asked' = asked \cup {t}
      OBVIOUS
    <3> QED
      BY ONLY <2>1, <3>1, <3>2 DEF Carries, Complete
  <2>4. TextInv'
    BY <2>a, <2>2, <2>3 DEF TextInv
  <2> QED
    BY <2>a, <2>b, <2>4
<1>2. ASSUME NEW w \in Web, NEW p \in Pass, Shorten(w, p) PROVE KeptInv'
  <2> USE <1>2 DEF Shorten
  <2>a. \A u \in Web : pc[u] = "ready" /\ (u # w => pc'[u] = "ready")
    BY DEF Alone
  <2>b. OneRequest'
    BY <2>a DEF OneRequest
  <2> DEFINE d == (disk[name] \ {p}) \cup {[p EXCEPT !.early = TRUE]}
  <2>1. /\ Complete(d) /\ p.id \in Base \cup asked
        /\ \A q \in d : q.id = p.id => q.early
    BY <1>0, Shortened
  <2>2. Complete(disk[name])'
    BY <1>0 DEF Complete
  <2>3. Carries(w, buf[w])' /\ pc'[w] = "open"
    <3> HIDE DEF d
    <3>1. buf'[w] = d /\ job'[w] = [kind |-> "end", id |-> p.id] /\ pc'[w] = "open"
      BY DEF d
    <3> QED
      BY <2>1, <3>1 DEF Carries, Complete
  <2>4. TextInv'
    BY <2>a, <2>2, <2>3 DEF TextInv
  <2> QED
    BY <2>a, <2>b, <2>4
<1>3. ASSUME NEW w \in Web, OpenTemporary(w) PROVE KeptInv'
  <2> USE <1>3 DEF OpenTemporary
  <2>a. \A u \in Web : u # w => pc[u] = "ready" /\ pc'[u] = "ready"
    BY <1>a
  <2>b. OneRequest'
    BY <2>a DEF OneRequest
  <2>1. PICK i \in Inode :
          /\ i = IF tmp = None THEN CHOOSE j \in Unused : TRUE ELSE tmp
          /\ tmp' = i /\ disk' = [disk EXCEPT ![i] = {}]
          /\ hand' = [hand EXCEPT ![w] = i]
          /\ mixed' = IF \E u \in Web \ {w} : hand[u] = i THEN mixed \cup {i}
                      ELSE mixed \ {i}
    OBVIOUS
  <2>2. i # name
    <3>1. CASE tmp = None
      <4>1. \A t \in Threads : hand[t] = None
        BY <3>1
      <4>2. \E j \in Inode : j \in Unused
        BY <3>1, <4>1 DEF Unused, Spare
      <4> QED
        BY <2>1, <3>1, <4>2 DEF Unused
    <3> QED
      BY <2>1, <3>1
  <2>3. mixed' = {} /\ disk'[name'] = disk[name] /\ disk' \in [Inode -> Content]
    BY <2>a, <2>1, <2>2 DEF  Content
  <2>4. Carries(w, buf[w])
    BY DEF TextInv
  <2>5. Complete(disk[name])'
    BY <1>0, <2>3 DEF Complete
  <2>6. Carries(w, buf[w])' /\ pc'[w] = "dump"
    BY <2>4 DEF Carries, Complete
  <2>7. TextInv'
    BY ONLY <2>5, <2>6, <2>a, w \in Web DEF TextInv
  <2> QED
    BY <2>b, <2>a, <2>1, <2>2, <2>3, <2>7
<1>4. ASSUME NEW w \in Web, DumpBlock(w) PROVE KeptInv'
  <2> USE <1>4 DEF DumpBlock
  <2>a. \A u \in Web : u # w => pc[u] = "ready" /\ pc'[u] = "ready"
    BY <1>a
  <2>b. OneRequest'
    BY <2>a DEF OneRequest
  <2>1. hand[w] = tmp /\ tmp \in Inode
    OBVIOUS
  <2>2. disk'[name'] = disk[name] /\ disk' \in [Inode -> Content]
    <3>1. Torn \in Content
      BY DEF Content, Torn
    <3>2. disk' = [disk EXCEPT ![tmp] = Torn] /\ name' = name /\ tmp # name
      BY <2>1
    <3> QED
      BY ONLY <2>1, <3>1, <3>2, disk \in [Inode -> Content], name \in Inode
  <2>3. Carries(w, buf[w])
    BY DEF TextInv
  <2>4. TextInv'
    BY <2>a, <1>0, <2>2, <2>3 DEF TextInv, Carries, Complete
  <2> QED
    BY <2>b, <2>a, <2>1, <2>2, <2>4
<1>5. ASSUME NEW w \in Web, CloseTemporary(w) PROVE KeptInv'
  <2> USE <1>5 DEF CloseTemporary
  <2>a. \A u \in Web : u # w => pc[u] = "ready" /\ pc'[u] = "ready"
    BY <1>a
  <2>b. OneRequest'
    BY <2>a DEF OneRequest
  <2>1. hand[w] = tmp /\ tmp \in Inode /\ mixed' = {}
    BY <2>a
  <2>2. Carries(w, buf[w]) /\ buf[w] \subseteq Pass
    BY DEF TextInv, Carries, Complete
  <2>3. disk' = [disk EXCEPT ![tmp] = buf[w]]
    BY <2>1
  <2>4. disk'[name'] = disk[name] /\ disk'[tmp'] = buf[w] /\ disk' \in [Inode -> Content]
    BY <2>1, <2>2, <2>3 DEF Content
  <2>5. TextInv'
    BY <2>a, <1>0, <2>2, <2>4 DEF TextInv, Carries, Complete
  <2> QED
    BY <2>b, <2>a, <2>1, <2>4, <2>5
<1>6. ASSUME NEW w \in Web, Replace(w) PROVE KeptInv'
  <2> USE <1>6 DEF Replace
  <2>a. \A u \in Web : u # w => pc[u] = "ready" /\ pc'[u] = "ready"
    BY <1>a
  <2>b. OneRequest'
    BY <2>a DEF OneRequest
  <2>1. tmp \in Inode /\ pc[w] = "replace" /\ Carries(w, disk[tmp])
    BY DEF TextInv
  <2>2. /\ disk' = [disk EXCEPT ![name] = {}] /\ name' = tmp /\ tmp' = None
        /\ pc' = [pc EXCEPT ![w] = "read"]
        /\ UNCHANGED <<mixed, view, buf, hand, job, scriptVars, crashes, history>>
    BY <2>1 DEF Freed
  <2>3. disk'[name'] = disk[tmp] /\ disk' \in [Inode -> Content]
    BY <2>1, <2>2 DEF Content
  <2>4. TextInv'
    BY <2>a, <2>1, <2>2, <2>3 DEF TextInv, Carries, Complete
  <2> QED
    BY <2>b, <2>a, <2>1, <2>2, <2>3, <2>4
<1>7. ASSUME NEW w \in Web, RefreshRead(w) PROVE KeptInv'
  <2> USE <1>7 DEF RefreshRead
  <2>a. \A u \in Web : u # w => pc[u] = "ready" /\ pc'[u] = "ready"
    BY <1>a
  <2>b. OneRequest'
    BY <2>a DEF OneRequest
  <2>1. Carries(w, disk[name])
    BY DEF TextInv
  <2>2. TextInv'
    BY <2>a, <1>0, <2>1 DEF TextInv, Carries, Complete
  <2> QED
    BY <2>b, <2>a, <1>0, <2>2
<1>8. ASSUME NEW w \in Web, RefreshShow(w) PROVE KeptInv'
  <2> USE <1>8 DEF RefreshShow
  <2>a. \A u \in Web : u # w => pc[u] = "ready" /\ pc'[u] = "ready"
    BY <1>a
  <2>b. OneRequest'
    BY <2>a DEF OneRequest
  <2>1. Carries(w, disk[name])
    BY DEF TextInv
  <2>2. ended' \subseteq Base \cup asked
    BY <2>1 DEF Carries, Reported
  <2>3. Complete(disk[name])'
    BY <2>1 DEF Carries, Complete, Reported
  <2>4. TextInv'
    BY <2>a, <2>3 DEF TextInv
  <2> QED
    BY <2>b, <2>a, <2>2, <2>4
<1>9. ASSUME NEW r \in Reader, Loop(r) PROVE KeptInv'
  <2> USE <1>9 DEF Loop, Read, Show
  <2>1. r \notin Web
    OBVIOUS
  <2>2. /\ \A w \in Web : pc'[w] = pc[w] /\ buf'[w] = buf[w]
        /\ pc'[r] \in {"ready", "show"}
        /\ UNCHANGED <<fileVars, hand, job, scriptVars, crashes, history>>
    BY <2>1
  <2>3. TextInv'
    BY <2>2 DEF TextInv, Carries, Complete
  <2>4. OneRequest'
    BY <2>2 DEF OneRequest
  <2> QED
    BY <2>2, <2>3, <2>4
<1>10. CASE ScriptOpens \/ ScriptStep \/ ScriptKilled
  BY <1>10 DEF ScriptOpens, ScriptStep, ScriptDumps, ScriptCloses, ScriptKilled
<1>11. CASE Crash
  <2> USE <1>11 DEF Crash
  <2>1. Complete(disk[name])'
    BY <1>0 DEF Complete
  <2> QED
    BY <2>1 DEF TextInv, OneRequest
<1>12. CASE UNCHANGED vars
  BY <1>12 DEF vars, TextInv, Carries, Complete, OneRequest
<1> QED
  BY <1>1, <1>2, <1>3, <1>4, <1>5, <1>6, <1>7, <1>8, <1>9, <1>10, <1>11, <1>12
  DEF Next, Write

\* While requests come one at a time and the script does not run, schedule.json
\* is never a partial file and holds every scheduled pass, every test pass that
\* was reported as scheduled and every early end, whatever write a crash cuts
\* (_write_schedule_atomic).
THEOREM KeptSafe ==
  ASSUME Spare
  PROVE  Spec => []Kept
<1> DEFINE Inv == calm \in BOOLEAN /\ (calm => KeptInv)
<1>1. Init => Inv
  BY KeptStart DEF Init
<1>2. Inv /\ [Next]_vars => Inv'
  BY KeptStep, CalmFalls
<1>3. Inv => Kept
  BY TornDiffers DEF KeptInv, TextInv, Complete, Kept, Ids
<1> QED
  BY <1>1, <1>2, <1>3, PTL DEF Spec

-----------------------------------------------------------------------------
\* What a request will report was asked for.
JobInv ==
  /\ DOMAIN job = Threads
  /\ \A t \in Threads : job[t].kind = "insert" => job[t].id \in asked

TypedInv == TypeOK /\ JobInv

LEMMA TypedStart == ASSUME Init PROVE TypedInv
<1>1. Fresh(Base) \in SUBSET Pass
  BY DEF Fresh, Pass
<1>2. disk \in [Inode -> Content]
  BY <1>1 DEF Init, Content
<1> QED
  BY <1>2, FileAssumption DEF Init, TypedInv, TypeOK, JobInv, NoJob

LEMMA TypedStep == ASSUME TypedInv, [Next]_vars PROVE TypedInv'
<1> USE FileAssumption DEF TypedInv, TypeOK, JobInv, Goto, NoJob,
      fileVars, threadVars, scriptVars, history
<1>0. /\ Threads = Web \cup Reader
      /\ \A c \in SUBSET Pass : c \in Content
      /\ Torn \in Content
      /\ \A c \in Content : c # Torn => c \subseteq Pass
  BY DEF Threads, Content
<1>1. ASSUME NEW w \in Web, NEW t \in TestId, InsertTestPass(w, t) PROVE TypedInv'
  <2>0. Fresh({t}) \subseteq Pass
    BY DEF Fresh, Pass
  <2>1. disk[name] \cup Fresh({t}) \subseteq Pass
    <3>1. disk[name] \in Content /\ disk[name] # Torn
      BY <1>1 DEF InsertTestPass
    <3> QED
      BY ONLY <1>0, <2>0, <3>1
  <2> QED
    BY <1>0, <1>1, <2>1 DEF InsertTestPass
<1>2. ASSUME NEW w \in Web, NEW p \in Pass, Shorten(w, p) PROVE TypedInv'
  <2>1. [p EXCEPT !.early = TRUE] \in Pass /\ p.id \in Base \cup Plan \cup TestId
    BY DEF Pass
  <2> DEFINE e == [p EXCEPT !.early = TRUE]
  <2> HIDE DEF e
  <2>2. (disk[name] \ {p}) \cup {e} \subseteq Pass
    <3>1. e \in Pass
      BY <2>1 DEF e
    <3>2. disk[name] \subseteq Pass
      BY <1>0, <1>2 DEF Shorten
    <3> QED
      BY <3>1, <3>2
  <2> QED
    BY <1>0, <1>2, <2>1, <2>2 DEF Shorten, e
<1>3. ASSUME NEW w \in Web, OpenTemporary(w) PROVE TypedInv'
  <2>1. PICK i \in Inode :
          /\ tmp' = i
          /\ disk' = [disk EXCEPT ![i] = {}]
          /\ hand' = [hand EXCEPT ![w] = i]
          /\ mixed' = IF \E u \in Web \ {w} : hand[u] = i THEN mixed \cup {i}
                      ELSE mixed \ {i}
    BY <1>3 DEF OpenTemporary
  <2>2. disk' \in [Inode -> Content]
    BY <1>0, <2>1
  <2> QED
    BY <1>0, <1>3, <2>1, <2>2 DEF OpenTemporary
<1>4. ASSUME NEW w \in Web, DumpBlock(w) PROVE TypedInv'
  BY <1>0, <1>4 DEF DumpBlock
<1>5. ASSUME NEW w \in Web, CloseTemporary(w) PROVE TypedInv'
  <2>1. buf[w] \in Content
    BY <1>0
  <2>2. disk' \in [Inode -> Content]
    <3>1. PICK c \in {buf[w], Torn} : disk' = [disk EXCEPT ![hand[w]] = c]
      BY <1>5 DEF CloseTemporary
    <3>2. c \in Content
      BY <1>0, <2>1
    <3> QED
      BY ONLY <3>1, <3>2, disk \in [Inode -> Content]
  <2> QED
    BY <1>0, <1>5, <2>2 DEF CloseTemporary
<1>6. ASSUME NEW w \in Web, Replace(w) PROVE TypedInv'
  <2>1. disk' \in [Inode -> Content]
    BY <1>0, <1>6 DEF Replace, Freed
  <2> QED
    BY <1>0, <1>6, <2>1 DEF Replace
<1>7. ASSUME NEW w \in Web, RefreshRead(w) PROVE TypedInv'
  <2>1. disk[name] # Torn => disk[name] \in SUBSET Pass
    BY <1>0
  <2> QED
    BY <1>0, <1>7, <2>1 DEF RefreshRead
<1>8. ASSUME NEW w \in Web, RefreshShow(w) PROVE TypedInv'
  <2>1. Reported(w, "insert") \subseteq asked
    BY <1>0 DEF Reported
  <2>2. Reported(w, "end") \subseteq Base \cup Plan \cup TestId
    BY <1>0 DEF Reported
  <2> QED
    BY <1>0, <1>8, <2>1, <2>2 DEF RefreshShow
<1>9. ASSUME NEW r \in Reader, Loop(r) PROVE TypedInv'
  <2>1. disk[name] # Torn => disk[name] \in SUBSET Pass
    BY <1>0
  <2> QED
    BY <1>0, <1>9, <2>1 DEF Loop, Read, Show
<1>10. CASE ScriptOpens \/ ScriptStep \/ ScriptKilled
  <2>1. Fresh(Plan) \in SUBSET Pass
    BY DEF Fresh, Pass
  <2>2. disk' \in [Inode -> Content]
    BY <1>0, <1>10, <2>1
    DEF ScriptOpens, ScriptStep, ScriptDumps, ScriptCloses, ScriptKilled
  <2>3. calm' \in BOOLEAN
    BY <1>10 DEF ScriptOpens, ScriptStep, ScriptDumps, ScriptCloses, ScriptKilled
  <2> QED
    BY <1>10, <2>2, <2>3
    DEF ScriptOpens, ScriptStep, ScriptDumps, ScriptCloses, ScriptKilled
<1>11. CASE Crash
  BY <1>11 DEF Crash
<1>12. CASE UNCHANGED vars
  BY <1>12 DEF vars
<1> QED
  BY <1>1, <1>2, <1>3, <1>4, <1>5, <1>6, <1>7, <1>8, <1>9, <1>10, <1>11, <1>12
  DEF Next, Write

\* However requests, readers, scripts and crashes overlap, the variables keep
\* their types, and no test pass is reported that nobody asked for.
THEOREM FileTypes == Spec => []TypeOK
<1>1. Init => TypedInv
  BY TypedStart
<1>2. TypedInv /\ [Next]_vars => TypedInv'
  BY TypedStep
<1>3. TypedInv => TypeOK
  BY DEF TypedInv
<1> QED
  BY <1>1, <1>2, <1>3, PTL DEF Spec
=============================================================================
