---------------------------- MODULE ScheduleFile ----------------------------
(***************************************************************************)
(* schedule.json: read, changed and written back by request threads (Run   *)
(* test pass, End Current Pass), rewritten in place by the scheduling      *)
(* script, and read over and over by the main loop and the status requests *)
(* of the browsers.  A file is a name for an inode; a write reaches the    *)
(* inode in pieces, so a reader may find it empty or cut short.  An empty  *)
(* file reads as a schedule without passes.                                *)
(***************************************************************************)
EXTENDS Naturals

CONSTANTS
  Web,       \* request threads that change the schedule
  Reader,    \* the main loop, and threads that answer status requests
  Inode,
  None,      \* no inode, no pass
  Base,      \* the passes scheduled at start-up
  Plan,      \* the passes the script computes
  TestId,    \* the test passes an operator may insert
  MaxRuns,   \* bound: runs of the script
  MaxCrash   \* bound: crashes of the scheduler

Pass == [id : Base \cup Plan \cup TestId, early : BOOLEAN]
Torn == {None}   \* content that is not JSON, and so no set of passes
Fresh(ids) == [id : ids, early : {FALSE}]

ASSUME FileAssumption ==
  /\ None \notin Inode /\ Inode # {}
  /\ None \notin Pass
  /\ Web \cap Reader = {}
  /\ TestId \cap (Base \cup Plan) = {}
  /\ MaxRuns \in Nat /\ MaxCrash \in Nat

VARIABLES
  disk,      \* the content of every inode
  name,      \* the inode of schedule.json
  tmp,       \* the inode of schedule.json.tmp, if there is one
  mixed,     \* inodes two threads opened for writing at a time
  view,      \* APP_STATE["passes"]
  pc,        \* what each thread does next
  buf,       \* the schedule a thread has in memory
  hand,      \* the inode a thread has open for writing
  job,       \* the pass a request inserts or ends
  script,    \* the scheduling script: "off", "open" or "cut"
  scriptHand,\* the inode the script writes to
  runs, crashes,
  calm,      \* history: no two requests overlapped, and no script has run
  asked,     \* history: test passes an operator asked for
  inserted,  \* history: test passes reported as scheduled
  ended      \* history: passes reported as ended early

fileVars == <<disk, name, tmp, mixed>>
threadVars == <<pc, buf, hand, job>>
scriptVars == <<script, scriptHand, runs>>
history == <<calm, asked, inserted, ended>>
vars == <<fileVars, view, threadVars, scriptVars, crashes, history>>

Threads == Web \cup Reader
Content == (SUBSET Pass) \cup {Torn}
NoJob == [kind |-> "none", id |-> None]

Init ==
  /\ name = CHOOSE i \in Inode : TRUE
  /\ disk = [i \in Inode |-> IF i = name THEN Fresh(Base) ELSE {}]
  /\ tmp = None /\ mixed = {}
  /\ view = {}
  /\ pc = [t \in Threads |-> "ready"]
  /\ buf = [t \in Threads |-> {}]
  /\ hand = [t \in Threads |-> None]
  /\ job = [t \in Threads |-> NoJob]
  /\ script = "off" /\ scriptHand = None /\ runs = 0 /\ crashes = 0
  /\ calm = TRUE /\ asked = {} /\ inserted = {} /\ ended = {}

Goto(t, from, to) ==
  /\ pc[t] = from
  /\ pc' = [pc EXCEPT ![t] = to]

Alone == \A w \in Web : pc[w] = "ready"

\* schedule_test_pass_from_web: read and append.  A file that is not JSON is
\* reported, and nothing changes.
InsertTestPass(w, t) ==
  /\ t \notin asked
  /\ asked' = asked \cup {t}
  /\ calm' = (calm /\ Alone)
  /\ disk[name] # Torn
  /\ Goto(w, "ready", "open")
  /\ buf' = [buf EXCEPT ![w] = disk[name] \cup Fresh({t})]
  /\ job' = [job EXCEPT ![w] = [kind |-> "insert", id |-> t]]
  /\ UNCHANGED <<fileVars, view, hand, scriptVars, crashes, inserted, ended>>

\* _shorten_schedule_pass_end of the current pass, whichever it is.  A file that
\* is not JSON ends the pass without changing the schedule.  (Asked again, it
\* writes the same schedule again: left out.)
Shorten(w, p) ==
  /\ disk[name] # Torn
  /\ p \in disk[name] /\ ~p.early
  /\ Goto(w, "ready", "open")
  /\ buf' = [buf EXCEPT ![w] = (disk[name] \ {p}) \cup {[p EXCEPT !.early = TRUE]}]
  /\ job' = [job EXCEPT ![w] = [kind |-> "end", id |-> p.id]]
  /\ calm' = (calm /\ Alone)
  /\ UNCHANGED <<fileVars, view, hand, scriptVars, crashes, asked, inserted, ended>>

Unused == Inode \ ({name, tmp, scriptHand} \cup {hand[t] : t \in Threads})

\* Mutant: the schedule itself is opened, not a temporary file.
OpenInPlace(w) ==
  /\ Goto(w, "open", "dump")
  /\ disk' = [disk EXCEPT ![name] = {}]
  /\ tmp' = name
  /\ hand' = [hand EXCEPT ![w] = name]
  /\ UNCHANGED <<name, mixed, view, buf, job, scriptVars, crashes, history>>

\* _write_schedule_atomic: the temporary name is the same for every thread.
OpenTemporary(w) ==
  /\ Goto(w, "open", "dump")
  /\ \E i \in Inode :
       /\ i = IF tmp = None THEN CHOOSE j \in Unused : TRUE ELSE tmp
       /\ tmp' = i
       /\ disk' = [disk EXCEPT ![i] = {}]
       /\ hand' = [hand EXCEPT ![w] = i]
       /\ mixed' = IF \E u \in Web \ {w} : hand[u] = i THEN mixed \cup {i}
                   ELSE mixed \ {i}
  /\ UNCHANGED <<name, view, buf, job, scriptVars, crashes, history>>

\* A first block of the text reaches the inode.
DumpBlock(w) ==
  /\ Goto(w, "dump", "close")
  /\ disk' = [disk EXCEPT ![hand[w]] = Torn]
  /\ UNCHANGED <<name, tmp, mixed, view, buf, hand, job, scriptVars, crashes,
                 history>>

\* The rest follows.  Over the text of another thread it leaves the longer tail.
CloseTemporary(w) ==
  LET i == hand[w] IN
  /\ Goto(w, "close", "replace")
  /\ \E c \in {buf[w], Torn} :
       /\ c = Torn => i \in mixed
       /\ disk' = [disk EXCEPT ![i] = c]
  /\ mixed' = IF \E u \in Web \ {w} : hand[u] = i THEN mixed ELSE mixed \ {i}
  /\ hand' = [hand EXCEPT ![w] = None]
  /\ buf' = [buf EXCEPT ![w] = {}]
  /\ UNCHANGED <<name, tmp, view, job, scriptVars, crashes, history>>

\* The old inode is gone, unless the script still writes to it.
Freed(i) == IF scriptHand = i THEN disk ELSE [disk EXCEPT ![i] = {}]

\* os.replace fails when another thread has moved the file away: the insertion
\* reports it, End Current Pass does not catch it.
Replace(w) ==
  \/ /\ tmp # None
     /\ Goto(w, "replace", "read")
     /\ disk' = Freed(name) /\ name' = tmp /\ tmp' = None
     /\ UNCHANGED <<mixed, view, buf, hand, job, scriptVars, crashes, history>>
  \/ /\ tmp = None
     /\ Goto(w, "replace", "ready")
     /\ job' = [job EXCEPT ![w] = NoJob]
     /\ UNCHANGED <<fileVars, view, buf, hand, scriptVars, crashes, history>>

\* refresh_schedule_state after a change, and its report to the browser.
RefreshRead(w) ==
  /\ IF disk[name] # Torn
     THEN /\ Goto(w, "read", "show")
          /\ buf' = [buf EXCEPT ![w] = disk[name]]
          /\ UNCHANGED job
     ELSE /\ Goto(w, "read", "ready")
          /\ job' = [job EXCEPT ![w] = NoJob]
          /\ UNCHANGED buf
  /\ UNCHANGED <<fileVars, view, hand, scriptVars, crashes, history>>

Reported(w, kind) == IF job[w].kind = kind THEN {job[w].id} ELSE {}

RefreshShow(w) ==
  /\ Goto(w, "show", "ready")
  /\ view' = buf[w]
  /\ buf' = [buf EXCEPT ![w] = {}]
  /\ job' = [job EXCEPT ![w] = NoJob]
  /\ inserted' = inserted \cup Reported(w, "insert")
  /\ ended' = ended \cup Reported(w, "end")
  /\ UNCHANGED <<fileVars, hand, scriptVars, crashes, calm, asked>>

\* Mutant: the schedule is read once and kept.
ReadOnce(r) ==
  /\ Goto(r, "ready", "show")
  /\ buf' = [buf EXCEPT ![r] = IF disk[name] = Torn \/ view # {} THEN view ELSE disk[name]]
  /\ UNCHANGED <<fileVars, view, hand, job, scriptVars, crashes, history>>

\* The main loop, a status request or the end of a script: a file that is not
\* JSON is read again later.
Read(r) ==
  /\ \/ /\ disk[name] # Torn
        /\ Goto(r, "ready", "show")
        /\ buf' = [buf EXCEPT ![r] = disk[name]]
     \/ /\ disk[name] = Torn
        /\ Goto(r, "ready", "ready")
        /\ UNCHANGED buf
  /\ UNCHANGED <<fileVars, view, hand, job, scriptVars, crashes, history>>

Show(r) ==
  /\ Goto(r, "show", "ready")
  /\ view' = buf[r]
  /\ buf' = [buf EXCEPT ![r] = {}]
  /\ UNCHANGED <<fileVars, hand, job, scriptVars, crashes, history>>

-----------------------------------------------------------------------------
\* bqe_schedule_passes.py opens schedule.json itself for writing.

ScriptOpens ==
  /\ script = "off" /\ runs < MaxRuns
  /\ script' = "open" /\ scriptHand' = name /\ runs' = runs + 1
  /\ disk' = [disk EXCEPT ![name] = {}]
  /\ calm' = FALSE
  /\ UNCHANGED <<name, tmp, mixed, view, threadVars, crashes, asked, inserted, ended>>

ScriptDumps ==
  /\ script = "open"
  /\ script' = "cut"
  /\ disk' = [disk EXCEPT ![scriptHand] = Torn]
  /\ UNCHANGED <<name, tmp, mixed, view, threadVars, scriptHand, runs, crashes,
                 history>>

ScriptCloses ==
  /\ script = "cut"
  /\ script' = "off" /\ scriptHand' = None
  /\ disk' = [disk EXCEPT ![scriptHand] = Fresh(Plan)]
  /\ UNCHANGED <<name, tmp, mixed, view, threadVars, runs, crashes, history>>

\* The worker kills the script after web_command_timeout_seconds, or an exit does.
ScriptKilled ==
  /\ script # "off"
  /\ script' = "off" /\ scriptHand' = None
  /\ UNCHANGED <<fileVars, view, threadVars, runs, crashes, history>>

\* The scheduler dies in the middle of anything and is started again.
Crash ==
  /\ crashes < MaxCrash
  /\ crashes' = crashes + 1
  /\ view' = {}
  /\ pc' = [t \in Threads |-> "ready"]
  /\ buf' = [t \in Threads |-> {}]
  /\ hand' = [t \in Threads |-> None]
  /\ job' = [t \in Threads |-> NoJob]
  /\ UNCHANGED <<fileVars, scriptVars, history>>

Write(w) ==
  \/ OpenTemporary(w) \/ DumpBlock(w) \/ CloseTemporary(w) \/ Replace(w)
  \/ RefreshRead(w) \/ RefreshShow(w)

Loop(r) == Read(r) \/ Show(r)
ScriptStep == ScriptDumps \/ ScriptCloses

Next ==
  \/ \E w \in Web :
       \/ \E t \in TestId : InsertTestPass(w, t)
       \/ \E p \in Pass : Shorten(w, p)
       \/ Write(w)
  \/ \E r \in Reader : Loop(r)
  \/ ScriptOpens \/ ScriptStep \/ ScriptKilled \/ Crash

Spec == Init /\ [][Next]_vars

\* Requests run to their end, the main loop re-reads the file every second, and
\* the script ends or is killed by its timeout.
FairSpec ==
  /\ Spec
  /\ \A w \in Web : WF_vars(Write(w))
  /\ \A r \in Reader : WF_vars(Loop(r))
  /\ WF_vars(ScriptStep \/ ScriptKilled)

-----------------------------------------------------------------------------
\* Every variable has its type.
TypeOK ==
  /\ disk \in [Inode -> Content]
  /\ name \in Inode /\ tmp \in Inode \cup {None} /\ mixed \subseteq Inode
  /\ view \in SUBSET Pass
  /\ pc \in [Threads -> {"ready", "open", "dump", "close", "replace", "read", "show"}]
  /\ buf \in [Threads -> SUBSET Pass]
  /\ hand \in [Threads -> Inode \cup {None}]
  /\ \A t \in Threads : job[t] = NoJob \/
       job[t] \in [kind : {"insert", "end"}, id : Base \cup Plan \cup TestId]
  /\ runs \in 0 .. MaxRuns /\ crashes \in 0 .. MaxCrash
  /\ script \in {"off", "open", "cut"} /\ scriptHand \in Inode \cup {None}
  /\ calm \in BOOLEAN
  /\ inserted \subseteq asked /\ asked \subseteq TestId /\ ended \subseteq Base \cup Plan \cup TestId

\* As long as requests have come one at a time and no script has run, no crash at
\* any point damages schedule.json or loses what was reported: it holds every
\* pass, every test pass the operator was told of, and every early end.
Kept == calm =>
  /\ disk[name] # Torn
  /\ Base \cup inserted \subseteq {p.id : p \in disk[name]}
  /\ \A p \in disk[name] : p.id \in ended => p.early

\* Why Kept holds: what a text on its way to the disk holds.
Ids(c) == {p.id : p \in c}
Complete(c) ==
  /\ c \subseteq Pass
  /\ Base \cup inserted \subseteq Ids(c) /\ Ids(c) \subseteq Base \cup asked
  /\ \A p \in c : p.id \in ended => p.early

\* It also holds the change that the request w will report.
Carries(w, c) ==
  /\ Complete(c)
  /\ job[w].kind = "insert" => job[w].id \in Ids(c)
  /\ job[w].kind = "end" =>
       job[w].id \in Base \cup asked /\ \A p \in c : p.id = job[w].id => p.early

ScriptIdle == script = "off" /\ scriptHand = None /\ runs = 0

OneRequest == \A u, v \in Web : pc[u] # "ready" /\ pc[v] # "ready" => u = v

\* Only the one request has a file open, and never the schedule itself.
HandInv ==
  /\ name \in Inode /\ tmp \in Inode \cup {None} /\ tmp # name
  /\ \A t \in Threads : hand[t] = IF pc[t] \in {"dump", "close"} THEN tmp ELSE None
  /\ \A w \in Web : pc[w] \in {"dump", "close", "replace"} => tmp # None
  /\ mixed = {}

\* At each label, where the changed schedule is.
TextInv ==
  /\ Complete(disk[name])
  /\ \A w \in Web :
       /\ pc[w] \in {"open", "dump", "close"} => Carries(w, buf[w])
       /\ pc[w] = "replace" => Carries(w, disk[tmp])
       /\ pc[w] \in {"read", "show"} => Carries(w, disk[name])

KeptInv ==
  /\ disk \in [Inode -> Content] /\ DOMAIN pc = Threads /\ DOMAIN buf = Threads
  /\ DOMAIN hand = Threads /\ DOMAIN job = Threads
  /\ \A r \in Reader : pc[r] \in {"ready", "show"}
  /\ ended \subseteq Base \cup asked
  /\ ScriptIdle /\ OneRequest /\ HandInv /\ TextInv

\* However requests, readers and scripts overlapped, and whatever each of them
\* read before the last change: once the file is whole and left alone, the
\* schedule on the screen settles on the one in the file.
Quiet == script = "off" /\ disk[name] # Torn /\ \A w \in Web : pc[w] = "ready"
ViewFollows == <>[]Quiet => <>[](view = disk[name])

\* "Write schedule JSON atomically so browser/status readers never see a partial
\* file."
NeverPartial == disk[name] # Torn

\* "Test pass for ... scheduled": when no request is in progress, and before the
\* schedule is computed anew, a test pass that was reported is in the schedule.
Scheduled ==
  (runs = 0 /\ Quiet) => inserted \subseteq {p.id : p \in disk[name]}
=============================================================================
