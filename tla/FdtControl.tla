---------------------------- MODULE FdtControl ----------------------------
(***************************************************************************)
(* Full Doppler tuning (FDT) of a LINEAR transponder: request threads of   *)
(* the web console anchor, click, pause and pace the session through the   *)
(* file fdt_control.json, the tracking process adopts it and keeps both    *)
(* radio frequencies corrected, and the main thread opens and closes it at *)
(* the pass boundaries.                                                    *)
(*                                                                         *)
(* Frequencies are offsets in wheel steps of 200 Hz.  The radio is at the  *)
(* downlink base plus the Doppler shift and the uplink base minus it; one  *)
(* shift stands for both scaled corrections.  Every pass is LINEAR, has an *)
(* uplink, and is open or over as PassScheduler describes in detail.       *)
(* FDT_TUNING_LOCK is a variable; STATE_LOCK is held for one step only.    *)
(***************************************************************************)
EXTENDS Integers

CONSTANTS
  Web,        \* request threads of the web console
  NoOne,      \* nobody holds FDT_TUNING_LOCK
  DownBand, UpBand,   \* the passbands, as sets of offsets
  Inverting,  \* transponder_type is INVERTING
  Dials,      \* positions the operator may turn the radio to
  Intervals,  \* cadence overrides between 4 and 30 seconds
  YamlPace,   \* None: the cadence of the YAML file
  NoFile,     \* fdt_control.json does not exist
  NoStatus,   \* the tracking status file does not exist
  MaxShift,   \* the Doppler shift at the start of a pass
  MaxPass,    \* bound: number of passes
  MaxActs     \* bound: requests and turns of the dial

Cadence == Intervals \cup {YamlPace}
Source == {"radio", "wheel"}
Payload == [d : Int, u : Int, every : Cadence, by : Source, stamp : Nat, for : Nat]
Tuning == [d : Int, u : Int]

ASSUME FdtAssumption ==
  /\ NoOne \notin Web
  /\ DownBand \subseteq Int /\ UpBand \subseteq Int
  /\ Inverting \in BOOLEAN
  /\ Dials \subseteq Tuning
  /\ MaxShift \in Nat /\ MaxPass \in Nat /\ MaxActs \in Nat
  /\ NoFile \notin Payload \cup [d : Int, u : Int, every : Cadence, by : Source]
  /\ NoStatus \notin Int

VARIABLES
  main,       \* where the main thread is
  pass,       \* passes begun so far: the number of the latest one
  exposed,    \* current_pass_key and current_satellite are set
  tracking,   \* APP_STATE["tracking_running"]
  passEnd,    \* CURRENT_PASS_END_EVENT
  shutdown,   \* SHUTDOWN_EVENT
  every,      \* APP_STATE["fdt_recalculation_interval_override"]
  lock,       \* owner of FDT_TUNING_LOCK
  file,       \* fdt_control.json; .by is its frequency_source, and .for is
              \* history: the pass of its anchor
  stamps,     \* timestamps handed out so far
  radio,      \* the two frequencies set in the radio
  status,     \* the Doppler shift in the tracking status file
  trk,        \* the tracking process: where it is and its local variables
  pc,         \* where each request thread is
  seen,       \* the shift a request read from the status file
  want,       \* the cadence an interval request asks for
  then,       \* where an interval request goes on: "ready", or inside Enable
  pay,        \* the payload a request is about to publish
  old,        \* the radio frequencies a request read, to roll back to
  acts        \* requests and turns of the dial so far

bossVars == <<main, pass, exposed, tracking, passEnd, shutdown>>
localVars == <<seen, want, then, pay, old>>
vars == <<bossVars, every, lock, file, stamps, radio, status, trk, pc,
          localVars, acts>>

Ending == passEnd \/ shutdown
Alive == main # "exited"
Midpoint == [d |-> 0, u |-> 0]
NewTracker == [at |-> "read", d |-> 0, u |-> 0, on |-> FALSE, stamp |-> 0,
               shift |-> MaxShift]
NoTracker == [NewTracker EXCEPT !.at = "off"]
Blank == [d |-> 0, u |-> 0, every |-> YamlPace, by |-> "radio", stamp |-> 0, for |-> 0]

\* satellite_type is known, from the status file or from the exposed pass.
Linear(shift) == shift # NoStatus \/ exposed

Init ==
  /\ main = "between" /\ pass = 0
  /\ exposed = FALSE /\ tracking = FALSE /\ passEnd = FALSE /\ shutdown = FALSE
  /\ every = YamlPace /\ lock = NoOne /\ file = NoFile /\ stamps = 0
  /\ radio = Midpoint /\ status = NoStatus /\ trk = NoTracker
  /\ pc = [w \in Web |-> "ready"]
  /\ seen = [w \in Web |-> NoStatus]
  /\ want = [w \in Web |-> YamlPace]
  /\ then = [w \in Web |-> "ready"]
  /\ pay = [w \in Web |-> Blank]
  /\ old = [w \in Web |-> Midpoint]
  /\ acts = 0

-----------------------------------------------------------------------------
\* The main thread: run_pass, as far as FDT is concerned, and the exit.

MainGoto(from, to) == main = from /\ main' = to

Claim ==
  /\ MainGoto("between", "clearEnd")
  /\ ~shutdown /\ pass < MaxPass
  /\ pass' = pass + 1 /\ tracking' = TRUE
  /\ UNCHANGED <<exposed, passEnd, shutdown, every, lock, file, stamps, radio,
                 status, trk, pc, localVars, acts>>

ClearPassEnd ==
  /\ MainGoto("clearEnd", "clearFile")
  /\ passEnd' = FALSE
  /\ UNCHANGED <<pass, exposed, tracking, shutdown, every, lock, file, stamps,
                 radio, status, trk, pc, localVars, acts>>

\* clear_fdt_control_state: needs the lock, removes the file.
Clear == lock = NoOne /\ file' = NoFile

ClearForPass ==
  /\ MainGoto("clearFile", "interval")
  /\ Clear
  /\ UNCHANGED <<pass, exposed, tracking, passEnd, shutdown, every, lock, stamps,
                 radio, status, trk, pc, localVars, acts>>

ResetCadence ==
  /\ MainGoto("interval", "expose")
  /\ every' = YamlPace
  /\ UNCHANGED <<pass, exposed, tracking, passEnd, shutdown, lock, file, stamps,
                 radio, status, trk, pc, localVars, acts>>

Expose ==
  /\ MainGoto("expose", "launch")
  /\ exposed' = TRUE
  /\ UNCHANGED <<pass, tracking, passEnd, shutdown, every, lock, file, stamps,
                 radio, status, trk, pc, localVars, acts>>

Launch ==
  /\ MainGoto("launch", "wait")
  /\ trk' = NewTracker
  /\ UNCHANGED <<pass, exposed, tracking, passEnd, shutdown, every, lock, file,
                 stamps, radio, status, pc, localVars, acts>>

\* Loss of signal, End Current Pass, Exit, or an end time already past.
PassOver ==
  /\ MainGoto("wait", "markEnd")
  /\ UNCHANGED <<pass, exposed, tracking, passEnd, shutdown, every, lock, file,
                 stamps, radio, status, trk, pc, localVars, acts>>

\* Mutant: the end of the pass is not marked before FDT is cleared.
MarkEndedTooLate ==
  /\ MainGoto("markEnd", "clearEnded")
  /\ UNCHANGED <<pass, exposed, tracking, passEnd, shutdown, every, lock, file,
                 stamps, radio, status, trk, pc, localVars, acts>>

MarkEnded ==
  /\ MainGoto("markEnd", "clearEnded")
  /\ passEnd' = TRUE
  /\ UNCHANGED <<pass, exposed, tracking, shutdown, every, lock, file, stamps,
                 radio, status, trk, pc, localVars, acts>>

ClearAfterPass ==
  /\ MainGoto("clearEnded", "stopping")
  /\ Clear
  /\ UNCHANGED <<pass, exposed, tracking, passEnd, shutdown, every, lock, stamps,
                 radio, status, trk, pc, localVars, acts>>

StopTracker ==
  /\ MainGoto("stopping", "complete")
  /\ trk' = NoTracker
  /\ UNCHANGED <<pass, exposed, tracking, passEnd, shutdown, every, lock, file,
                 stamps, radio, status, pc, localVars, acts>>

CompletePass ==
  /\ MainGoto("complete", "between")
  /\ tracking' = FALSE /\ exposed' = FALSE /\ every' = YamlPace
  /\ status' = NoStatus
  /\ UNCHANGED <<pass, passEnd, shutdown, lock, file, stamps, radio, trk, pc,
                 localVars, acts>>

\* cleanup_helper_programs and the final reset of _main_owned.
Exit ==
  /\ MainGoto("between", "exited")
  /\ shutdown
  /\ Clear
  /\ status' = NoStatus /\ every' = YamlPace
  /\ UNCHANGED <<pass, exposed, tracking, passEnd, shutdown, lock, stamps, radio,
                 trk, pc, localVars, acts>>

MainStep ==
  \/ Claim \/ ClearPassEnd \/ ClearForPass \/ ResetCadence \/ Expose \/ Launch
  \/ PassOver \/ MarkEnded \/ ClearAfterPass \/ StopTracker \/ CompletePass
  \/ Exit

-----------------------------------------------------------------------------
\* The tracking process: each cycle reads the control file, writes its status,
\* then programs the two frequencies if FDT is on.  The base it adopted last
\* stays when FDT is paused.

TrackerGoto(from) ==
  /\ trk.at = from
  /\ UNCHANGED <<bossVars, every, lock, file, stamps, pc, localVars, acts>>

\* Mutant: an update of a running session is not adopted.
AdoptedWhenTurnedOn ==
  IF file = NoFile THEN [trk EXCEPT !.on = FALSE, !.stamp = 0]
  ELSE IF trk.on THEN trk
  ELSE [trk EXCEPT !.on = TRUE, !.stamp = file.stamp, !.d = file.d, !.u = file.u]

Adopted ==
  IF file = NoFile THEN [trk EXCEPT !.on = FALSE, !.stamp = 0]
  ELSE IF file.stamp = trk.stamp THEN [trk EXCEPT !.on = TRUE]
  ELSE [trk EXCEPT !.on = TRUE, !.stamp = file.stamp, !.d = file.d, !.u = file.u]

TrackerReads ==
  /\ TrackerGoto("read")
  /\ trk' = [Adopted EXCEPT !.at = "report"]
  /\ UNCHANGED <<radio, status>>

\* The satellite moves on: the shift declines or stays.
TrackerReports ==
  /\ TrackerGoto("report")
  /\ \E s \in {trk.shift, trk.shift - 1} :
       /\ s >= 0
       /\ trk' = [trk EXCEPT !.shift = s, !.at = IF trk.on THEN "down" ELSE "read"]
       /\ status' = s
  /\ UNCHANGED radio

TrackerSetsDown ==
  /\ TrackerGoto("down")
  /\ radio' = [radio EXCEPT !.d = trk.d + trk.shift]
  /\ trk' = [trk EXCEPT !.at = "up"]
  /\ UNCHANGED status

TrackerSetsUp ==
  /\ TrackerGoto("up")
  /\ radio' = [radio EXCEPT !.u = trk.u - trk.shift]
  /\ trk' = [trk EXCEPT !.at = "read"]
  /\ UNCHANGED status

\* The satellite has set, or the process failed.
TrackerEnds ==
  /\ trk.at # "off"
  /\ trk' = NoTracker
  /\ UNCHANGED <<bossVars, every, lock, file, stamps, radio, status, pc,
                 localVars, acts>>

TrackerStep == TrackerReads \/ TrackerReports \/ TrackerSetsDown \/ TrackerSetsUp

-----------------------------------------------------------------------------
\* Requests.  A request thread serves one handle_web_command call at a time.

Goto(w, from, to) ==
  /\ Alive
  /\ pc[w] = from
  /\ pc' = [pc EXCEPT ![w] = to]

Arrive(w, to) ==
  /\ Goto(w, "ready", to)
  /\ acts < MaxActs
  /\ acts' = acts + 1

Take(w) == lock = NoOne /\ lock' = w
Free == lock = NoOne /\ UNCHANGED lock
Release(w) == lock = w /\ lock' = NoOne

\* os.replace of the payload of thread w, which holds the lock.
Publish(w) == Release(w) /\ file' = pay[w]

Stamped(p, e) == [p EXCEPT !.every = e, !.stamp = stamps + 1]

SetDown(f) == radio' = [radio EXCEPT !.d = f]
SetUp(f) == radio' = [radio EXCEPT !.u = f]

\* enable_fdt_from_web, with the cadence override of the request (YamlPace: none).
EnableRequest(w) ==
  /\ Arrive(w, "enCheck")
  /\ \E e \in Cadence : want' = [want EXCEPT ![w] = e]
  /\ seen' = [seen EXCEPT ![w] = status]
  /\ UNCHANGED <<bossVars, every, lock, file, stamps, radio, status, trk, then,
                 pay, old>>

EnableCheck(w) ==
  /\ \E to \in {"ready", "ivRead", "enReadDown"} :
       /\ Goto(w, "enCheck", to)
       /\ to = IF ~tracking \/ ~Linear(seen[w]) \/ Ending THEN "ready"
               ELSE IF want[w] = YamlPace THEN "enReadDown" ELSE "ivRead"
  /\ then' = [then EXCEPT ![w] = "enReadDown"]
  /\ pay' = [pay EXCEPT ![w].for = pass]
  /\ UNCHANGED <<bossVars, every, lock, file, stamps, radio, status, trk, seen,
                 want, old, acts>>

\* The query may fail, and the status must hold a Doppler shift.
EnableReadDown(w) ==
  /\ \/ /\ Goto(w, "enReadDown", "enReadUp")
        /\ seen[w] # NoStatus
        /\ old' = [old EXCEPT ![w].d = radio.d]
     \/ /\ Goto(w, "enReadDown", "ready")
        /\ UNCHANGED old
  /\ UNCHANGED <<bossVars, every, lock, file, stamps, radio, status, trk, seen,
                 want, then, pay, acts>>

\* Read the uplink and build the payload: the radio without its Doppler shift.
EnableReadUp(w) ==
  /\ \/ /\ Goto(w, "enReadUp", "enSetDown")
        /\ old' = [old EXCEPT ![w].u = radio.u]
        /\ stamps' = stamps + 1
        /\ pay' = [pay EXCEPT ![w] =
                     [Stamped(@, every) EXCEPT !.d = old[w].d - seen[w],
                                               !.u = radio.u + seen[w],
                                               !.by = "radio"]]
     \/ /\ Goto(w, "enReadUp", "ready")
        /\ UNCHANGED <<old, stamps, pay>>
  /\ UNCHANGED <<bossVars, every, lock, file, radio, status, trk, seen, want,
                 then, acts>>

EnableSetDown(w) ==
  /\ \/ Goto(w, "enSetDown", "enSetUp") /\ SetDown(pay[w].d + seen[w])
     \/ Goto(w, "enSetDown", "enBackUp") /\ UNCHANGED radio
  /\ UNCHANGED <<bossVars, every, lock, file, stamps, status, trk, localVars, acts>>

EnableSetUp(w) ==
  /\ \/ Goto(w, "enSetUp", "enWrite") /\ SetUp(pay[w].u - seen[w])
     \/ Goto(w, "enSetUp", "enBackDown") /\ UNCHANGED radio
  /\ UNCHANGED <<bossVars, every, lock, file, stamps, status, trk, localVars, acts>>

\* _write_fdt_control_payload: refused while the pass is ending.
EnableWrite(w) ==
  /\ \/ ~Ending /\ Goto(w, "enWrite", "enReplace") /\ Take(w)
     \/ Ending /\ Goto(w, "enWrite", "enBackDown") /\ Free
  /\ UNCHANGED <<bossVars, every, file, stamps, radio, status, trk, localVars, acts>>

EnableReplace(w) ==
  /\ Goto(w, "enReplace", "ready")
  /\ Publish(w)
  /\ UNCHANGED <<bossVars, every, stamps, radio, status, trk, localVars, acts>>

\* The rollback: each half may be refused too.
EnableBackDown(w) ==
  /\ Goto(w, "enBackDown", "enBackUp")
  /\ SetDown(old[w].d) \/ UNCHANGED radio
  /\ UNCHANGED <<bossVars, every, lock, file, stamps, status, trk, localVars, acts>>

EnableBackUp(w) ==
  /\ Goto(w, "enBackUp", "ready")
  /\ SetUp(old[w].u) \/ UNCHANGED radio
  /\ UNCHANGED <<bossVars, every, lock, file, stamps, status, trk, localVars, acts>>

\* set_fdt_recalculation_interval_from_web, alone or inside Enable.
IntervalRequest(w) ==
  /\ Arrive(w, "ivRead")
  /\ \E e \in Intervals : want' = [want EXCEPT ![w] = e]
  /\ then' = [then EXCEPT ![w] = "ready"]
  /\ UNCHANGED <<bossVars, every, lock, file, stamps, radio, status, trk, seen,
                 pay, old>>

IntervalCheck(w) ==
  /\ \/ tracking /\ Linear(status) /\ Goto(w, "ivRead", "ivState")
     \/ ~(tracking /\ Linear(status)) /\ Goto(w, "ivRead", "ready")
  /\ UNCHANGED <<bossVars, every, lock, file, stamps, radio, status, trk, localVars,
                 acts>>

IntervalState(w) ==
  /\ Goto(w, "ivState", "ivLock")
  /\ every' = want[w]
  /\ UNCHANGED <<bossVars, lock, file, stamps, radio, status, trk, localVars, acts>>

\* reset_fdt_recalculation_interval_from_web checks nothing.
ResetRequest(w) ==
  /\ Arrive(w, "ivLock")
  /\ every' = YamlPace
  /\ want' = [want EXCEPT ![w] = YamlPace]
  /\ then' = [then EXCEPT ![w] = "ready"]
  /\ UNCHANGED <<bossVars, lock, file, stamps, radio, status, trk, seen, pay, old>>

\* Republish the session if there is one; refused while the pass is ending.
IntervalLock(w) ==
  \/ /\ \/ file = NoFile /\ Goto(w, "ivLock", then[w])
        \/ file # NoFile /\ Ending /\ Goto(w, "ivLock", "ready")
     /\ Free
     /\ UNCHANGED <<bossVars, every, file, stamps, radio, status, trk, localVars,
                    acts>>
  \/ /\ file # NoFile /\ ~Ending
     /\ Goto(w, "ivLock", "ivReplace")
     /\ Take(w)
     /\ stamps' = stamps + 1
     /\ pay' = [pay EXCEPT ![w] = Stamped(file, want[w])]
     /\ UNCHANGED <<bossVars, every, file, radio, status, trk, seen, want, then,
                    old, acts>>

IntervalReplace(w) ==
  /\ Goto(w, "ivReplace", then[w])
  /\ Publish(w)
  /\ UNCHANGED <<bossVars, every, stamps, radio, status, trk, localVars, acts>>

\* disable_fdt_from_web.
PauseRequest(w) ==
  /\ Arrive(w, "psCheck")
  /\ seen' = [seen EXCEPT ![w] = status]
  /\ UNCHANGED <<bossVars, every, lock, file, stamps, radio, status, trk, want,
                 then, pay, old>>

PauseCheck(w) ==
  /\ \E to \in {"ready", "clear"} :
       /\ Goto(w, "psCheck", to)
       /\ to = IF tracking /\ Linear(seen[w]) THEN "clear" ELSE "ready"
  /\ UNCHANGED <<bossVars, every, lock, file, stamps, radio, status, trk, localVars,
                 acts>>

\* clear_fdt_control_state: the last step of Pause, End Current Pass and Exit.
ClearFile(w) ==
  /\ Goto(w, "clear", "ready")
  /\ Clear
  /\ UNCHANGED <<bossVars, every, lock, stamps, radio, status, trk, localVars, acts>>

\* tune_fdt_step_from_web: the current pass, then the status, then the lock.
ClickRequest(w) ==
  /\ Arrive(w, "tnCheck")
  /\ tracking /\ exposed
  /\ UNCHANGED <<bossVars, every, lock, file, stamps, radio, status, trk, localVars>>

ClickCheck(w) ==
  /\ \E to \in {"ready", "tnLock"} :
       /\ Goto(w, "tnCheck", to)
       /\ to = IF Ending THEN "ready" ELSE "tnLock"
  /\ seen' = [seen EXCEPT ![w] = status]
  /\ UNCHANGED <<bossVars, every, lock, file, stamps, radio, status, trk, want, then,
                 pay, old, acts>>

\* Mutant: the uplink of an inverting transponder moves with the downlink.
UplinkFollows(dir) == dir

UplinkStep(dir) == IF Inverting THEN -dir ELSE dir

\* The wheel is turned by dir: the session must be on and stay in both bands.
MayClick(w, dir) ==
  /\ file # NoFile
  /\ seen[w] # NoStatus
  /\ file.d + dir \in DownBand
  /\ file.u + UplinkStep(dir) \in UpBand

ClickLock(w, dir) ==
  /\ \/ /\ MayClick(w, dir)
        /\ Goto(w, "tnLock", "tnSetDown")
        /\ Take(w)
        /\ pay' = [pay EXCEPT ![w] = [file EXCEPT !.d = file.d + dir,
                                                  !.u = file.u + UplinkStep(dir),
                                                  !.by = "wheel"]]
     \/ /\ ~MayClick(w, dir)
        /\ Goto(w, "tnLock", "ready")
        /\ Free
        /\ UNCHANGED pay
  /\ UNCHANGED <<bossVars, every, file, stamps, radio, status, trk, seen, want, then,
                 old, acts>>

ClickSetDown(w) ==
  /\ \/ /\ Goto(w, "tnSetDown", "tnSetUp")
        /\ SetDown(pay[w].d + seen[w])
        /\ UNCHANGED lock
     \/ /\ Goto(w, "tnSetDown", "ready")
        /\ Release(w)
        /\ UNCHANGED radio
  /\ UNCHANGED <<bossVars, every, file, stamps, status, trk, localVars, acts>>

ClickSetUp(w) ==
  /\ \/ Goto(w, "tnSetUp", "tnWrite") /\ SetUp(pay[w].u - seen[w])
     \/ Goto(w, "tnSetUp", "tnBack") /\ UNCHANGED radio
  /\ UNCHANGED <<bossVars, every, lock, file, stamps, status, trk, localVars, acts>>

\* The rollback of the downlink, which may be refused too.
ClickBack(w) ==
  /\ Goto(w, "tnBack", "ready")
  /\ Release(w)
  /\ SetDown(file.d + seen[w]) \/ UNCHANGED radio
  /\ UNCHANGED <<bossVars, every, file, stamps, status, trk, localVars, acts>>

\* Mutant: the refused write returns with the lock held.
ClickWriteKeepsLock(w) ==
  /\ \/ /\ ~Ending
        /\ Goto(w, "tnWrite", "tnReplace")
        /\ stamps' = stamps + 1
        /\ pay' = [pay EXCEPT ![w] = Stamped(@, every)]
     \/ /\ Ending
        /\ Goto(w, "tnWrite", "ready")
        /\ UNCHANGED <<stamps, pay>>
  /\ UNCHANGED <<bossVars, every, lock, file, radio, status, trk, seen, want, then,
                 old, acts>>

\* The radio stays where it is when the write is refused.
ClickWrite(w) ==
  /\ \/ /\ ~Ending
        /\ Goto(w, "tnWrite", "tnReplace")
        /\ stamps' = stamps + 1
        /\ pay' = [pay EXCEPT ![w] = Stamped(@, every)]
        /\ UNCHANGED lock
     \/ /\ Ending
        /\ Goto(w, "tnWrite", "ready")
        /\ Release(w)
        /\ UNCHANGED <<stamps, pay>>
  /\ UNCHANGED <<bossVars, every, file, radio, status, trk, seen, want, then, old,
                 acts>>

ClickReplace(w) ==
  /\ Goto(w, "tnReplace", "ready")
  /\ Publish(w)
  /\ UNCHANGED <<bossVars, every, stamps, radio, status, trk, localVars, acts>>

\* end_current_pass_from_web and request_shutdown; the rest is in PassScheduler.
EndRequest(w) ==
  /\ Arrive(w, "mark")
  /\ tracking /\ exposed
  /\ UNCHANGED <<bossVars, every, lock, file, stamps, radio, status, trk, localVars>>

RaisePassEnd(w) ==
  /\ Goto(w, "mark", "clear")
  /\ passEnd' = TRUE
  /\ UNCHANGED <<main, pass, exposed, tracking, shutdown, every, lock, file, stamps,
                 radio, status, trk, localVars, acts>>

ExitRequest(w) ==
  /\ Arrive(w, "exStop")
  /\ shutdown' = TRUE
  /\ UNCHANGED <<main, pass, exposed, tracking, passEnd, every, lock, file, stamps,
                 radio, status, trk, localVars>>

\* cleanup_helper_programs waits for the tracking process, then clears.
ExitStopsTracker(w) ==
  /\ Goto(w, "exStop", "exClear")
  /\ trk' = NoTracker
  /\ UNCHANGED <<bossVars, every, lock, file, stamps, radio, status, localVars, acts>>

ExitClears(w) ==
  /\ Goto(w, "exClear", "ready")
  /\ Clear
  /\ status' = NoStatus
  /\ UNCHANGED <<bossVars, every, lock, stamps, radio, trk, localVars, acts>>

\* The operator turns the dial of the radio.
Dial ==
  /\ Alive /\ acts < MaxActs
  /\ acts' = acts + 1
  /\ \E t \in Dials : radio' = t
  /\ UNCHANGED <<bossVars, every, lock, file, stamps, status, trk, pc, localVars>>

EnableStep(w) ==
  \/ EnableCheck(w) \/ EnableReadDown(w) \/ EnableReadUp(w) \/ EnableSetDown(w)
  \/ EnableSetUp(w) \/ EnableWrite(w) \/ EnableReplace(w) \/ EnableBackDown(w)
  \/ EnableBackUp(w)

ClickStep(w) ==
  \/ ClickCheck(w) \/ (\E dir \in {-1, 1} : ClickLock(w, dir)) \/ ClickSetDown(w)
  \/ ClickSetUp(w) \/ ClickBack(w) \/ ClickWrite(w) \/ ClickReplace(w)

OtherStep(w) ==
  \/ IntervalCheck(w) \/ IntervalState(w) \/ IntervalLock(w) \/ IntervalReplace(w)
  \/ PauseCheck(w) \/ RaisePassEnd(w) \/ ExitStopsTracker(w) \/ ExitClears(w)
  \/ ClearFile(w)

Request(w) ==
  \/ EnableRequest(w) \/ ClickRequest(w) \/ IntervalRequest(w) \/ ResetRequest(w)
  \/ PauseRequest(w) \/ EndRequest(w) \/ ExitRequest(w)

WebStep(w) == EnableStep(w) \/ ClickStep(w) \/ OtherStep(w)

\* The program has exited, or the bounds leave nothing more to happen.
Done ==
  /\ \/ ~Alive
     \/ main = "between" /\ pass = MaxPass /\ acts = MaxActs
        /\ \A w \in Web : pc[w] = "ready"
  /\ UNCHANGED vars

Next ==
  \/ MainStep \/ TrackerStep \/ TrackerEnds \/ Dial \/ Done
  \/ \E w \in Web : Request(w) \/ WebStep(w)

Spec == Init /\ [][Next]_vars

\* A request in progress runs on, the main thread closes a pass that has ended,
\* and the tracking process sleeps at most one interval between cycles.  A pass
\* need not end, since what must happen during a pass may not wait for its end.
FairSpec ==
  /\ Spec
  /\ WF_vars(MainStep /\ main # "wait")
  /\ WF_vars(TrackerStep)
  /\ \A w \in Web : WF_vars(WebStep(w))

-----------------------------------------------------------------------------
MainLabel == {"between", "clearEnd", "clearFile", "interval", "expose", "launch",
              "wait", "markEnd", "clearEnded", "stopping", "complete", "exited"}
WebLabel == {"ready", "enCheck", "enReadDown", "enReadUp", "enSetDown", "enSetUp",
             "enWrite", "enReplace", "enBackDown", "enBackUp", "ivRead", "ivState",
             "ivLock", "ivReplace", "psCheck", "clear", "tnCheck", "tnLock",
             "tnSetDown", "tnSetUp", "tnBack", "tnWrite", "tnReplace", "mark",
             "exStop", "exClear"}
Tracker == [at : {"off", "read", "report", "down", "up"}, d : Int, u : Int,
            on : BOOLEAN, stamp : Nat, shift : Nat]

\* Every variable has its type.
TypeOK ==
  /\ main \in MainLabel /\ pass \in 0..MaxPass
  /\ exposed \in BOOLEAN /\ tracking \in BOOLEAN
  /\ passEnd \in BOOLEAN /\ shutdown \in BOOLEAN
  /\ every \in Cadence /\ lock \in Web \cup {NoOne}
  /\ file \in Payload \cup {NoFile} /\ stamps \in Nat
  /\ radio \in Tuning /\ status \in Nat \cup {NoStatus} /\ trk \in Tracker
  /\ pc \in [Web -> WebLabel]
  /\ seen \in [Web -> Nat \cup {NoStatus}]
  /\ want \in [Web -> Cadence]
  /\ then \in [Web -> {"ready", "enReadDown"}]
  /\ pay \in [Web -> Payload]
  /\ old \in [Web -> Tuning]
  /\ acts \in Nat

\* Threads that passed the check in _write_fdt_control_payload.
Committed == {w \in Web : pc[w] \in {"enReplace", "ivReplace", "tnReplace"}}

\* Once the main thread has cleared FDT for the end of a pass, no request that
\* was in flight recreates the file: it is absent while the tracking process is
\* stopped, and at the exit ("cannot recreate tuning data while the tracking
\* process is stopping").
StaysCleared ==
  main \in {"stopping", "complete", "exited"} => file = NoFile /\ Committed = {}

\* The file and the events implement an atomic session that only Anchor turns
\* on, that clicks move by exactly one step along the transponder, losing none,
\* and that nothing revives once it is sealed.
Session == IF file = NoFile THEN NoFile
           ELSE [d |-> file.d, u |-> file.u, every |-> file.every, by |-> file.by]
Sealed == Ending /\ file = NoFile /\ Committed = {}
S == INSTANCE FdtSession WITH session <- Session, sealed <- Sealed, Off <- NoFile
SessionSpec == S!Spec

\* A wheel click or a cadence change in flight never turns a paused session on
\* again: only an Enable writes a file that is not there.
OnlyEnableRevives ==
  [][file = NoFile /\ file' # NoFile => \E w \in Web : pc[w] = "enReplace"]_vars

\* Two publications differ in their timestamps, so the tracking process cannot take
\* a new session for the one it knows: what it runs with under a timestamp is
\* what was published under it.
KnownBase ==
  (file # NoFile /\ trk.at # "off" /\ trk.stamp = file.stamp) =>
    trk.d = file.d /\ trk.u = file.u

OnTarget == radio.d = file.d + trk.shift /\ radio.u = file.u - trk.shift

\* Whatever requests, rollbacks and cycles in progress do to the radio, the
\* tracking process takes up the published pair and the radio ends up there,
\* corrected for Doppler, unless the session changes or that process ends.
RadioFollows ==
  \A n \in 1..(2 * MaxActs) :
    (file # NoFile /\ file.stamp = n) ~>
      \/ file = NoFile \/ file.stamp # n
      \/ trk.at = "off" /\ main \notin {"interval", "expose", "launch"}
      \/ trk.at = "read" /\ trk.stamp = n /\ OnTarget

\* Every request is answered, and every pass is closed, however the lock passes
\* from hand to hand.
Answered ==
  /\ \A w \in Web : pc[w] # "ready" ~> (pc[w] = "ready" \/ ~Alive)
  /\ (main = "markEnd") ~> (main = "between")

\* "Always begin from the configured transponder midpoint.  Clear any stale
\* control file before the new pass is exposed as active": a session in an
\* exposed pass was anchored in this pass.
FreshPass ==
  main \in {"launch", "wait"} /\ file # NoFile => file.for = pass

\* The selected cadence reaches the tracking process: immediately if FDT runs,
\* else with the next Sync FDT.  With no request in progress the two agree.
CadenceAgrees ==
  (main = "wait" /\ file # NoFile /\ \A w \in Web : pc[w] = "ready") =>
    file.every = every

=============================================================================
