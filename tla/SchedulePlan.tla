---------------------------- MODULE SchedulePlan ----------------------------
(***************************************************************************)
(* bqe_schedule_passes.py: every satellite is scanned for passes, one      *)
(* after the other or by a pool of processes; the passes are collected,    *)
(* sorted by start, and thinned until no two of them overlap.              *)
(*                                                                         *)
(* Time is the index of a sample, 15 seconds apart and the same for all    *)
(* satellites.  Altitudes are tenths of a degree.  Orbits are not          *)
(* modelled: a sample may show any altitude.                               *)
(***************************************************************************)
EXTENDS Integers, Sequences, FiniteSets

CONSTANTS
  Tasks,     \* number of satellites to scan
  Samples,   \* index of the last sample (duration_hours)
  Alts,      \* altitudes a sample may show
  MinEl,     \* minimum_elevation
  Workers,   \* parallel_pass_workers; 1 scans in this process
  NoPass

Task == 1 .. Tasks

\* A pass in progress, and a pass.  max is max_altitude; seen stands for
\* max_alt_at_azimuth, by the altitude at which the azimuth was taken; top, a
\* history, is the highest altitude of the pass so far.
Open == [start : Nat, max : Int, seen : Int, top : Int]
Pass == [task : Task, start : Nat, end : Nat, max : Int, seen : Int, top : Int]

ASSUME PlanAssumption ==
  /\ Tasks \in Nat /\ Samples \in Nat /\ Workers \in Nat \ {0}
  /\ Alts \subseteq Int /\ MinEl \in Int
  /\ NoPass \notin Open

VARIABLES
  phase,     \* "scan", "filter", "written" or "failed"
  at,        \* per task, the next sample, or -1 before the task is begun
  cur,       \* current_pass of each scan
  found,     \* passes of each scan
  got,       \* tasks whose result has been added to combined
  combined,  \* combined_passes
  left,      \* indices in combined that the filter has not reached
  kept       \* filtered_passes

scanVars == <<at, cur, found>>
filterVars == <<left, kept>>
vars == <<phase, scanVars, got, combined, filterVars>>

Init ==
  /\ phase = "scan"
  /\ at = [t \in Task |-> -1]
  /\ cur = [t \in Task |-> NoPass]
  /\ found = [t \in Task |-> <<>>]
  /\ got = {} /\ combined = <<>> /\ left = {} /\ kept = <<>>

-----------------------------------------------------------------------------
\* A task occupies a worker while it is scanned; without a pool it is also
\* collected before the next is begun.
Busy(t) == at[t] >= 0 /\ IF Workers = 1 THEN t \notin got ELSE at[t] <= Samples

Begin(t) ==
  /\ phase = "scan" /\ at[t] = -1
  /\ \A u \in Task : u < t => at[u] >= 0
  /\ Cardinality({u \in Task : Busy(u)}) < Workers
  /\ at' = [at EXCEPT ![t] = 0]
  /\ UNCHANGED <<phase, cur, found, got, combined, filterVars>>

\* round(): to the nearest degree, a half to the even one.
Rounded(a) ==
  LET whole == a \div 10
      rest == a % 10
  IN  10 * (IF rest > 5 \/ (rest = 5 /\ whole % 2 = 1) THEN whole + 1 ELSE whole)

Sampling(t) ==
  /\ phase = "scan" /\ at[t] \in 0 .. Samples
  /\ at' = [at EXCEPT ![t] = @ + 1]
  /\ UNCHANGED <<phase, got, combined, filterVars>>

Rise(t, a) ==
  /\ Sampling(t)
  /\ a > 0 /\ cur[t] = NoPass
  /\ cur' = [cur EXCEPT ![t] = [start |-> at[t], max |-> a, seen |-> a, top |-> a]]
  /\ UNCHANGED found

\* An altitude is compared unrounded with a maximum that has been rounded.
Follow(t, a) ==
  /\ Sampling(t)
  /\ a > 0 /\ cur[t] # NoPass
  /\ cur' = [cur EXCEPT ![t] =
       [start |-> @.start,
        max   |-> IF a > @.max THEN Rounded(a) ELSE @.max,
        seen  |-> IF a > @.max THEN a ELSE @.seen,
        top   |-> IF a > @.top THEN a ELSE @.top]]
  /\ UNCHANGED found

Closed(t) == [task |-> t, start |-> cur[t].start, end |-> at[t],
              max |-> cur[t].max, seen |-> cur[t].seen, top |-> cur[t].top]

\* Mutant: a pass at the minimum is refused.
Above(max) == max > MinEl

HighEnough(max) == max >= MinEl

Set(t, a) ==
  /\ Sampling(t)
  /\ a <= 0 /\ cur[t] # NoPass
  /\ found' = IF HighEnough(cur[t].max)
              THEN [found EXCEPT ![t] = Append(@, Closed(t))] ELSE found
  /\ cur' = [cur EXCEPT ![t] = NoPass]

Below(t, a) ==
  /\ Sampling(t)
  /\ a <= 0 /\ cur[t] = NoPass
  /\ UNCHANGED <<cur, found>>

\* as_completed: in whatever order the workers finish.  A pass in progress at the
\* last sample is left out.
Collect(t) ==
  /\ phase = "scan" /\ at[t] > Samples /\ t \notin got
  /\ combined' = combined \o found[t]
  /\ got' = got \cup {t}
  /\ UNCHANGED <<phase, scanVars, filterVars>>

\* A scan that raises ends the script; schedule.json is not touched.
ScanFails(t) ==
  /\ phase = "scan" /\ at[t] \in 0 .. Samples
  /\ phase' = "failed"
  /\ UNCHANGED <<scanVars, got, combined, filterVars>>

-----------------------------------------------------------------------------
AllCollected ==
  /\ phase = "scan" /\ got = Task
  /\ phase' = "filter"
  /\ left' = DOMAIN combined
  /\ UNCHANGED <<scanVars, got, combined, kept>>

\* Mutant: the passes are taken as they were collected.
Unsorted(i, j) == i <= j

\* combined_passes.sort is stable.
Before(i, j) ==
  \/ combined[i].start < combined[j].start
  \/ combined[i].start = combined[j].start /\ i <= j

\* Mutant: passes that only touch overlap.
Touch(p, q) == p.start <= q.end /\ q.start <= p.end

Overlap(p, q) == p.start < q.end /\ q.start < p.end

Higher(p, q) == p.max > q.max

Last == kept[Len(kept)]
InConflict(p) == kept # <<>> /\ Overlap(Last, p)

\* One round of the filter.
Consider(i) ==
  /\ phase = "filter" /\ i \in left /\ \A j \in left : Before(i, j)
  /\ left' = left \ {i}
  /\ LET p == combined[i] IN
     \/ /\ ~InConflict(p)
        /\ kept' = Append(kept, p)
     \/ /\ InConflict(p) /\ Higher(p, Last)
        /\ kept' = [kept EXCEPT ![Len(kept)] = p]
     \/ /\ InConflict(p) /\ ~Higher(p, Last)
        /\ kept' = kept
  /\ UNCHANGED <<phase, scanVars, got, combined>>

Export ==
  /\ phase = "filter" /\ left = {}
  /\ phase' = "written"
  /\ UNCHANGED <<scanVars, got, combined, filterVars>>

Scan(t) == Begin(t) \/ Collect(t) \/ ScanFails(t)
             \/ \E a \in Alts : Rise(t, a) \/ Follow(t, a) \/ Set(t, a) \/ Below(t, a)

Next ==
  \/ \E t \in Task : Scan(t)
  \/ AllCollected
  \/ \E i \in left : Consider(i)
  \/ Export

Spec == Init /\ [][Next]_vars

-----------------------------------------------------------------------------
\* Every variable has its type; a pass ends after it starts.
PassOK(p) == p \in Pass /\ p.start < p.end

TypeOK ==
  /\ phase \in {"scan", "filter", "written", "failed"}
  /\ at \in [Task -> -1 .. Samples + 1]
  /\ cur \in [Task -> Open \cup {NoPass}]
  /\ found \in [Task -> Seq(Pass)]
  /\ got \subseteq Task
  /\ combined \in Seq(Pass) /\ left \subseteq DOMAIN combined
  /\ kept \in Seq(Pass)
  /\ \A i \in DOMAIN combined : PassOK(combined[i])

Considered == IF phase \in {"filter", "written"} THEN DOMAIN combined \ left ELSE {}

\* The schedule is in order and no two passes of it overlap, although a pass is
\* compared with the last one kept only, which may have replaced another.
Disjoint ==
  \A i, j \in DOMAIN kept : i < j => kept[i].end <= kept[j].start

\* The filter never lowers the best altitude: whatever chain of passes overlaps,
\* each is outdone or equalled by one that is kept.
BestKept ==
  \A i \in Considered : \E k \in DOMAIN kept : kept[k].max >= combined[i].max

\* A pass is dropped only for one that it overlaps and that is not lower.  (That
\* one may be dropped in its turn.)
Justified(i) ==
  \/ \E k \in DOMAIN kept : kept[k] = combined[i]
  \/ \E j \in Considered \ {i} :
       /\ combined[i].start < combined[j].end /\ combined[j].start < combined[i].end
       /\ combined[j].max >= combined[i].max
DropsJustified == \A i \in Considered : Justified(i)

\* Though rounded altitudes and unrounded ones are compared, max_altitude is
\* within half a degree of the real peak, and the azimuth was taken within a
\* degree of it.
Near(a, b, d) == a - b <= d /\ b - a <= d
PeakKnown ==
  \A t \in Task : cur[t] # NoPass =>
    Near(cur[t].max, cur[t].top, 5) /\ Near(cur[t].seen, cur[t].top, 10)

\* No pass that reaches a minimum elevation of whole degrees is left out.
NoneMissed ==
  [][\A t \in Task, a \in Alts :
       Set(t, a) /\ MinEl % 10 = 0 /\ cur[t].top >= MinEl
         => Len(found'[t]) = Len(found[t]) + 1]_vars

\* The inductive invariant.  A maximum that is not the first altitude has been
\* rounded, and rounding does not lead below whole degrees already reached.
OpenInv ==
  \A t \in Task : cur[t] # NoPass =>
    /\ cur[t].start < at[t]
    /\ Near(cur[t].seen, cur[t].max, 5)
    /\ cur[t].max % 10 = 0 \/ cur[t].max = cur[t].top
    /\ MinEl % 10 = 0 /\ cur[t].top >= MinEl => cur[t].max >= MinEl
FoundInv == \A t \in Task : \A i \in DOMAIN found[t] : PassOK(found[t][i])
\* What is left starts no earlier than what is kept.
KeptInv ==
  /\ phase = "scan" => kept = <<>> /\ left = {}
  /\ \A k \in DOMAIN kept :
       /\ \E j \in Considered : kept[k] = combined[j]
       /\ \A i \in left : kept[k].start <= combined[i].start

ScanInv == TypeOK /\ PeakKnown /\ OpenInv /\ FoundInv
FilterInv == KeptInv /\ Disjoint /\ BestKept /\ DropsJustified
IInv == ScanInv /\ FilterInv
=============================================================================
