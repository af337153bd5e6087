------------------------- MODULE SchedulePlanProofs -------------------------
(***************************************************************************)
(* For any number of satellites, samples and workers and any altitudes.    *)
(***************************************************************************)
EXTENDS SchedulePlan, TLAPS

LEMMA Division ==
  ASSUME NEW a \in Int
  PROVE  a \div 10 \in Int /\ a % 10 \in 0..9 /\ a = 10 * (a \div 10) + (a % 10)
<1>1. a \div 10 \in Int
  OBVIOUS
<1>2. a % 10 \in 0..9
  OBVIOUS
<1>3. a = 10 * (a \div 10) + (a % 10)
  OBVIOUS
<1> QED BY <1>1, <1>2, <1>3

LEMMA Tens ==
  ASSUME NEW b \in Int
  PROVE  (10 * b) % 10 = 0
<1>1. 10 * b \in Int
  OBVIOUS
<1> QED BY <1>1, Division

\* round() returns whole degrees, at most half a degree away, and does not fall
\* below whole degrees that its argument reaches.
LEMMA RoundedFacts ==
  ASSUME NEW a \in Int
  PROVE  /\ Rounded(a) \in Int /\ Rounded(a) % 10 = 0 /\ Near(Rounded(a), a, 5)
         /\ \A m \in Int : m % 10 = 0 /\ a >= m => Rounded(a) >= m
<1> DEFINE whole == a \div 10
           rest == a % 10
           up == rest > 5 \/ (rest = 5 /\ whole % 2 = 1)
<1>1. whole \in Int /\ rest \in 0..9 /\ a = 10 * whole + rest
  BY Division
<1>2. Rounded(a) = 10 * whole \/ Rounded(a) = 10 * (whole + 1)
  BY DEF Rounded
<1>3. Rounded(a) \in Int /\ Rounded(a) % 10 = 0
  BY <1>1, <1>2, Tens
<1>4. Near(Rounded(a), a, 5)
  <2>1. CASE up
    <3>1. Rounded(a) = 10 * (whole + 1)
      BY <2>1 DEF Rounded
    <3> QED
      <4> HIDE DEF whole, rest
      <4>1. rest >= 5
        BY <1>1, <2>1
      <4> QED BY <1>1, <3>1, <4>1 DEF Near
  <2>2. CASE ~up
    <3>1. Rounded(a) = 10 * whole
      BY <2>2 DEF Rounded
    <3>2. rest <= 5
      <4> HIDE DEF whole, rest
      <4> QED BY <1>1, <2>2
    <3> QED
      <4> HIDE DEF whole, rest
      <4> QED BY <1>1, <3>1, <3>2 DEF Near
  <2> QED BY <2>1, <2>2
<1>5. ASSUME NEW m \in Int, m % 10 = 0, a >= m
      PROVE  Rounded(a) >= m
  <2> DEFINE k == m \div 10
  <2>1. k \in Int /\ m = 10 * k
    BY <1>5, Division
  <2> HIDE DEF whole, rest, k
  <2>2. k <= whole
    BY <1>1, <1>5, <2>1
  <2> QED BY <1>1, <1>2, <2>1, <2>2
<1> QED BY <1>3, <1>4, <1>5

-----------------------------------------------------------------------------
\* The initial states satisfy the invariant.
LEMMA InitInv == Init => IInv
<1> SUFFICES ASSUME Init PROVE IInv
  OBVIOUS
<1> USE PlanAssumption DEF Init
<1>1. TypeOK
  BY DEF TypeOK
<1>2. PeakKnown /\ OpenInv /\ FoundInv
  BY DEF PeakKnown, OpenInv, FoundInv
<1>3. KeptInv /\ Disjoint /\ BestKept /\ DropsJustified
  BY DEF KeptInv, Disjoint, BestKept, DropsJustified, Considered
<1> QED BY <1>1, <1>2, <1>3 DEF IInv, ScanInv, FilterInv

-----------------------------------------------------------------------------
\* What is known of a pass in progress when s is the next sample.
OpenOK(v, s) ==
  /\ v \in Open /\ v.start < s
  /\ Near(v.max, v.top, 5) /\ Near(v.seen, v.max, 5)
  /\ v.max % 10 = 0 \/ v.max = v.top
  /\ MinEl % 10 = 0 /\ v.top >= MinEl => v.max >= MinEl

LEMMA OpenFacts ==
  ASSUME IInv, NEW t \in Task, cur[t] # NoPass
  PROVE  OpenOK(cur[t], at[t])
BY DEF IInv, ScanInv, TypeOK, PeakKnown, OpenInv, OpenOK

\* While satellites are scanned the filter has nothing.
LEMMA FilterIdle ==
  ASSUME IInv, phase = "scan", phase' \in {"scan", "failed"}, UNCHANGED filterVars
  PROVE  FilterInv'
<1>1. kept' = <<>> /\ left' = {} /\ Considered' = {}
  BY DEF IInv, FilterInv, KeptInv, Considered, filterVars
<1> QED BY <1>1 DEF FilterInv, KeptInv, Disjoint, BestKept, DropsJustified

\* A sample of one satellite leaves the others' scans alone.
LEMMA SampleStep ==
  ASSUME IInv, NEW t \in Task, Sampling(t),
         NEW v \in Open \cup {NoPass}, v # NoPass => OpenOK(v, at[t] + 1),
         cur' = [cur EXCEPT ![t] = v],
         NEW s \in Seq(Pass), \A i \in DOMAIN s : PassOK(s[i]),
         found' = [found EXCEPT ![t] = s]
  PROVE  IInv'
<1> USE PlanAssumption
<1>1. TypeOK /\ FoundInv
  BY DEF IInv, ScanInv
<1>2. TypeOK'
  BY <1>1 DEF TypeOK, Sampling, filterVars
<1>3. ASSUME NEW u \in Task, cur'[u] # NoPass
      PROVE  OpenOK(cur'[u], at'[u])
  <2>1. CASE u = t
    <3>1. cur'[u] = v /\ at'[u] = at[t] + 1
      BY <1>1, <2>1 DEF TypeOK, Sampling
    <3> QED BY <1>3, <3>1
  <2>2. CASE u # t
    <3>1. cur'[u] = cur[u] /\ at'[u] = at[u]
      BY <1>1, <2>2 DEF TypeOK, Sampling
    <3> QED BY <1>3, <3>1, OpenFacts
  <2> QED BY <2>1, <2>2
<1>4. (PeakKnown /\ OpenInv)'
  <2>1. ASSUME NEW w \in Open, Near(w.max, w.top, 5), Near(w.seen, w.max, 5)
        PROVE  Near(w.seen, w.top, 10)
    BY <2>1 DEF Near, Open
  <2> QED BY <1>3, <2>1 DEF PeakKnown, OpenInv, OpenOK
<1>5. FoundInv'
  BY <1>1 DEF FoundInv, TypeOK, PassOK
<1>6. FilterInv'
  BY FilterIdle DEF Sampling
<1> QED BY <1>2, <1>4, <1>5, <1>6 DEF IInv, ScanInv

LEMMA RiseStep == ASSUME IInv, NEW t \in Task, NEW a \in Alts, Rise(t, a) PROVE IInv'
<1> DEFINE v == [start |-> at[t], max |-> a, seen |-> a, top |-> a]
<1>1. TypeOK /\ FoundInv /\ a \in Int
  BY PlanAssumption DEF IInv, ScanInv
<1>2. v \in Open /\ OpenOK(v, at[t] + 1)
  <2>1. at[t] \in Nat
    BY PlanAssumption DEF Rise, Sampling
  <2> QED BY <1>1, <2>1 DEF Open, OpenOK, Near
<1>3. cur' = [cur EXCEPT ![t] = v] /\ found' = [found EXCEPT ![t] = found[t]]
  BY <1>1 DEF Rise, TypeOK
<1>4. found[t] \in Seq(Pass) /\ \A i \in DOMAIN found[t] : PassOK(found[t][i])
  BY <1>1 DEF TypeOK, FoundInv
<1>5. Sampling(t)
  BY DEF Rise
<1> HIDE DEF v
<1> QED BY <1>2, <1>3, <1>4, <1>5, SampleStep

\* The case that the theorem about the peak rests on.
LEMMA FollowStep == ASSUME IInv, NEW t \in Task, NEW a \in Alts, Follow(t, a) PROVE IInv'
<1> DEFINE c == cur[t]
           v == [start |-> c.start,
                 max   |-> IF a > c.max THEN Rounded(a) ELSE c.max,
                 seen  |-> IF a > c.max THEN a ELSE c.seen,
                 top   |-> IF a > c.top THEN a ELSE c.top]
<1>1. TypeOK /\ FoundInv /\ a \in Int /\ MinEl \in Int
  BY PlanAssumption DEF IInv, ScanInv
<1>2. OpenOK(c, at[t])
  BY OpenFacts DEF Follow
<1>3. c \in Open /\ c.start \in Nat /\ c.max \in Int /\ c.seen \in Int /\ c.top \in Int
  BY <1>2 DEF OpenOK, Open
<1>4. at[t] \in Int /\ c.start < at[t] + 1
  BY <1>2, <1>3, PlanAssumption DEF OpenOK, Follow, Sampling
<1>5. v \in Open /\ OpenOK(v, at[t] + 1)
  <2>1. CASE a > c.max
    <3> DEFINE r == Rounded(a)
               top == IF a > c.top THEN a ELSE c.top
    <3>1. v = [start |-> c.start, max |-> r, seen |-> a, top |-> top]
      BY <2>1
    <3>2. r \in Int /\ r % 10 = 0 /\ Near(r, a, 5)
          /\ \A m \in Int : m % 10 = 0 /\ a >= m => r >= m
      BY <1>1, RoundedFacts
    <3>3. top \in Int
      BY <1>1, <1>3
    <3>4. Near(r, top, 5)
      <4>1. CASE a > c.top
        BY <3>2, <4>1
      <4>2. CASE a <= c.top
        <5>1. c.max % 10 = 0
          BY <1>1, <1>2, <1>3, <2>1, <4>2 DEF OpenOK
        <5>2. r >= c.max
          BY <1>1, <1>3, <2>1, <3>2, <5>1
        <5>3. top = c.top
          BY <1>1, <1>3, <4>2
        <5>4. Near(c.max, c.top, 5)
          BY <1>2 DEF OpenOK
        <5> HIDE DEF r, top, c
        <5> QED BY <1>1, <1>3, <3>2, <4>2, <5>2, <5>3, <5>4 DEF Near
      <4> QED BY <1>1, <1>3, <4>1, <4>2
    <3>5. ASSUME MinEl % 10 = 0, top >= MinEl
          PROVE  r >= MinEl
      <4>1. a >= MinEl
        <5>1. CASE a > c.top
          BY <3>5, <5>1
        <5>2. CASE ~(a > c.top)
          <6>1. c.max >= MinEl
            BY <1>2, <3>5, <5>2 DEF OpenOK
          <6> HIDE DEF c
          <6> QED BY <1>1, <1>3, <2>1, <6>1
        <5> QED BY <5>1, <5>2
      <4> QED BY <1>1, <3>2, <3>5, <4>1
    <3>6. Near(a, r, 5)
      <4> HIDE DEF r
      <4> QED BY <1>1, <3>2 DEF Near
    <3>7. v.start = c.start /\ v.max = r /\ v.seen = a /\ v.top = top /\ v \in Open
      <4> HIDE DEF r, c, top, v
      <4> QED BY <1>1, <1>3, <3>1, <3>2, <3>3 DEF Open
    <3> HIDE DEF r, top, v, c
    <3> QED BY <1>4, <3>2, <3>4, <3>5, <3>6, <3>7 DEF OpenOK
  <2>2. CASE ~(a > c.max)
    <3>1. v = [c EXCEPT !.top = IF a > c.top THEN a ELSE c.top]
      BY <1>3, <2>2 DEF Open
    <3>2. v.start = c.start /\ v.max = c.max /\ v.seen = c.seen /\ v \in Open
          /\ v.top = IF a > c.top THEN a ELSE c.top
      BY <1>1, <1>3, <2>2 DEF Open
    <3> HIDE DEF v, c
    <3>3. Near(v.max, v.top, 5)
      BY <1>1, <1>2, <1>3, <2>2, <3>2 DEF OpenOK, Near
    <3>4. v.max % 10 = 0 \/ v.max = v.top
      BY <1>1, <1>2, <1>3, <2>2, <3>2 DEF OpenOK
    <3>5. MinEl % 10 = 0 /\ v.top >= MinEl => v.max >= MinEl
      BY <1>1, <1>2, <1>3, <2>2, <3>2 DEF OpenOK
    <3>6. Near(v.seen, v.max, 5)
      BY <1>2, <3>2 DEF OpenOK
    <3> QED BY <1>4, <3>2, <3>3, <3>4, <3>5, <3>6 DEF OpenOK
  <2> QED BY <2>1, <2>2
<1>6. cur' = [cur EXCEPT ![t] = v] /\ found' = [found EXCEPT ![t] = found[t]]
  BY <1>1 DEF Follow, TypeOK
<1>7. found[t] \in Seq(Pass) /\ \A i \in DOMAIN found[t] : PassOK(found[t][i])
  BY <1>1 DEF TypeOK, FoundInv
<1>8. Sampling(t)
  BY DEF Follow
<1> HIDE DEF v
<1> QED BY <1>5, <1>6, <1>7, <1>8, SampleStep

LEMMA SetStep == ASSUME IInv, NEW t \in Task, NEW a \in Alts, Set(t, a) PROVE IInv'
<1> DEFINE s == IF HighEnough(cur[t].max) THEN Append(found[t], Closed(t)) ELSE found[t]
<1>1. TypeOK /\ FoundInv
  BY DEF IInv, ScanInv
<1>2. OpenOK(cur[t], at[t])
  BY OpenFacts DEF Set
<1>3. PassOK(Closed(t))
  <2>1. at[t] \in Nat
    BY PlanAssumption DEF Set, Sampling
  <2> QED BY <1>2, <2>1 DEF OpenOK, Open, PassOK, Pass, Closed
<1>4. found[t] \in Seq(Pass) /\ \A i \in DOMAIN found[t] : PassOK(found[t][i])
  BY <1>1 DEF TypeOK, FoundInv
<1>5. s \in Seq(Pass) /\ \A i \in DOMAIN s : PassOK(s[i])
  BY <1>3, <1>4 DEF PassOK
<1>6. cur' = [cur EXCEPT ![t] = NoPass] /\ found' = [found EXCEPT ![t] = s]
  BY <1>1 DEF Set, TypeOK
<1>7. Sampling(t)
  BY DEF Set
<1> HIDE DEF s
<1> QED BY <1>5, <1>6, <1>7, SampleStep

LEMMA BelowStep == ASSUME IInv, NEW t \in Task, NEW a \in Alts, Below(t, a) PROVE IInv'
<1>1. TypeOK /\ FoundInv
  BY DEF IInv, ScanInv
<1>2. cur' = [cur EXCEPT ![t] = NoPass] /\ found' = [found EXCEPT ![t] = found[t]]
  BY <1>1 DEF Below, TypeOK
<1>3. found[t] \in Seq(Pass) /\ \A i \in DOMAIN found[t] : PassOK(found[t][i])
  BY <1>1 DEF TypeOK, FoundInv
<1>4. Sampling(t)
  BY DEF Below
<1> QED BY <1>2, <1>3, <1>4, SampleStep

-----------------------------------------------------------------------------
\* Steps of a scan that are not samples.
LEMMA BeginStep == ASSUME IInv, NEW t \in Task, Begin(t) PROVE IInv'
<1> USE PlanAssumption
<1>1. TypeOK /\ FoundInv
  BY DEF IInv, ScanInv
<1>2. TypeOK'
  BY <1>1 DEF TypeOK, Begin, filterVars
<1>3. PeakKnown' /\ FoundInv'
  BY <1>1 DEF Begin, IInv, ScanInv, PeakKnown, FoundInv, PassOK
<1>4. OpenInv'
  <2>1. ASSUME NEW u \in Task, cur[u] # NoPass
        PROVE  u # t
    BY <2>1, OpenFacts DEF OpenOK, Open, Begin
  <2>2. \A u \in Task : u # t => at'[u] = at[u]
    BY <1>1 DEF TypeOK, Begin
  <2> QED BY <2>1, <2>2 DEF IInv, ScanInv, OpenInv, Begin
<1>5. FilterInv'
  BY FilterIdle DEF Begin
<1> QED BY <1>2, <1>3, <1>4, <1>5 DEF IInv, ScanInv

LEMMA CollectStep == ASSUME IInv, NEW t \in Task, Collect(t) PROVE IInv'
<1>1. TypeOK /\ FoundInv /\ found[t] \in Seq(Pass)
  BY DEF IInv, ScanInv, TypeOK
<1>2. left = {}
  BY DEF Collect, IInv, FilterInv, KeptInv
<1>3. combined' \in Seq(Pass) /\ \A i \in DOMAIN combined' : PassOK(combined'[i])
  <2>1. combined \in Seq(Pass) /\ \A i \in DOMAIN combined : PassOK(combined[i])
    BY <1>1 DEF TypeOK
  <2>2. \A i \in DOMAIN found[t] : PassOK(found[t][i])
    BY <1>1 DEF FoundInv
  <2> QED BY <1>1, <2>1, <2>2 DEF Collect, PassOK
<1>4. TypeOK'
  <2> USE DEF Collect, scanVars, filterVars
  <2>1. phase' = phase /\ at' = at /\ cur' = cur /\ found' = found /\ kept' = kept /\ left' = {}
    BY <1>2
  <2>2. got' \subseteq Task
    BY <1>1 DEF TypeOK
  <2> QED BY <1>1, <1>3, <2>1, <2>2 DEF TypeOK
<1>5. PeakKnown' /\ OpenInv' /\ FoundInv'
  BY DEF Collect, scanVars, IInv, ScanInv, PeakKnown, OpenInv, FoundInv, PassOK
<1>6. FilterInv'
  BY FilterIdle DEF Collect
<1> QED BY <1>4, <1>5, <1>6 DEF IInv, ScanInv

\* Steps that leave scans and collected passes alone.
LEMMA ScanKept ==
  ASSUME IInv, UNCHANGED <<scanVars, got, combined>>,
         phase' \in {"scan", "filter", "written", "failed"},
         left' \subseteq DOMAIN combined, kept' \in Seq(Pass)
  PROVE  ScanInv'
BY DEF scanVars, IInv, ScanInv, TypeOK, PeakKnown, OpenInv, FoundInv, PassOK

LEMMA FailStep == ASSUME IInv, NEW t \in Task, ScanFails(t) PROVE IInv'
<1>1. left' \subseteq DOMAIN combined /\ kept' \in Seq(Pass)
  BY DEF ScanFails, filterVars, IInv, ScanInv, TypeOK
<1>2. ScanInv'
  BY <1>1, ScanKept DEF ScanFails
<1> QED BY <1>2, FilterIdle DEF ScanFails, IInv

-----------------------------------------------------------------------------
LEMMA CollectedStep == ASSUME IInv, AllCollected PROVE IInv'
<1>1. kept' = <<>> /\ Considered' = {}
  BY DEF AllCollected, IInv, FilterInv, KeptInv, Considered
<1>2. FilterInv'
  BY <1>1 DEF AllCollected, FilterInv, KeptInv, Disjoint, BestKept, DropsJustified
<1>3. left' \subseteq DOMAIN combined /\ kept' \in Seq(Pass)
  BY <1>1 DEF AllCollected
<1> QED BY <1>2, <1>3, ScanKept DEF AllCollected, IInv

LEMMA ExportStep == ASSUME IInv, Export PROVE IInv'
<1>1. left' \subseteq DOMAIN combined /\ kept' \in Seq(Pass)
  BY DEF Export, filterVars, IInv, ScanInv, TypeOK
<1>2. ScanInv'
  BY <1>1, ScanKept DEF Export
<1>3. Considered' = Considered
  BY DEF Export, filterVars, Considered
<1>4. FilterInv'
  BY <1>3 DEF Export, filterVars, IInv, FilterInv, KeptInv, Disjoint, BestKept,
              DropsJustified, Justified
<1> QED BY <1>2, <1>4 DEF IInv

\* One round of the filter.  The last pass kept starts no later than the one
\* considered, so the two overlap unless it has ended by then.
LEMMA ConsiderStep == ASSUME IInv, NEW i \in left, Consider(i) PROVE IInv'
<1> DEFINE p == combined[i]
<1>1. /\ combined \in Seq(Pass) /\ kept \in Seq(Pass) /\ left \subseteq DOMAIN combined
      /\ \A j \in DOMAIN combined : PassOK(combined[j])
  BY DEF IInv, ScanInv, TypeOK
<1>2. Considered = DOMAIN combined \ left /\ Considered' = Considered \cup {i} /\ i \notin Considered
  BY <1>1 DEF Consider, Considered
<1>3. PassOK(p) /\ \A k \in DOMAIN kept : PassOK(kept[k]) /\ kept[k].start <= p.start
  BY <1>1, <1>2 DEF IInv, FilterInv, KeptInv
<1>4. \A j \in left' : p.start <= combined[j].start
  <2>1. \A j \in left : Before(i, j)
    BY DEF Consider
  <2>2. combined[i].start \in Int /\ \A j \in left : combined[j].start \in Int
    BY <1>1 DEF PassOK, Pass
  <2>3. ASSUME NEW j \in left
        PROVE  combined[i].start <= combined[j].start
    BY <2>1, <2>2 DEF Before
  <2> QED BY <2>3 DEF Consider
<1>5. UNCHANGED <<phase, scanVars, got, combined>> /\ left' = left \ {i} /\ phase = "filter"
  BY DEF Consider
<1>6. ASSUME kept' \in Seq(Pass),
             \A k \in DOMAIN kept' : kept'[k] = p \/ \E l \in DOMAIN kept : kept'[k] = kept[l]
      PROVE  KeptInv'
  <2>1. ASSUME NEW k \in DOMAIN kept'
        PROVE  /\ \E j \in Considered' : kept'[k] = combined'[j]
               /\ \A j \in left' : kept'[k].start <= combined'[j].start
    <3>1. CASE kept'[k] = p
      BY <1>2, <1>4, <1>5, <3>1
    <3>2. CASE \E l \in DOMAIN kept : kept'[k] = kept[l]
      <4>1. PICK l \in DOMAIN kept : kept'[k] = kept[l]
        BY <3>2
      <4>2. /\ \E j \in Considered : kept[l] = combined[j]
            /\ \A j \in left : kept[l].start <= combined[j].start
        BY DEF IInv, FilterInv, KeptInv
      <4> QED BY <1>2, <1>5, <4>1, <4>2
    <3> QED BY <1>6, <2>1, <3>1, <3>2
  <2> QED BY <1>5, <2>1 DEF KeptInv
<1>7. ASSUME kept' \in Seq(Pass) PROVE ScanInv'
  BY <1>1, <1>5, <1>7, ScanKept
<1> HIDE DEF p
<1> DEFINE n == Len(kept)
<1>8. kept # <<>> => n \in DOMAIN kept /\ Last = kept[n]
  BY <1>1 DEF Last
<1>9. ASSUME InConflict(p)
      PROVE  /\ kept # <<>> /\ n \in DOMAIN kept /\ Last = kept[n]
             /\ Last.start < p.end /\ p.start < Last.end
  BY <1>8, <1>9 DEF InConflict, Overlap
<1>10. Disjoint /\ BestKept /\ DropsJustified
  BY DEF IInv, FilterInv
<1>11. CASE ~InConflict(p) /\ kept' = Append(kept, p)
  <2>1. /\ kept' \in Seq(Pass) /\ Len(kept') = n + 1 /\ kept'[n + 1] = p
        /\ \A k \in DOMAIN kept : k \in DOMAIN kept' /\ kept'[k] = kept[k]
        /\ \A k \in DOMAIN kept' : k \in DOMAIN kept \/ k = n + 1
        /\ DOMAIN kept = 1..n /\ n \in Nat /\ DOMAIN kept' = 1..n+1
    BY <1>1, <1>3, <1>11 DEF PassOK
  <2>2. ASSUME NEW k \in DOMAIN kept
        PROVE  kept[k].end <= p.start
    <3>1. kept # <<>> /\ n \in DOMAIN kept /\ Last = kept[n]
      BY <1>8, <2>1, <2>2
    <3>2. PassOK(kept[n]) /\ kept[n].start <= p.start /\ PassOK(kept[k])
      BY <1>3, <2>2, <3>1
    <3>3. kept[n].end <= p.start
      BY <1>3, <1>11, <3>1, <3>2, SMTT(30) DEF InConflict, Overlap, PassOK, Pass
    <3>4. k = n \/ k < n
      BY <2>1, <2>2
    <3>5. k < n => kept[k].end <= kept[n].start
      BY <1>10, <2>2, <3>1 DEF Disjoint
    <3> QED BY <1>3, <3>2, <3>3, <3>4, <3>5, SMTT(30) DEF PassOK, Pass
  <2>3. Disjoint'
    <3> SUFFICES ASSUME NEW k \in DOMAIN kept', NEW l \in DOMAIN kept', k < l
                 PROVE  kept'[k].end <= kept'[l].start
      BY DEF Disjoint
    <3>1. k \in DOMAIN kept
      BY <2>1
    <3>2. CASE l = n + 1
      BY <2>1, <2>2, <3>1, <3>2
    <3>3. CASE l \in DOMAIN kept
      BY <1>10, <2>1, <3>1, <3>3 DEF Disjoint
    <3> QED BY <2>1, <3>2, <3>3
  <2>4. BestKept'
    <3>1. ASSUME NEW j \in Considered
          PROVE  \E k \in DOMAIN kept' : kept'[k].max >= combined[j].max
      BY <1>10, <2>1 DEF BestKept
    <3>2. \E k \in DOMAIN kept' : kept'[k].max >= p.max
      <4>1. n + 1 \in DOMAIN kept' /\ p.max \in Int
        BY <1>3, <2>1 DEF PassOK, Pass
      <4> QED BY <2>1, <4>1
    <3> QED BY <1>2, <1>5, <3>1, <3>2 DEF BestKept, p
  <2>5. DropsJustified'
    <3>1. ASSUME NEW j \in Considered
          PROVE  Justified(j)'
      BY <1>2, <1>5, <1>10, <2>1 DEF DropsJustified, Justified
    <3>2. Justified(i)'
      BY <1>5, <2>1 DEF Justified, p
    <3> QED BY <1>2, <3>1, <3>2 DEF DropsJustified
  <2> QED BY <1>6, <1>7, <2>1, <2>3, <2>4, <2>5 DEF IInv, FilterInv
<1>12. CASE InConflict(p) /\ Higher(p, Last) /\ kept' = [kept EXCEPT ![Len(kept)] = p]
  <2>1. /\ kept' \in Seq(Pass) /\ DOMAIN kept' = DOMAIN kept /\ kept'[n] = p
        /\ n \in DOMAIN kept /\ DOMAIN kept = 1..n /\ n \in Nat
        /\ \A k \in DOMAIN kept \ {n} : kept'[k] = kept[k]
    BY <1>1, <1>3, <1>9, <1>12 DEF PassOK
  <2>2. PassOK(kept[n]) /\ p.max > kept[n].max /\ kept[n].start <= p.start
    BY <1>3, <1>9, <1>12 DEF Higher
  <2>3. Disjoint'
    <3> SUFFICES ASSUME NEW k \in DOMAIN kept', NEW l \in DOMAIN kept', k < l
                 PROVE  kept'[k].end <= kept'[l].start
      BY DEF Disjoint
    <3>1. k \in DOMAIN kept /\ k # n /\ kept[k].end <= kept[l].start
      BY <1>10, <2>1 DEF Disjoint
    <3>2. CASE l = n
      BY <1>3, <2>1, <2>2, <3>1, <3>2, SMTT(30) DEF PassOK, Pass
    <3>3. CASE l # n
      BY <2>1, <3>1, <3>3
    <3> QED BY <3>2, <3>3
  <2>4. BestKept'
    <3>1. ASSUME NEW j \in Considered
          PROVE  \E k \in DOMAIN kept' : kept'[k].max >= combined[j].max
      <4>1. PICK k \in DOMAIN kept : kept[k].max >= combined[j].max
        BY <1>10 DEF BestKept
      <4>2. CASE k # n
        BY <2>1, <4>1, <4>2
      <4>3. CASE k = n
        <5>1. j \in DOMAIN combined
          BY <1>2
        <5>2. combined[j].max \in Int /\ kept[n].max \in Int /\ p.max \in Int
          BY <1>1, <1>3, <2>2, <5>1 DEF PassOK, Pass
        <5> QED BY <2>1, <2>2, <4>1, <4>3, <5>2
      <4> QED BY <4>2, <4>3
    <3>2. \E k \in DOMAIN kept' : kept'[k].max >= p.max
      BY <1>3, <2>1, SMTT(30) DEF PassOK, Pass
    <3> QED BY <1>2, <1>5, <3>1, <3>2 DEF BestKept, p
  <2>5. DropsJustified'
    <3>1. ASSUME NEW j \in Considered
          PROVE  Justified(j)'
      <4>1. CASE \E k \in DOMAIN kept : kept[k] = combined[j]
        <5>1. PICK k \in DOMAIN kept : kept[k] = combined[j]
          BY <4>1
        <5>2. CASE k # n
          BY <1>5, <2>1, <5>1, <5>2 DEF Justified
        <5>3. CASE k = n
          <6>1. /\ i \in Considered' \ {j}
                /\ combined[j].start < p.end /\ p.start < combined[j].end
            BY <1>2, <1>9, <1>12, <5>1, <5>3
          <6>2. p.max >= combined[j].max
            BY <1>3, <2>2, <5>1, <5>3 DEF PassOK, Pass
          <6> QED BY <1>5, <6>1, <6>2 DEF Justified, p
        <5> QED BY <5>2, <5>3
      <4>2. CASE ~\E k \in DOMAIN kept : kept[k] = combined[j]
        BY <1>2, <1>5, <1>10, <4>2 DEF DropsJustified, Justified
      <4> QED BY <4>1, <4>2
    <3>2. Justified(i)'
      BY <1>5, <2>1 DEF Justified, p
    <3> QED BY <1>2, <3>1, <3>2 DEF DropsJustified
  <2>6. \A k \in DOMAIN kept' : kept'[k] = p \/ \E l \in DOMAIN kept : kept'[k] = kept[l]
    BY <2>1
  <2> QED BY <1>6, <1>7, <2>1, <2>3, <2>4, <2>5, <2>6 DEF IInv, FilterInv
<1>13. CASE InConflict(p) /\ ~Higher(p, Last) /\ kept' = kept
  <2>1. n \in DOMAIN kept /\ kept[n].start < p.end /\ p.start < kept[n].end
    BY <1>9, <1>13
  <2>2. kept[n].max >= p.max
    BY <1>3, <1>9, <1>13 DEF Higher, PassOK, Pass
  <2>3. Disjoint'
    BY <1>10, <1>13 DEF Disjoint
  <2>4. BestKept'
    BY <1>2, <1>5, <1>10, <1>13, <2>1, <2>2 DEF BestKept, p
  <2>5. DropsJustified'
    <3>1. ASSUME NEW j \in Considered
          PROVE  Justified(j)'
      BY <1>2, <1>5, <1>10, <1>13 DEF DropsJustified, Justified
    <3>2. PICK j \in Considered : kept[n] = combined[j]
      BY <2>1 DEF IInv, FilterInv, KeptInv
    <3>3. Justified(i)'
      BY <1>2, <1>5, <2>1, <2>2, <3>2 DEF Justified, p
    <3> QED BY <1>2, <3>1, <3>3 DEF DropsJustified
  <2> QED BY <1>1, <1>6, <1>7, <1>13, <2>3, <2>4, <2>5 DEF IInv, FilterInv
<1> QED BY <1>11, <1>12, <1>13 DEF Consider, p

-----------------------------------------------------------------------------
LEMMA Stuttering == ASSUME IInv, UNCHANGED vars PROVE IInv'
<1>1. UNCHANGED <<phase, scanVars, got, combined, filterVars>>
  BY DEF vars
<1>2. left' \subseteq DOMAIN combined /\ kept' \in Seq(Pass)
      /\ phase' \in {"scan", "filter", "written", "failed"}
  BY <1>1 DEF filterVars, IInv, ScanInv, TypeOK
<1>3. ScanInv'
  BY <1>1, <1>2, ScanKept
<1>4. Considered' = Considered
  BY <1>1 DEF filterVars, Considered
<1>5. FilterInv'
  BY <1>1, <1>4 DEF filterVars, IInv, FilterInv, KeptInv, Disjoint, BestKept,
              DropsJustified, Justified
<1> QED BY <1>3, <1>5 DEF IInv

LEMMA StepInv == IInv /\ [Next]_vars => IInv'
<1> SUFFICES ASSUME IInv, [Next]_vars PROVE IInv'
  OBVIOUS
<1>1. CASE UNCHANGED vars
  BY <1>1, Stuttering
<1>2. ASSUME NEW t \in Task, Scan(t)
      PROVE  IInv'
  BY <1>2, BeginStep, CollectStep, FailStep, RiseStep, FollowStep, SetStep, BelowStep DEF Scan
<1>3. CASE AllCollected
  BY <1>3, CollectedStep
<1>4. ASSUME NEW i \in left, Consider(i)
      PROVE  IInv'
  BY <1>4, ConsiderStep
<1>5. CASE Export
  BY <1>5, ExportStep
<1> QED BY <1>1, <1>2, <1>3, <1>4, <1>5 DEF Next

\* The inductive invariant holds throughout the script.
THEOREM InvariantHolds == Spec => []IInv
BY InitInv, StepInv, PTL DEF Spec

\* The search, the collection and the filter of bqe_schedule_passes keep every
\* variable in its type, and every pass ends after it starts.
THEOREM TypeCorrect == Spec => []TypeOK
<1>1. IInv => TypeOK
  BY DEF IInv, ScanInv
<1> QED BY <1>1, InvariantHolds, PTL

\* The schedule is in order and no two passes of it overlap, whatever was found
\* and in whatever order it was collected.
THEOREM DisjointSafe == Spec => []Disjoint
<1>1. IInv => Disjoint
  BY DEF IInv, FilterInv
<1> QED BY <1>1, InvariantHolds, PTL

\* The filter keeps a pass at least as high as each one it has considered.
THEOREM BestSafe == Spec => []BestKept
<1>1. IInv => BestKept
  BY DEF IInv, FilterInv
<1> QED BY <1>1, InvariantHolds, PTL

\* The filter drops a pass only for another that it overlaps and that is not lower.
THEOREM JustifiedSafe == Spec => []DropsJustified
<1>1. IInv => DropsJustified
  BY DEF IInv, FilterInv
<1> QED BY <1>1, InvariantHolds, PTL

\* The maximum of a pass is known to half a degree in spite of the mixed
\* comparisons of get_upcoming_passes.
THEOREM PeakSafe == Spec => []PeakKnown
<1>1. IInv => PeakKnown
  BY DEF IInv, ScanInv
<1> QED BY <1>1, InvariantHolds, PTL

\* get_upcoming_passes returns every pass that reaches a minimum elevation of
\* whole degrees and sets within the scan.
THEOREM MissedSafe == Spec => NoneMissed
<1>1. ASSUME IInv, NEW t \in Task, NEW a \in Alts,
             Set(t, a), MinEl % 10 = 0, cur[t].top >= MinEl
      PROVE  Len(found'[t]) = Len(found[t]) + 1
  <2>1. HighEnough(cur[t].max)
    BY <1>1, OpenFacts DEF Set, OpenOK, HighEnough
  <2>2. found \in [Task -> Seq(Pass)]
    BY <1>1 DEF IInv, ScanInv, TypeOK
  <2>3. found'[t] = Append(found[t], Closed(t))
    BY <1>1, <2>1, <2>2 DEF Set
  <2> QED BY <2>2, <2>3
<1>2. IInv => [\A t \in Task, a \in Alts :
       Set(t, a) /\ MinEl % 10 = 0 /\ cur[t].top >= MinEl
         => Len(found'[t]) = Len(found[t]) + 1]_vars
  BY <1>1
<1> QED BY <1>2, InvariantHolds, PTL DEF NoneMissed
=============================================================================
