---------------------------- MODULE IGateProofs ----------------------------
(***************************************************************************)
(* Theorems about IGate: the types of the model, what may be uploaded, and *)
(* what a closed gate shows, for any number of gates, any sizes and any    *)
(* times.                                                                  *)
(***************************************************************************)
EXTENDS IGate, TLAPS

\* Where a gate's thread has no connection, it has no settings of one and an
\* empty queue.
Apart == {"none", "lock", "top", "connect", "login", "release", "dead"}
Joined == {"verified", "live"}

LinkInv ==
    \A g \in Gate :
        /\ thread[g] \in Apart => config[g] = 0 /\ queue[g] = <<>>
        /\ thread[g] = "drain" => config[g] = 0
        /\ thread[g] \in {"connect", "login"} => used[g] # 0
        /\ thread[g] \in Joined =>
              /\ config[g] = used[g]
              /\ \A i \in DOMAIN queue[g] : queue[g][i].live /\ queue[g][i].by = used[g]
        /\ thread[g] = "wait" /\ state[g] = "connected" => closing[g] # "no"

\* What recent remembers of a packet is no older than any copy that waits or was
\* uploaded; what it has forgotten is older than Memory.
Known(g, k, t) ==
    IF recent[g][k] = 0 THEN now - t > Memory ELSE t <= recent[g][k]

CopyInv ==
    \A g \in Gate :
        /\ \A k \in Key : last[g][k] # 0 => Known(g, k, last[g][k])
        /\ \A i \in DOMAIN queue[g] :
              /\ Known(g, queue[g][i].key, queue[g][i].at)
              /\ last[g][queue[g][i].key] # 0 =>
                    queue[g][i].at - last[g][queue[g][i].key] > Memory
              /\ \A j \in DOMAIN queue[g] :
                    i < j /\ queue[g][i].key = queue[g][j].key =>
                        queue[g][j].at - queue[g][i].at > Memory
        /\ \A k \in Key : recent[g][k] <= now

\* A closed gate's thread can only end, or fail quietly.
CloseInv ==
    \A g \in Gate :
        /\ closing[g] # "no" <=> stop[g]
        /\ closing[g] = "done" =>
              /\ state[g] = "stopped"
              /\ thread[g] \notin {"lock", "verified", "live"}

IInv == TypeOK /\ LinkInv /\ CopyInv /\ CloseInv /\ OnlyLive /\ NoDuplicate
-----------------------------------------------------------------------------
LEMMA Start == ASSUME Init PROVE IInv
<1> USE IGateAssumption DEF Init
<1>1. TypeOK
  <2>0. << >> \in Seq(Packet) /\ Len(<< >>) = 0 /\ Depth \in Nat
    OBVIOUS
  <2>1. \A g \in Gate : queue[g] = << >>
    OBVIOUS
  <2>2. queue \in [Gate -> Seq(Packet)]
    BY <2>0
  <2>3. now \in Time
    BY DEF Time
  <2> QED
    BY <2>0, <2>1, <2>2, <2>3 DEF TypeOK, Label
<1>2. LinkInv
  BY DEF LinkInv, Apart, Joined
<1>3. CopyInv
  <2>1. \A g \in Gate : queue[g] = << >>
    OBVIOUS
  <2>2. \A g \in Gate, k \in Key : last[g][k] = 0 /\ recent[g][k] = 0
    OBVIOUS
  <2>3. DOMAIN << >> = {} /\ now = 1
    OBVIOUS
  <2> QED
    <3> SUFFICES ASSUME NEW g \in Gate PROVE CopyInv!(g)
      BY DEF CopyInv
    <3>1. DOMAIN queue[g] = {}
      BY ONLY <2>1, <2>3, g \in Gate
    <3>2. \A k \in Key : last[g][k] = 0 /\ recent[g][k] = 0
      BY <2>2
    <3> QED
      BY ONLY <2>3, <3>1, <3>2
<1> QED
  BY <1>1, <1>2, <1>3 DEF IInv, CloseInv, OnlyLive, NoDuplicate

\* What Submit appends, with the recent entries it has pruned.
Heard(g, k) == [at |-> now, key |-> k, by |-> config[g], live |-> TRUE]

LEMMA HeardPacket ==
  ASSUME TypeOK, NEW g \in Gate, NEW k \in Key, config[g] # 0
  PROVE  Heard(g, k) \in Packet
BY DEF TypeOK, Heard, Packet, Verified

LEMMA PrunedType ==
  ASSUME TypeOK, NEW g \in Gate
  PROVE  Pruned(g) \in [Key -> Time \cup {0}]
BY DEF TypeOK, Pruned

\* Forgetting what is older than Memory loses nothing that matters.
LEMMA PrunedKnown ==
  ASSUME IInv, NEW g \in Gate, NEW k \in Key, NEW t \in Time, Known(g, k, t)
  PROVE  IF Pruned(g)[k] = 0 THEN now - t > Memory ELSE t <= Pruned(g)[k]
<1>1. /\ recent[g][k] \in Nat /\ t \in Nat /\ now \in Nat /\ Memory \in Nat
      /\ Pruned(g)[k] = IF recent[g][k] # 0 /\ now - recent[g][k] > Memory THEN 0
                        ELSE recent[g][k]
  BY IGateAssumption DEF IInv, TypeOK, Time, Pruned
<1> QED
  BY <1>1 DEF Known

\* TypeOK is kept by the steps of a thread and of the operator that leave the
\* queues alone.
LEMMA PlainTypes ==
  ASSUME TypeOK, NEW g \in Gate,
         \/ InputReady(g) \/ Close(g) \/ Closed(g) \/ TakeLock(g) \/ ReadSettings(g)
         \/ Connect(g) \/ LoggedIn(g) \/ ShowConnected(g) \/ Fail(g) \/ Waited(g)
         \/ LeaveLoop(g) \/ Release(g)
  PROVE  TypeOK'
<1> USE DEF TypeOK, Goto, Shows, files, marks, Label
<1>1. CASE InputReady(g) \/ Close(g) \/ Closed(g)
  BY <1>1 DEF InputReady, Close, Closed
<1>2. CASE TakeLock(g) \/ Release(g)
  BY <1>2 DEF TakeLock, Release
<1>3. CASE ReadSettings(g)
  BY <1>3 DEF ReadSettings
<1>4. CASE Connect(g) \/ LoggedIn(g) \/ ShowConnected(g)
  BY <1>4, ZenonT(60) DEF Connect, LoggedIn, ShowConnected
<1>5. CASE Fail(g)
  BY <1>5 DEF Fail
<1>6. CASE Waited(g) \/ LeaveLoop(g)
  BY <1>6 DEF Waited, LeaveLoop
<1> QED
  BY <1>1, <1>2, <1>3, <1>4, <1>5, <1>6

\* The steps that touch neither the queues nor what is remembered.
LEMMA PlainCopies ==
  ASSUME CopyInv, UNCHANGED <<now, queue, recent, last>>
  PROVE  CopyInv'
BY DEF CopyInv, Known

LEMMA PlainStep ==
  ASSUME IInv, NEW g \in Gate,
         \/ InputReady(g) \/ Close(g) \/ Closed(g) \/ TakeLock(g) \/ ReadSettings(g)
         \/ Connect(g) \/ LoggedIn(g) \/ ShowConnected(g) \/ Fail(g) \/ Waited(g)
         \/ LeaveLoop(g) \/ Release(g)
  PROVE  IInv'
<1>1. TypeOK'
  BY PlainTypes DEF IInv
<1>2. UNCHANGED <<now, queue, recent, last, faults>>
  BY DEF InputReady, Close, Closed, TakeLock, ReadSettings, Connect, LoggedIn,
     ShowConnected, Fail, Waited, LeaveLoop, Release, files, marks
<1>3. CopyInv' /\ OnlyLive' /\ NoDuplicate'
  BY <1>2, PlainCopies DEF IInv, OnlyLive, NoDuplicate
<1> USE DEF IInv, TypeOK, Goto, Shows, files, marks, LinkInv, CloseInv, Apart, Joined
<1>4. CASE InputReady(g)
  BY <1>1, <1>3, <1>4 DEF InputReady
<1>5. CASE Close(g)
  BY <1>1, <1>3, <1>5 DEF Close
<1>6. CASE Closed(g)
  BY <1>1, <1>3, <1>6 DEF Closed
<1>7. CASE TakeLock(g)
  <2>1. thread[g] = "lock" /\ closing[g] # "done"
    BY <1>7 DEF TakeLock
  <2>2. LinkInv'
    BY <1>7 DEF TakeLock
  <2>3. CloseInv'
    BY <1>7, <2>1 DEF TakeLock
  <2> QED
    BY <1>1, <1>3, <2>2, <2>3
<1>8. CASE ReadSettings(g)
  BY <1>1, <1>3, <1>8 DEF ReadSettings
<1>9. CASE Connect(g)
  BY <1>1, <1>3, <1>9 DEF Connect
<1>10. CASE LoggedIn(g)
  BY <1>1, <1>3, <1>10 DEF LoggedIn
<1>11. CASE ShowConnected(g)
  BY <1>1, <1>3, <1>11 DEF ShowConnected
<1>12. CASE Fail(g)
  BY <1>1, <1>3, <1>12 DEF Fail
<1>13. CASE Waited(g)
  BY <1>1, <1>3, <1>13 DEF Waited
<1>14. CASE LeaveLoop(g)
  BY <1>1, <1>3, <1>14 DEF LeaveLoop
<1>15. CASE Release(g)
  BY <1>1, <1>3, <1>15 DEF Release
<1> QED
  BY <1>4, <1>5, <1>6, <1>7, <1>8, <1>9, <1>10, <1>11, <1>12, <1>13, <1>14, <1>15

LEMMA AppendFacts ==
  ASSUME NEW S, NEW q \in Seq(S), NEW e \in S
  PROVE  /\ Append(q, e) \in Seq(S)
         /\ Len(Append(q, e)) = Len(q) + 1 /\ Len(q) \in Nat
         /\ \A i \in DOMAIN Append(q, e) :
              \/ i \in DOMAIN q /\ i < Len(q) + 1 /\ Append(q, e)[i] = q[i]
              \/ i = Len(q) + 1 /\ Append(q, e)[i] = e
OBVIOUS

\* A packet is queued: only by a connection that is up, and only when no copy of
\* it is remembered.
LEMMA SubmitStep == ASSUME IInv, NEW g \in Gate, NEW k \in Key, Submit(g, k) PROVE IInv'
<1> DEFINE q == queue[g]
           qn == queue'[g]
           n == Len(q) + 1
<1>1. /\ closing[g] = "no" /\ config[g] # 0 /\ state[g] = "connected"
      /\ recent' = [recent EXCEPT ![g] = recent'[g]]
      /\ queue' = [queue EXCEPT ![g] = qn]
      /\ UNCHANGED <<now, saved, edits, owner, thread, used, stop, closing, state, config,
                     last, faults>>
  BY DEF Submit, files, marks, IInv, TypeOK
<1>2. \/ /\ Pruned(g)[k] = 0 /\ Len(q) < Depth
         /\ qn = Append(q, Heard(g, k))
         /\ recent'[g] = [Pruned(g) EXCEPT ![k] = now]
      \/ /\ qn = q
         /\ recent'[g] = Pruned(g)
  BY DEF Submit, Heard, IInv, TypeOK
<1>3. /\ Heard(g, k) \in Packet /\ Pruned(g) \in [Key -> Time \cup {0}]
      /\ q \in Seq(Packet) /\ Len(q) <= Depth /\ now \in Time
      /\ now \in Nat /\ now # 0
  BY <1>1, HeardPacket, PrunedType DEF IInv, TypeOK, Time
<1>4. TypeOK'
  <2>1. qn \in Seq(Packet) /\ Len(qn) <= Depth
    <3>1. CASE qn = q
      BY <1>3, <3>1
    <3>2. CASE qn = Append(q, Heard(g, k)) /\ Len(q) < Depth
      BY ONLY <1>3, <3>2, AppendFacts, IGateAssumption
    <3> QED
      BY <1>2, <3>1, <3>2
  <2>2. recent'[g] \in [Key -> Time \cup {0}]
    BY ONLY <1>2, <1>3
  <2> HIDE DEF qn
  <2>3. queue' \in [Gate -> Seq(Packet)] /\ recent' \in [Gate -> [Key -> Time \cup {0}]]
    BY <1>1, <2>1, <2>2 DEF IInv, TypeOK
  <2>4. \A h \in Gate : Len(queue'[h]) <= Depth
    BY <1>1, <2>1 DEF IInv, TypeOK
  <2> QED
    BY <1>1, <2>3, <2>4 DEF IInv, TypeOK
<1>5. \A i \in DOMAIN qn :
         \/ i \in DOMAIN q /\ i < n /\ qn[i] = q[i]
         \/ i = n /\ qn[i] = Heard(g, k) /\ Pruned(g)[k] = 0 /\ recent'[g][k] = now
  <2>1. CASE qn = q
    <3>1. \A i \in DOMAIN q : i < n
      BY <1>3
    <3> QED
      BY ONLY <2>1, <3>1
  <2>2. CASE /\ qn = Append(q, Heard(g, k)) /\ Pruned(g)[k] = 0
             /\ recent'[g] = [Pruned(g) EXCEPT ![k] = now]
    <3>1. recent'[g][k] = now
      BY ONLY <1>3, <2>2, k \in Key
    <3> QED
      BY ONLY <1>3, <2>2, <3>1, AppendFacts
  <2> QED
    BY <1>2, <2>1, <2>2
<1>6. LinkInv'
  <2>1. thread[g] \notin Apart \cup {"drain", "wait"}
    BY <1>1 DEF LinkInv, IInv
  <2>2. ASSUME thread[g] \in Joined, NEW i \in DOMAIN qn
        PROVE  qn[i].live /\ qn[i].by = used[g]
    <3>1. /\ \A j \in DOMAIN q : q[j].live /\ q[j].by = used[g]
          /\ config[g] = used[g]
      BY <2>2 DEF LinkInv, IInv
    <3>2. Heard(g, k).live /\ Heard(g, k).by = config[g]
      BY DEF Heard
    <3> QED
      BY ONLY <1>5, <2>2, <3>1, <3>2
  <2>3. \A h \in Gate \ {g} : queue'[h] = queue[h]
    BY <1>1 DEF IInv, TypeOK
  <2> QED
    BY <1>1, <2>1, <2>2, <2>3 DEF LinkInv, IInv
<1>7. CopyInv'
  <2> DEFINE K(x, t) == IF recent'[g][x] = 0 THEN now - t > Memory ELSE t <= recent'[g][x]
  <2>1. \A h \in Gate \ {g} : queue'[h] = queue[h] /\ recent'[h] = recent[h]
    BY <1>1 DEF IInv, TypeOK
  <2>2. now' = now /\ last' = last
    BY <1>1
  <2>3. \A x \in Key, t \in Time : Known(g, x, t) =>
           /\ t <= now
           /\ Pruned(g)[x] = 0 => now - t > Memory
           /\ K(x, t)
    <3> SUFFICES ASSUME NEW x \in Key, NEW t \in Time, Known(g, x, t)
                 PROVE  /\ t <= now
                        /\ Pruned(g)[x] = 0 => now - t > Memory
                        /\ K(x, t)
      OBVIOUS
    <3>1. IF Pruned(g)[x] = 0 THEN now - t > Memory ELSE t <= Pruned(g)[x]
      BY PrunedKnown
    <3>2. recent'[g][x] = Pruned(g)[x] \/ recent'[g][x] = now
      BY ONLY <1>2, <1>3, x \in Key
    <3>3. t \in Nat /\ recent[g][x] \in Nat /\ Memory \in Nat /\ recent[g][x] <= now
      BY IGateAssumption DEF Time, CopyInv, IInv, TypeOK
    <3>4. t <= now
      BY ONLY <1>3, <3>3, Known(g, x, t) DEF Known
    <3> QED
      BY ONLY <1>3, <3>1, <3>2, <3>4
  <2>4. \A x \in Key : last[g][x] # 0 => last[g][x] \in Time /\ Known(g, x, last[g][x])
    BY DEF IInv, TypeOK, CopyInv
  <2>5. \A i \in DOMAIN q : /\ q[i].key \in Key /\ q[i].at \in Time
                            /\ Known(g, q[i].key, q[i].at)
                            /\ last[g][q[i].key] # 0 => q[i].at - last[g][q[i].key] > Memory
                            /\ \A j \in DOMAIN q : i < j /\ q[i].key = q[j].key =>
                                  q[j].at - q[i].at > Memory
    <3>1. \A i \in DOMAIN q : q[i] \in Packet
      BY <1>3
    <3> QED
      BY <3>1 DEF CopyInv, IInv, Packet
  <2>6. \A x \in Key : last[g][x] # 0 => K(x, last[g][x])
    BY <2>2, <2>3, <2>4
  <2>7. Heard(g, k).key = k /\ Heard(g, k).at = now
    BY DEF Heard
  <2>8. ASSUME NEW i \in DOMAIN qn
        PROVE  /\ K(qn[i].key, qn[i].at)
               /\ last[g][qn[i].key] # 0 => qn[i].at - last[g][qn[i].key] > Memory
               /\ \A j \in DOMAIN qn : i < j /\ qn[i].key = qn[j].key =>
                     qn[j].at - qn[i].at > Memory
    <3>1. CASE i \in DOMAIN q /\ i < n /\ qn[i] = q[i]
      <4> HIDE DEF q, qn, n, K
      <4>1. K(q[i].key, q[i].at)
        BY <2>3, <2>5, <3>1
      <4>2. ASSUME NEW j \in DOMAIN qn, i < j, qn[i].key = qn[j].key
            PROVE  qn[j].at - qn[i].at > Memory
        BY <1>5, <2>3, <2>5, <2>7, <3>1, <4>2
      <4> QED
        BY ONLY <2>5, <3>1, <4>1, <4>2
    <3>2. CASE i = n /\ qn[i] = Heard(g, k) /\ Pruned(g)[k] = 0 /\ recent'[g][k] = now
      <4>1. K(k, now)
        BY ONLY <1>3, <3>2
      <4>2. last[g][k] # 0 => now - last[g][k] > Memory
        BY <2>3, <2>4, <3>2
      <4>3. \A j \in DOMAIN qn : ~(i < j)
        <5>1. Len(q) \in Nat
          BY <1>3
        <5> HIDE DEF q, qn
        <5> QED
          BY ONLY <1>5, <3>2, <5>1
      <4> HIDE DEF q, qn, n, K
      <4> QED
        BY ONLY <2>7, <3>2, <4>1, <4>2, <4>3
    <3> QED
      BY <1>5, <3>1, <3>2
  <2>9. \A x \in Key : recent'[g][x] <= now
    <3>1. \A x \in Key : recent[g][x] \in Nat /\ recent[g][x] <= now
      BY DEF Time, CopyInv, IInv, TypeOK
    <3>2. \A x \in Key : Pruned(g)[x] <= now
      BY <1>3, <3>1 DEF Pruned
    <3>3. \A x \in Key : recent'[g][x] = Pruned(g)[x] \/ recent'[g][x] = now
      BY ONLY <1>2, <1>3
    <3> QED
      BY ONLY <1>3, <3>2, <3>3
  <2> HIDE DEF qn
  <2>10. \A h \in Gate \ {g} : \A x, t : Known(h, x, t)' = Known(h, x, t)
    BY <2>1, <2>2 DEF Known
  <2>11. \A x \in Key, t \in Time : Known(g, x, t)' = K(x, t)
    BY <2>2 DEF Known
  <2>12. CopyInv!(g)'
    <3>1. \A i \in DOMAIN qn : qn[i].key \in Key /\ qn[i].at \in Time
      BY <1>3, <1>5, <2>5, <2>7
    <3> HIDE DEF K
    <3> QED
      BY <2>2, <2>4, <2>6, <2>8, <2>9, <2>11, <3>1 DEF qn
  <2>13. ASSUME NEW h \in Gate \ {g} PROVE CopyInv!(h)'
    BY <2>1, <2>2, <2>10 DEF CopyInv, IInv
  <2> QED
    BY <2>12, <2>13 DEF CopyInv
<1>8. CloseInv' /\ OnlyLive' /\ NoDuplicate'
  BY <1>1 DEF CloseInv, OnlyLive, NoDuplicate, IInv
<1> QED
  BY <1>4, <1>6, <1>7, <1>8 DEF IInv

LEMMA TailFacts ==
  ASSUME NEW S, NEW q \in Seq(S), q # << >>
  PROVE  /\ Tail(q) \in Seq(S) /\ Len(Tail(q)) <= Len(q)
         /\ \A i \in DOMAIN Tail(q) : i \in Nat /\ i + 1 \in DOMAIN q /\ Tail(q)[i] = q[i + 1]
         /\ 1 \in DOMAIN q /\ Head(q) = q[1] /\ Head(q) \in S
         /\ \A i \in DOMAIN Tail(q) : i > 0
OBVIOUS

\* The oldest packet leaves the queue: every copy of it that is left came more
\* than Memory later, and none came before it so shortly.
LEMMA UploadStep == ASSUME IInv, NEW g \in Gate, Upload(g) PROVE IInv'
<1> DEFINE q == queue[g]
           qn == queue'[g]
           p == q[1]
<1>1. /\ thread[g] = "live" /\ q # << >>
      /\ queue' = [queue EXCEPT ![g] = qn] /\ qn = Tail(q) /\ Head(q) = p
      /\ UNCHANGED <<now, saved, edits, owner, thread, used, stop, closing, state, config, recent>>
  <2>1. Head(q) = p
    BY TailFacts DEF Upload, IInv, TypeOK
  <2> QED
    BY <2>1 DEF Upload, files, IInv, TypeOK
<1>2. /\ q \in Seq(Packet) /\ Len(q) <= Depth /\ p \in Packet
      /\ qn \in Seq(Packet) /\ Len(qn) <= Len(q) /\ Len(q) \in Nat /\ Len(qn) \in Nat
      /\ 1 \in DOMAIN q
      /\ \A i \in DOMAIN qn : i \in Nat /\ i > 0 /\ i + 1 \in DOMAIN q /\ qn[i] = q[i + 1]
  <2>1. q \in Seq(Packet) /\ Len(q) <= Depth
    BY DEF IInv, TypeOK
  <2> QED
    BY ONLY <1>1, <2>1, TailFacts
<1>3. p.key \in Key /\ p.at \in Time /\ p.at \in Nat
  BY <1>2 DEF Packet, Time
<1>4. faults' = faults
  <2>1. p.live /\ p.by = used[g]
    BY <1>1, <1>2 DEF IInv, LinkInv, Joined
  <2>2. last[g][p.key] # 0 => p.at - last[g][p.key] > Memory
    BY <1>2 DEF IInv, CopyInv
  <2>3. last[g][p.key] \in Nat /\ Memory \in Nat
    <3>1. last \in [Gate -> [Key -> Time \cup {0}]] /\ Time \subseteq Nat
      BY DEF IInv, TypeOK, Time
    <3> HIDE DEF p
    <3> QED
      BY <1>3, <3>1, IGateAssumption
  <2>4. \/ faults' = faults
        \/ faults' = faults
             \cup (IF last[g][p.key] # 0 /\ p.at - last[g][p.key] <= Memory
                   THEN {"twice"} ELSE {})
             \cup (IF p.live THEN {} ELSE {"replayed"})
             \cup (IF p.by = used[g] THEN {} ELSE {"foreign"})
    BY <1>1 DEF Upload, marks
  <2> HIDE DEF p
  <2>5. ~(last[g][p.key] # 0 /\ p.at - last[g][p.key] <= Memory)
    BY ONLY <1>3, <2>2, <2>3
  <2>6. faults' = faults \/ faults' = ((faults \cup {}) \cup {}) \cup {}
    BY ONLY <2>1, <2>4, <2>5
  <2> QED
    BY ONLY <2>6
<1>5. last' = last \/ last' = [last EXCEPT ![g][p.key] = p.at]
  BY <1>1 DEF Upload, marks
<1>6. last' \in [Gate -> [Key -> Time \cup {0}]]
  <2>1. last \in [Gate -> [Key -> Time \cup {0}]]
    BY DEF IInv, TypeOK
  <2> HIDE DEF p
  <2> QED
    BY ONLY <1>3, <1>5, <2>1
<1>7. TypeOK'
  <2>1. queue' \in [Gate -> Seq(Packet)] /\ \A h \in Gate : Len(queue'[h]) <= Depth
    <3>1. \A h \in Gate : queue'[h] = IF h = g THEN qn ELSE queue[h]
      BY <1>1 DEF IInv, TypeOK
    <3>2. DOMAIN queue' = Gate /\ queue' = [h \in Gate |-> queue'[h]]
      BY <1>1 DEF IInv, TypeOK
    <3>3. \A h \in Gate : queue[h] \in Seq(Packet) /\ Len(queue[h]) <= Depth
      BY DEF IInv, TypeOK
    <3>4. Len(qn) <= Depth
      BY <1>2, IGateAssumption
    <3> HIDE DEF q, qn
    <3>5. \A h \in Gate : queue'[h] \in Seq(Packet) /\ Len(queue'[h]) <= Depth
      BY ONLY <1>2, <3>1, <3>3, <3>4
    <3> QED
      BY ONLY <3>2, <3>5
  <2> QED
    BY <1>1, <1>4, <1>6, <2>1 DEF IInv, TypeOK
<1>8. LinkInv'
  <2>1. \A h \in Gate \ {g} : queue'[h] = queue[h]
    BY <1>1 DEF IInv, TypeOK
  <2>2. \A i \in DOMAIN qn : qn[i].live /\ qn[i].by = used[g]
    BY <1>1, <1>2 DEF IInv, LinkInv, Joined
  <2>3. thread[g] \notin Apart
    BY <1>1 DEF Apart
  <2>4. LinkInv!(g)'
    <3>1. LinkInv!(g)
      BY DEF IInv, LinkInv
    <3>2. UNCHANGED <<thread, used, closing, state, config>>
      BY <1>1
    <3> HIDE DEF q
    <3> QED
      BY ONLY <1>1, <2>2, <2>3, <3>1, <3>2 DEF qn
  <2>5. ASSUME NEW h \in Gate \ {g} PROVE LinkInv!(h)'
    BY <1>1, <2>1 DEF IInv, LinkInv
  <2> QED
    BY <2>4, <2>5 DEF LinkInv
<1>9. CopyInv'
  <2>1. \A h \in Gate \ {g} : queue'[h] = queue[h] /\ last'[h] = last[h]
    BY <1>1, <1>5 DEF IInv, TypeOK
  <2>2. \A h, x, t : Known(h, x, t)' = Known(h, x, t)
    BY <1>1 DEF Known
  <2>3. \A x \in Key : last'[g][x] = last[g][x] \/ (x = p.key /\ last'[g][x] = p.at)
    BY <1>3, <1>5 DEF IInv, TypeOK
  <2>4. CopyInv!(g)
    BY DEF IInv, CopyInv
  <2>5. Known(g, p.key, p.at)
    BY <1>2, <2>4
  <2>6. \A x \in Key : last'[g][x] # 0 => Known(g, x, last'[g][x])
    BY <2>3, <2>4, <2>5
  <2>7. ASSUME NEW i \in DOMAIN qn
        PROVE  /\ Known(g, qn[i].key, qn[i].at)
               /\ last'[g][qn[i].key] # 0 => qn[i].at - last'[g][qn[i].key] > Memory
               /\ \A j \in DOMAIN qn : i < j /\ qn[i].key = qn[j].key =>
                     qn[j].at - qn[i].at > Memory
    <3>1. i \in Nat /\ i > 0 /\ i + 1 \in DOMAIN q /\ qn[i] = q[i + 1] /\ 1 < i + 1
      BY <1>2
    <3>2. \A j \in DOMAIN qn : j \in Nat /\ j + 1 \in DOMAIN q /\ qn[j] = q[j + 1]
      BY <1>2
    <3>3. qn[i].key \in Key
      <4>1. qn[i] \in Packet
        BY <1>2
      <4> HIDE DEF qn
      <4> QED
        BY <4>1 DEF Packet
    <3>4. qn[i].key = p.key => qn[i].at - p.at > Memory
      BY <1>2, <2>4, <3>1
    <3> HIDE DEF qn
    <3>5. last'[g][qn[i].key] # 0 => qn[i].at - last'[g][qn[i].key] > Memory
      BY <2>3, <2>4, <3>1, <3>3, <3>4
    <3>6. \A j \in DOMAIN qn : i < j /\ qn[i].key = qn[j].key => qn[j].at - qn[i].at > Memory
      BY <2>4, <3>1, <3>2
    <3> QED
      BY <2>4, <3>1, <3>5, <3>6
  <2>8. CopyInv!(g)'
    BY <1>1, <2>2, <2>4, <2>6, <2>7
  <2>9. ASSUME NEW h \in Gate \ {g} PROVE CopyInv!(h)'
    BY <1>1, <2>1, <2>2 DEF CopyInv, IInv
  <2> QED
    BY <2>8, <2>9 DEF CopyInv
<1>10. CloseInv' /\ OnlyLive' /\ NoDuplicate'
  BY <1>1, <1>4 DEF CloseInv, OnlyLive, NoDuplicate, IInv
<1> QED
  BY <1>7, <1>8, <1>9, <1>10 DEF IInv

\* The connection goes: nothing may be queued for it any more, and what is left
\* in the queue is thrown away before the next one.
LEMMA HangUpStep == ASSUME IInv, NEW g \in Gate, HangUp(g) PROVE IInv'
<1> DEFINE q == queue[g]
           qn == [i \in DOMAIN q |-> [q[i] EXCEPT !.live = FALSE]]
<1>1. /\ thread[g] = "hangup" /\ thread' = [thread EXCEPT ![g] = "drain"]
      /\ config' = [config EXCEPT ![g] = 0]
      /\ state' = [state EXCEPT ![g] = IF state[g] = "connected" THEN "reconnecting"
                                       ELSE state[g]]
      /\ queue' = [queue EXCEPT ![g] = qn]
      /\ UNCHANGED <<now, saved, edits, owner, used, stop, closing, recent, last, faults>>
  BY DEF HangUp, Goto, files, marks, IInv, TypeOK
<1>2. /\ qn \in Seq(Packet) /\ Len(qn) = Len(q) /\ DOMAIN qn = DOMAIN q
      /\ \A i \in DOMAIN q : qn[i].key = q[i].key /\ qn[i].at = q[i].at
  <2>1. q \in Seq(Packet)
    BY DEF IInv, TypeOK
  <2>2. \A i \in DOMAIN q : [q[i] EXCEPT !.live = FALSE] \in Packet
    <3>1. \A i \in DOMAIN q : q[i] \in Packet
      BY <2>1
    <3> HIDE DEF q
    <3> QED
      BY <3>1 DEF Packet
  <2>3. Len(q) \in Nat /\ DOMAIN q = 1 .. Len(q)
    BY <2>1
  <2>4. \A i \in DOMAIN q : qn[i].key = q[i].key /\ qn[i].at = q[i].at
    <3>1. \A i \in DOMAIN q : q[i] \in Packet
      BY <2>1
    <3> HIDE DEF q
    <3> QED
      BY <3>1 DEF Packet
  <2> HIDE DEF q
  <2> QED
    BY <2>2, <2>3, <2>4
<1>3. \A h \in Gate \ {g} : queue'[h] = queue[h]
  BY <1>1 DEF IInv, TypeOK
<1>4. queue'[g] = qn
  BY <1>1 DEF IInv, TypeOK
<1>5. TypeOK'
  <2>1. queue' \in [Gate -> Seq(Packet)] /\ \A h \in Gate : Len(queue'[h]) <= Depth
    <3>1. DOMAIN queue' = Gate /\ queue' = [h \in Gate |-> queue'[h]]
      BY <1>1 DEF IInv, TypeOK
    <3>2. \A h \in Gate : queue[h] \in Seq(Packet) /\ Len(queue[h]) <= Depth
      BY DEF IInv, TypeOK
    <3>3. qn \in Seq(Packet) /\ Len(qn) <= Depth
      BY <1>2, <3>2
    <3> HIDE DEF q, qn
    <3>4. \A h \in Gate : queue'[h] \in Seq(Packet) /\ Len(queue'[h]) <= Depth
      BY ONLY <1>3, <1>4, <3>2, <3>3
    <3> QED
      BY ONLY <3>1, <3>4
  <2> HIDE DEF q, qn
  <2>2. thread' \in [Gate -> Label]
    BY <1>1 DEF IInv, TypeOK, Label
  <2>3. config' \in [Gate -> Settings]
    BY <1>1, IGateAssumption DEF IInv, TypeOK
  <2>4. state' \in [Gate -> {"waiting", "blocked", "disabled", "connecting", "connected",
                             "reconnecting", "error", "stopped"}]
    BY <1>1 DEF IInv, TypeOK
  <2> QED
    BY <1>1, <2>1, <2>2, <2>3, <2>4 DEF IInv, TypeOK
<1>6. LinkInv'
  <2> HIDE DEF qn
  <2> QED
    BY <1>1, <1>3 DEF IInv, TypeOK, LinkInv, Apart, Joined
<1>7. CopyInv'
  <2>1. \A h, x, t : Known(h, x, t)' = Known(h, x, t)
    BY <1>1 DEF Known
  <2>2. CopyInv!(g)
    BY DEF IInv, CopyInv
  <2>3. CopyInv!(g)'
    <3> HIDE DEF q, qn
    <3> QED
      BY <1>1, <1>2, <1>4, <2>1, <2>2 DEF q
  <2>4. ASSUME NEW h \in Gate \ {g} PROVE CopyInv!(h)'
    BY <1>1, <1>3, <2>1 DEF CopyInv, IInv
  <2> QED
    BY <2>3, <2>4 DEF CopyInv
<1>8. CloseInv' /\ OnlyLive' /\ NoDuplicate'
  <2> HIDE DEF qn
  <2> QED
    BY <1>1 DEF CloseInv, OnlyLive, NoDuplicate, IInv, TypeOK
<1> QED
  BY <1>5, <1>6, <1>7, <1>8 DEF IInv

LEMMA DrainStep == ASSUME IInv, NEW g \in Gate, Drain(g) PROVE IInv'
<1>0. << >> \in Seq(Packet) /\ Len(<< >>) = 0 /\ DOMAIN << >> = {} /\ Depth \in Nat
  BY IGateAssumption
<1>1. /\ thread[g] = "drain" /\ thread' = [thread EXCEPT ![g] = "top"]
      /\ queue' = [queue EXCEPT ![g] = << >>]
      /\ UNCHANGED <<now, saved, edits, owner, used, stop, closing, state, config, recent,
                     last, faults>>
  BY DEF Drain, Goto, files, marks
<1>2. queue'[g] = << >> /\ \A h \in Gate \ {g} : queue'[h] = queue[h]
  BY <1>1 DEF IInv, TypeOK
<1>3. TypeOK'
  BY <1>0, <1>1 DEF IInv, TypeOK, Label
<1>4. LinkInv'
  BY <1>1, <1>2 DEF IInv, TypeOK, LinkInv, Apart, Joined
<1>5. CopyInv'
  <2>1. \A h, x, t : Known(h, x, t)' = Known(h, x, t)
    BY <1>1 DEF Known
  <2>2. CopyInv!(g)'
    <3>1. CopyInv!(g)
      BY DEF IInv, CopyInv
    <3> QED
      BY <1>0, <1>1, <1>2, <2>1, <3>1
  <2>3. ASSUME NEW h \in Gate \ {g} PROVE CopyInv!(h)'
    BY <1>1, <1>2, <2>1 DEF CopyInv, IInv
  <2> QED
    BY <2>2, <2>3 DEF CopyInv
<1>6. CloseInv' /\ OnlyLive' /\ NoDuplicate'
  BY <1>1 DEF CloseInv, OnlyLive, NoDuplicate, IInv, TypeOK
<1> QED
  BY <1>3, <1>4, <1>5, <1>6 DEF IInv

\* Time only makes what was forgotten older.
LEMMA TickStep == ASSUME IInv, Tick PROVE IInv'
<1>1. /\ now < Horizon /\ now' = now + 1
      /\ UNCHANGED <<saved, edits, owner, thread, used, stop, closing, state, config, queue,
                     recent, last, faults>>
  BY DEF Tick, marks
<1>2. now \in Nat /\ Horizon \in Nat /\ now > 0 /\ Memory \in Nat
  BY IGateAssumption DEF IInv, TypeOK, Time
<1>3. TypeOK'
  <2>1. now' \in Time
    BY <1>1, <1>2 DEF Time
  <2> QED
    BY <1>1, <2>1 DEF IInv, TypeOK
<1>4. \A h \in Gate, x \in Key, t \in Time : Known(h, x, t) => Known(h, x, t)'
  <2> SUFFICES ASSUME NEW h \in Gate, NEW x \in Key, NEW t \in Time, Known(h, x, t)
               PROVE  Known(h, x, t)'
    OBVIOUS
  <2>1. t \in Nat
    BY DEF Time
  <2> QED
    BY <1>1, <1>2, <2>1 DEF Known
<1>5. CopyInv'
  <2>1. \A h \in Gate, k \in Key : last[h][k] # 0 => last[h][k] \in Time
    BY DEF IInv, TypeOK
  <2>2. \A h \in Gate : \A i \in DOMAIN queue[h] : queue[h][i].key \in Key /\ queue[h][i].at \in Time
    <3>1. \A h \in Gate : \A i \in DOMAIN queue[h] : queue[h][i] \in Packet
      BY DEF IInv, TypeOK
    <3> QED
      BY <3>1 DEF Packet
  <2>3. \A h \in Gate, k \in Key : recent[h][k] \in Nat
    BY DEF IInv, TypeOK, Time
  <2>4. ASSUME NEW h \in Gate PROVE CopyInv!(h)'
    <3>1. CopyInv!(h)
      BY DEF IInv, CopyInv
    <3>2. \A k \in Key : recent'[h][k] <= now'
      BY ONLY <1>1, <1>2, <2>3, <3>1
    <3> QED
      BY <1>1, <1>4, <2>1, <2>2, <3>1, <3>2
  <2> QED
    BY <2>4 DEF CopyInv
<1>6. LinkInv' /\ CloseInv' /\ OnlyLive' /\ NoDuplicate'
  BY <1>1 DEF LinkInv, CloseInv, OnlyLive, NoDuplicate, IInv
<1> QED
  BY <1>3, <1>5, <1>6 DEF IInv

LEMMA SaveStep == ASSUME IInv, NEW v \in Settings, Save(v) PROVE IInv'
<1>1. /\ edits < MaxEdit /\ saved' = v /\ edits' = edits + 1
      /\ UNCHANGED <<now, owner, thread, used, stop, closing, state, config, queue, recent,
                     last, faults>>
  BY DEF Save, marks
<1>2. edits' \in 0 .. MaxEdit
  BY <1>1, IGateAssumption DEF IInv, TypeOK
<1>3. TypeOK'
  BY <1>1, <1>2 DEF IInv, TypeOK
<1>4. CopyInv'
  BY <1>1, PlainCopies DEF IInv
<1> QED
  BY <1>1, <1>3, <1>4 DEF IInv, LinkInv, CloseInv, OnlyLive, NoDuplicate

LEMMA IdleStep == ASSUME IInv, UNCHANGED vars PROVE IInv'
<1>1. CopyInv'
  BY PlainCopies DEF IInv, vars, files, marks
<1> QED
  BY <1>1 DEF IInv, vars, files, marks, TypeOK, LinkInv, CloseInv, OnlyLive, NoDuplicate

THEOREM Invariant == Spec => []IInv
<1>1. Init => IInv
  BY Start
<1>2. IInv /\ [Next]_vars => IInv'
  <2> SUFFICES ASSUME IInv, [Next]_vars PROVE IInv'
    OBVIOUS
  <2>1. ASSUME NEW g \in Gate, Session(g) PROVE IInv'
    BY <2>1, PlainStep, SubmitStep DEF Session
  <2>2. ASSUME NEW g \in Gate, Thread(g) PROVE IInv'
    BY <2>2, PlainStep, UploadStep, HangUpStep, DrainStep DEF Thread
  <2>3. ASSUME NEW v \in Settings, Save(v) PROVE IInv'
    BY <2>3, SaveStep
  <2>4. CASE Tick
    BY <2>4, TickStep
  <2>5. CASE UNCHANGED vars
    BY <2>5, IdleStep
  <2> QED
    BY <2>1, <2>2, <2>3, <2>4, <2>5 DEF Next
<1> QED
  BY <1>1, <1>2, PTL DEF Spec

\* Every variable keeps its type, and the queue its limit (queue.Queue(maxsize)).
THEOREM TypeCorrect == Spec => []TypeOK
<1>1. IInv => TypeOK
  BY DEF IInv
<1> QED
  BY <1>1, Invariant, PTL

\* What is uploaded was heard on the connection that carries it and under its
\* callsign: submit looks at config under the lock that _run takes to clear it,
\* so that nothing enters the queue between the drain and the next login.
THEOREM LiveSafe == Spec => []OnlyLive
<1>1. IInv => OnlyLive
  BY DEF IInv
<1> QED
  BY <1>1, Invariant, PTL

\* No gate uploads two copies of a packet within Memory: recent never forgets a
\* key that may still wait in the queue.
THEOREM DuplicateSafe == Spec => []NoDuplicate
<1>1. IInv => NoDuplicate
  BY DEF IInv
<1> QED
  BY <1>1, Invariant, PTL

\* A gate that was closed stays shown as stopped, whatever its thread still does.
THEOREM StopSafe == Spec => []StaysStopped
<1>1. IInv => StaysStopped
  BY DEF IInv, CloseInv, StaysStopped
<1> QED
  BY <1>1, Invariant, PTL

-----------------------------------------------------------------------------
\* The uploader's lock has an owner exactly while that gate's thread is between
\* taking and giving it back, and only then may a gate be shown as connected.
OwnerInv ==
    /\ \A g \in Gate : owner = g <=> thread[g] \notin {"none", "lock", "dead"}
    /\ \A g \in Gate : state[g] = "connected" => thread[g] \in {"live", "wait", "hangup"}

\* A gate that has a connection, wants one, or shows one.
Uploader(g) == thread[g] \in {"connect", "login"} \cup Joined \/ state[g] = "connected"

OneUploader == \A g, h \in Gate : Uploader(g) /\ Uploader(h) => g = h

LEMMA OwnerStart == Init => OwnerInv
BY IGateAssumption DEF Init, OwnerInv

LEMMA OwnerStep == ASSUME TypeOK, OwnerInv, [Next]_vars PROVE OwnerInv'
<1> USE IGateAssumption DEF TypeOK, OwnerInv, Goto, Shows
<1>1. ASSUME NEW g \in Gate, Session(g) PROVE OwnerInv'
  <2>1. CASE Close(g)
    BY <2>1 DEF Close
  <2>2. CASE Closed(g)
    BY <2>2 DEF Closed
  <2>3. CASE InputReady(g)
    BY <2>3 DEF InputReady
  <2>4. ASSUME NEW k \in Key, Submit(g, k) PROVE OwnerInv'
    BY <2>4 DEF Submit
  <2> QED
    BY <1>1, <2>1, <2>2, <2>3, <2>4 DEF Session
<1>2. ASSUME NEW g \in Gate, Thread(g) PROVE OwnerInv'
  <2>1. CASE TakeLock(g)
    BY <2>1 DEF TakeLock
  <2>2. CASE ReadSettings(g)
    BY <2>2 DEF ReadSettings
  <2>3. CASE Connect(g)
    BY <2>3 DEF Connect
  <2>4. CASE LoggedIn(g)
    BY <2>4 DEF LoggedIn
  <2>5. CASE ShowConnected(g)
    BY <2>5 DEF ShowConnected
  <2>6. CASE Fail(g)
    BY <2>6 DEF Fail
  <2>7. CASE Waited(g)
    BY <2>7 DEF Waited
  <2>8. CASE LeaveLoop(g)
    BY <2>8 DEF LeaveLoop
  <2>9. CASE Upload(g)
    BY <2>9 DEF Upload
  <2>10. CASE HangUp(g)
    BY <2>10 DEF HangUp
  <2>11. CASE Drain(g)
    BY <2>11 DEF Drain
  <2>12. CASE Release(g)
    BY <2>12 DEF Release
  <2> QED
    BY <1>2, <2>1, <2>2, <2>3, <2>4, <2>5, <2>6, <2>7, <2>8, <2>9, <2>10, <2>11, <2>12
       DEF Thread
<1>3. ASSUME NEW v \in Settings, Save(v) PROVE OwnerInv'
  BY <1>3 DEF Save
<1>4. CASE Tick
  BY <1>4 DEF Tick
<1>5. CASE UNCHANGED vars
  BY <1>5 DEF vars
<1> QED
  BY <1>1, <1>2, <1>3, <1>4, <1>5 DEF Next

\* No two decoders of an installation are connected to the server, on the way to
\* it, or shown as connected, whichever of them close or fail meanwhile (run).
THEOREM UploaderSafe == Spec => []OneUploader
<1>1. OwnerInv => OneUploader
  BY DEF OwnerInv, OneUploader, Uploader, Joined
<1>2. IInv /\ OwnerInv /\ [Next]_vars => OwnerInv'
  BY OwnerStep DEF IInv
<1> QED
  BY <1>1, <1>2, OwnerStart, Invariant, PTL DEF Spec
=============================================================================
